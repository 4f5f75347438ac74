---------------------------- MODULE EventHandler ----------------------------
(***************************************************************************)
(* vkte::EventHandler: which keys are down, and which were pressed and       *)
(* released during the frame, from the events that SDL reports and ImGui may *)
(* take.  SDL may report any event at any time: a release without a press, a *)
(* repeated press, a second press of what is held.                           *)
(*                                                                           *)
(* A code is what SDL reports: a key code of the keyboard or a mouse button. *)
(* Positions and motions are numbers here instead of vectors.                *)
(***************************************************************************)
EXTENDS Integers, Sequences, SequencesExt

CONSTANTS
  Keys,           (* enum Key, without Size                                    *)
  Codes,          (* key codes of the keyboard                                 *)
  LShift, RShift, (* two of them: SDLK_LSHIFT, SDLK_RSHIFT                     *)
  key_mappings,   (* some codes -> the key they stand for                      *)
  Buttons,        (* keys that are mouse buttons                               *)
  Names,          (* words of the remap file: the names of keys and others     *)
  Files,          (* contents of the remap file: sequences of pairs of names   *)
  Positions,      (* of the mouse                                              *)
  MaxMotion       (* bound: motion in a frame                                  *)

ASSUME KeysAssumption ==
  Buttons \subseteq Keys /\ Keys \subseteq Names /\ Codes \intersect Buttons = {}
ASSUME MappingsAssumption ==
  /\ {LShift, RShift} \subseteq Codes
  /\ DOMAIN key_mappings \subseteq Codes \ {RShift}
  /\ \A code \in DOMAIN key_mappings : key_mappings[code] \in Keys \ Buttons
ASSUME FilesAssumption == \A file \in Files : file \in Seq(Names \X Names)

VARIABLES
  down_keys,
  pressed_keys,          (* during the frame                                   *)
  released_keys,
  key_remap,             (* key -> the key it is taken for                     *)
  mouse_position,
  mouse_motion,
  mouse_wheel_motion,
  file,                  (* the remap file that was read                       *)
  held,                  (* codes and buttons whose press counted and was not  *)
                         (* released (history)                                 *)
  down_before            (* the keys down when the frame began (history)       *)

mouseVars == <<mouse_position, mouse_motion, mouse_wheel_motion>>
eventVars ==
  <<down_keys, pressed_keys, released_keys, key_remap, mouseVars, file, held, down_before>>

(* A line with an unknown name is skipped.                                   *)
RemapLine(remap, line) ==
  IF {line[1], line[2]} \subseteq Keys THEN [remap EXCEPT ![line[1]] = line[2]] ELSE remap

load_key_remap(lines) == FoldLeft(RemapLine, [k \in Keys |-> k], lines)

EventsInit ==
  /\ down_keys = {}
  /\ pressed_keys = {}
  /\ released_keys = {}
  /\ file \in Files
  /\ key_remap = load_key_remap(file)
  /\ mouse_position = 0
  /\ mouse_motion = 0
  /\ mouse_wheel_motion = 0
  /\ held = {}
  /\ down_before = {}

BeginFrame ==
  /\ pressed_keys' = {}
  /\ released_keys' = {}
  /\ mouse_motion' = 0
  /\ mouse_wheel_motion' = 0
  /\ down_before' = down_keys
  /\ UNCHANGED <<down_keys, key_remap, mouse_position, file, held>>

-----------------------------------------------------------------------------
(* Keys and buttons.                                                        *)

(* key_from_sdl_keycode: both shift keys are one key.                        *)
Known(code) == (IF code = RShift THEN LShift ELSE code) \in DOMAIN key_mappings
KeyOf(code) == key_mappings[IF code = RShift THEN LShift ELSE code]

press_key(key) ==
  /\ down_keys' = down_keys \union {key_remap[key]}
  /\ pressed_keys' = pressed_keys \union {key_remap[key]}
  /\ UNCHANGED released_keys

(* "A key whose press didn't count isn't released either."                   *)
release_key(key) ==
  /\ down_keys' = down_keys \ {key_remap[key]}
  /\ released_keys' = released_keys \union ({key_remap[key]} \intersect down_keys)
  /\ UNCHANGED pressed_keys

Ignore == UNCHANGED <<down_keys, pressed_keys, released_keys>>

Counts(code, repeat, captured) == ~repeat /\ ~captured /\ Known(code)

KeyDown ==
  \E code \in Codes, repeat, captured \in BOOLEAN :
    /\ IF Counts(code, repeat, captured) THEN press_key(KeyOf(code)) ELSE Ignore
    /\ held' = IF repeat \/ captured \/ ~Known(code) THEN held ELSE held \union {code}
    /\ UNCHANGED <<key_remap, mouseVars, file, down_before>>

(* Mutant: ImGui takes releases as well.                                     *)
KeyUpUncaptured ==
  \E code \in Codes, captured \in BOOLEAN :
    /\ IF Known(code) /\ ~captured THEN release_key(KeyOf(code)) ELSE Ignore
    /\ held' = held \ {code}
    /\ UNCHANGED <<key_remap, mouseVars, file, down_before>>

KeyUp ==
  \E code \in Codes :
    /\ IF Known(code) THEN release_key(KeyOf(code)) ELSE Ignore
    /\ held' = held \ {code}
    /\ UNCHANGED <<key_remap, mouseVars, file, down_before>>

(* Any other button only moves the mouse.                                    *)
ButtonDown ==
  \E button \in Buttons, captured \in BOOLEAN, position \in Positions :
    /\ mouse_position' = position
    /\ IF captured THEN Ignore ELSE press_key(button)
    /\ held' = IF captured THEN held ELSE held \union {button}
    /\ UNCHANGED <<key_remap, mouse_motion, mouse_wheel_motion, file, down_before>>

ButtonUp ==
  \E button \in Buttons, position \in Positions :
    /\ mouse_position' = position
    /\ release_key(button)
    /\ held' = held \ {button}
    /\ UNCHANGED <<key_remap, mouse_motion, mouse_wheel_motion, file, down_before>>

(* Mutant: keys go up and nothing tells.                                     *)
ReleaseQuietly == released_keys

ReleaseDown == released_keys \union down_keys

(* release_all_keys: the window gets no releases while another one has the   *)
(* focus.                                                                    *)
FocusLost ==
  /\ released_keys' = ReleaseDown
  /\ down_keys' = {}
  /\ held' = {}
  /\ UNCHANGED <<pressed_keys, key_remap, mouseVars, file, down_before>>

-----------------------------------------------------------------------------
(* The mouse.                                                               *)

Within(motion) == motion \in -MaxMotion .. MaxMotion

MouseMotion ==
  \E position \in Positions, relative \in {-1, 1}, captured \in BOOLEAN :
    /\ mouse_position' = position
    /\ mouse_motion' = IF captured THEN mouse_motion ELSE mouse_motion + relative
    /\ Within(mouse_motion')
    /\ UNCHANGED <<down_keys, pressed_keys, released_keys, key_remap, mouse_wheel_motion,
                   file, held, down_before>>

(* Nothing of a wheel event that ImGui takes.                                *)
MouseWheel ==
  \E relative \in {-1, 1} :
    /\ mouse_wheel_motion' = mouse_wheel_motion + relative
    /\ Within(mouse_wheel_motion')
    /\ UNCHANGED <<down_keys, pressed_keys, released_keys, key_remap, mouse_position,
                   mouse_motion, file, held, down_before>>

EventsNext ==
  \/ BeginFrame
  \/ KeyDown \/ KeyUp \/ ButtonDown \/ ButtonUp \/ FocusLost
  \/ MouseMotion \/ MouseWheel

EventsSpec == EventsInit /\ [][EventsNext]_eventVars

-----------------------------------------------------------------------------
(* Properties.                                                              *)

(* Every variable keeps its type.                                           *)
EventTypes ==
  /\ down_keys \subseteq Keys /\ pressed_keys \subseteq Keys /\ released_keys \subseteq Keys
  /\ key_remap \in [Keys -> Keys]
  /\ mouse_position \in Positions \union {0}
  /\ Within(mouse_motion) /\ Within(mouse_wheel_motion)
  /\ held \subseteq Codes \union Buttons
  /\ down_before \subseteq Keys

(* What stands for a key after remapping.                                   *)
Sources(key) ==
  {code \in Codes : Known(code) /\ key_remap[KeyOf(code)] = key}
    \union {button \in Buttons : key_remap[button] = key}

(* "No key stays down": a key that is down is held with a press that counted,*)
(* whatever ImGui took since, and a key with a single source is down exactly *)
(* while such a press is held.  Keys with several sources, like the two      *)
(* shift keys, go up with the first of them that does.                       *)
KeysFollowTheirPress ==
  \A key \in Keys :
    /\ key \in down_keys => Sources(key) \intersect held # {}
    /\ \A source \in Codes \union Buttons :
         Sources(key) = {source} => (key \in down_keys <=> source \in held)

(* What was pressed and released tells how the keys changed since the frame  *)
(* began: nothing goes down or up without it, and what was only pressed is   *)
(* down, what was only released is up and was down before.                   *)
EdgesTellTheChange ==
  /\ down_keys \ down_before \subseteq pressed_keys
  /\ down_before \ down_keys \subseteq released_keys
  /\ pressed_keys \ released_keys \subseteq down_keys
  /\ released_keys \ pressed_keys \subseteq down_before \ down_keys

=============================================================================
