-------------------------- MODULE OneTimeCommands --------------------------
(***************************************************************************)
(* What the uploads of Image and Buffer share: the queue families, the one-  *)
(* time command buffers of Command, and what a queue may do with the memory  *)
(* of a resource.  run_one_time records, submits and waits, so the recorded  *)
(* commands have run when it returns; it can throw while recording or when   *)
(* the submission fails.                                                     *)
(***************************************************************************)
EXTENDS QueueFamilies

CONSTANTS
  Undefined,     (* memory whose contents nobody may rely on                   *)
  NotCreated,    (* no device object                                           *)
  MaxFailures    (* bound: calls that fail                                     *)

ASSUME FailuresAssumption == MaxFailures \in Nat

VARIABLES
  offered,       (* the families of the device, forgotten once chosen          *)
  surface,       (* QueueFamilies is constructed with a surface                *)
  families,      (* QueueFamilies::indices, or NotCreated                      *)
  one_time_cbs,  (* graphics and transfer -> "ready" or "recording"            *)
  failures,
  leaked,        (* the kinds of device objects nobody owns anymore            *)
  invalid        (* the kinds of commands recorded against the rules           *)

deviceVars == <<offered, surface, families, one_time_cbs, failures, leaked, invalid>>

OneTimeTypes == {"graphics", "transfer"}

(* QueueFamilies::construct; a device without the families is refused, also  *)
(* one none of whose families presents to the surface.                       *)
ConstructQueueFamilies ==
  /\ families = NotCreated
  /\ Satisfied(Indices(offered), surface)
  /\ families' = Indices(offered)
  /\ UNCHANGED <<offered, surface, one_time_cbs, failures, leaked, invalid>>

(* LogicalDevice::construct: one queue of each distinct family.              *)
ConstructLogicalDevice ==
  /\ families # NotCreated
  /\ offered # <<>>
  /\ IsInjective(GetQueues(families, QueueKinds))
  /\ offered' = <<>>
  /\ UNCHANGED <<surface, families, one_time_cbs, failures, leaked, invalid>>

DeviceConstructed == families # NotCreated /\ offered = <<>>

SharedBy(queues) == Families(families, queues)

(* Memory is a record with shared (its families), owner (0 until a family    *)
(* used it) and its contents.  Another family than the owner of exclusive    *)
(* memory, or one a concurrent resource is not shared by, finds nothing.     *)
Loses(memory, kind) ==
  IF Cardinality(memory.shared) = 1
  THEN memory.owner \notin {0, families[kind]}
  ELSE families[kind] \notin memory.shared

Acquire(memory, kind) ==
  [memory EXCEPT
     !.owner = families[kind],
     !.contents = IF Loses(memory, kind) THEN [n \in DOMAIN @ |-> Undefined] ELSE @]

-----------------------------------------------------------------------------
(* run_one_time until it returns, or throws while it records or submits.  An *)
(* exception out of the recording leaves the command buffer recording, and   *)
(* the next call begins it all the same.                                     *)
Breaks(rules) == invalid' = invalid \union {r \in DOMAIN rules : ~rules[r]}

Begin(type, rules) ==
  Breaks([r \in DOMAIN rules \union {"begin"} |->
            IF r = "begin" THEN one_time_cbs[type] = "ready" ELSE rules[r]])

Fails == failures < MaxFailures /\ failures' = failures + 1

RunOneTime(type, rules) ==
  /\ Begin(type, rules)
  /\ one_time_cbs' = [one_time_cbs EXCEPT ![type] = "ready"]
  /\ UNCHANGED <<offered, surface, families, failures>>

RunOneTimeThrows(type, rules, state) ==
  /\ Fails
  /\ Begin(type, rules)
  /\ one_time_cbs' = [one_time_cbs EXCEPT ![type] = state]
  /\ UNCHANGED <<offered, surface, families>>

DeviceInit ==
  /\ surface \in BOOLEAN
  /\ (\E j \in DOMAIN offered : offered[j].present) => surface
  /\ families = NotCreated
  /\ one_time_cbs = [t \in OneTimeTypes |-> "ready"]
  /\ failures = 0
  /\ leaked = {}
  /\ invalid = {}
=============================================================================
