-------------------- MODULE AccelerationStructureBuilder --------------------
(***************************************************************************)
(* vkte::AccelerationStructureBuilder: bottom level structures (BLASes),     *)
(* instances of them and the one top level structure (TLAS) over the         *)
(* instances.  Changes are collected and built by the next begin_frame, as   *)
(* part of its frame work; what is replaced or removed goes to the memory    *)
(* manager's deferred destruction.                                           *)
(*                                                                           *)
(* A BLAS is its acceleration structure with its buffer, likewise the TLAS   *)
(* with its bindless buffer and its scratch buffer; an object that an        *)
(* allocation left in parts is named like a whole one.  Every object is a    *)
(* new one, named by its kind and a number.  Of the frames only what Command *)
(* and MemoryManager do is here: begin_frame waits for the slot's previous   *)
(* use, and destroys what was asked for frames_in_flight frames ago.  The    *)
(* asserted build is modelled: a stale handle of a buffer throws.            *)
(***************************************************************************)
EXTENDS Naturals, Sequences, FiniteSets

CONSTANTS
  frames_in_flight,
  Transforms,     (* transforms of an instance                                 *)
  None,           (* no object                                                 *)
  MaxFrames,      (* bound: calls of begin_frame                               *)
  MaxBlases,      (* bound: BLASes ever added                                  *)
  MaxInstances,   (* bound: instances ever added                               *)
  MaxCalls,       (* bound: calls of the application                           *)
  MaxFailures     (* bound: allocations and submissions of begin_frame that    *)
                  (* throw                                                     *)

ASSUME FramesAssumption == frames_in_flight \in Nat \ {0}
ASSUME BoundsAssumption ==
  MaxFrames \in Nat /\ MaxBlases \in Nat /\ MaxInstances \in Nat
  /\ MaxCalls \in Nat /\ MaxFailures \in Nat

Objects == {"blas", "scratch", "tlas", "instances"} \X Nat
ASSUME NoneAssumption == None \notin Objects

VARIABLES
  bottom_level_as,      (* the vector of BLASes                                *)
  blas_generations,
  free_blas_indices,
  blas_update_indices,  (* BLASes to build with the next frame                 *)
  instances,            (* the vector of instances                             *)
  instance_generations,
  free_instance_indices,
  instance_buffers,     (* frame slot -> buffer and number of instances in it  *)
  tlas,                 (* the TLAS, the number of instances it is for, and    *)
                        (* whether it has what a build needs                   *)
  tlas_outdated,
  created,              (* kind -> objects created so far                      *)
  live,                 (* the objects that exist                              *)
  pending,              (* those whose destruction is put off, with the frame, *)
                        (* and whether that had been asked for before          *)
  global_frame_counter,
  current_frame,
  phase,                (* how far Engine is in the frame                      *)
  failures,
  built,                (* device: BLASes whose last change is built           *)
  tlas_contents,        (* device: the TLAS built last, with its instances     *)
  uses,                 (* frame slot -> objects its frame uses on the device  *)
  given,                (* handles the calls returned (history)                *)
  removed,              (* those given back (history)                          *)
  misused,              (* objects used although the application's calls left  *)
                        (* them dangling (history)                             *)
  lost,                 (* TLASes that nothing refers to since their creation  *)
                        (* failed (history)                                    *)
  kept,                 (* buffers of instances given to destruction, whose    *)
                        (* handle stayed as they were not replaced (history)   *)
  calls                 (* number of calls, bounded by MaxCalls                *)

blasVars == <<bottom_level_as, blas_generations, free_blas_indices, blas_update_indices>>
instanceVars == <<instances, instance_generations, free_instance_indices>>
tlasVars == <<instance_buffers, tlas>>
frameVars == <<global_frame_counter, current_frame, phase, failures>>
deviceVars == <<built, tlas_contents, uses>>
failureVars == <<lost, kept>>
historyVars == <<given, removed, misused, failureVars>>
vars == <<blasVars, instanceVars, tlasVars, tlas_outdated, created, live, pending,
          frameVars, deviceVars, historyVars, calls>>

FrameSlots == 0 .. frames_in_flight - 1
Kinds == {"blas", "scratch", "tlas", "instances", "instance"}
New(kind) == <<kind, created[kind] + 1>>

BLAS(object, scratch, dynamic) ==
  [handle |-> object, scratch_buffer |-> scratch, scratch_address |-> scratch,
   dynamic |-> dynamic]
NoBLAS == BLAS(None, None, FALSE)
TLAS(object, count, ready) == [handle |-> object, primitive_count |-> count, ready |-> ready]
NoTLAS == TLAS(None, 0, FALSE)
NoInstance == [blas |-> None, transform |-> None]
NoBuffer == [buffer |-> None, count |-> 0]

Init ==
  /\ bottom_level_as = <<>>
  /\ blas_generations = <<>>
  /\ free_blas_indices = <<>>
  /\ blas_update_indices = {}
  /\ instances = <<>>
  /\ instance_generations = <<>>
  /\ free_instance_indices = <<>>
  /\ instance_buffers = [f \in FrameSlots |-> NoBuffer]
  /\ tlas = NoTLAS
  /\ tlas_outdated = TRUE
  /\ created = [k \in Kinds |-> 0]
  /\ live = {}
  /\ pending = {}
  /\ global_frame_counter = 0
  /\ current_frame = 0
  /\ phase = "outside"
  /\ failures = 0
  /\ built = {}
  /\ tlas_contents = [handle |-> None, instances |-> <<>>]
  /\ uses = [f \in FrameSlots |-> {}]
  /\ given = {}
  /\ removed = {}
  /\ misused = {}
  /\ lost = {}
  /\ kept = {}
  /\ calls = 0

PendingObjects == {pd.object : pd \in pending}

Defer(objects) ==
  {[object |-> o, requested_at_frame |-> global_frame_counter,
    again |-> o \notin live \/ o \in PendingObjects] : o \in objects \ {None}}

(* The vectors count from 1 here.                                            *)
Index(free, vector) == IF free = <<>> THEN Len(vector) + 1 ELSE free[Len(free)]
Remaining(free) == IF free = <<>> THEN free ELSE SubSeq(free, 1, Len(free) - 1)
Stored(vector, index, element) ==
  IF index > Len(vector) THEN Append(vector, element) ELSE [vector EXCEPT ![index] = element]
Generations(generations, index) ==
  IF index > Len(generations) THEN Append(generations, 0) ELSE generations

-----------------------------------------------------------------------------
(* BLASes.                                                                  *)

(* Mutant: without the comparison of generations.                            *)
AnyGeneration(generations, h) == h.id <= Len(generations)

(* get_index, whose assertion every call makes                               *)
Resolves(generations, h) == h.id <= Len(generations) /\ generations[h.id] = h.generation

BlasHandles == {h \in given : h.kind = "blas" /\ Resolves(blas_generations, h)}
InstanceHandles == {h \in given : h.kind = "instance" /\ Resolves(instance_generations, h)}

(* add_blas, add_aabb_blas                                                   *)
AddBlas(dynamic) ==
  LET blas == New("blas")
      scratch == New("scratch")
      index == Index(free_blas_indices, bottom_level_as)
  IN /\ created["blas"] < MaxBlases
     /\ created' = [created EXCEPT !["blas"] = @ + 1, !["scratch"] = @ + 1]
     /\ live' = live \union {blas, scratch}
     /\ bottom_level_as' = Stored(bottom_level_as, index, BLAS(blas, scratch, dynamic))
     /\ blas_generations' = Generations(blas_generations, index)
     /\ free_blas_indices' = Remaining(free_blas_indices)
     /\ blas_update_indices' = blas_update_indices \union {index}
     /\ tlas_outdated' = TRUE
     /\ given' = given \union
          {[kind |-> "blas", id |-> index, generation |-> blas_generations'[index]]}
     /\ UNCHANGED <<instanceVars, tlasVars, pending, frameVars, deviceVars, removed, misused,
                    failureVars>>

(* An allocation of it throws: the slot is taken and no handle leads to it,  *)
(* so it stays with what it has got until destruct.                          *)
AddBlasThrows(dynamic) ==
  LET index == Index(free_blas_indices, bottom_level_as)
  IN \E blas \in {None, New("blas")} :
       /\ created["blas"] < MaxBlases
       /\ created' = IF blas = None THEN created ELSE [created EXCEPT !["blas"] = @ + 1]
       /\ live' = live \union ({blas} \ {None})
       /\ bottom_level_as' = Stored(bottom_level_as, index, BLAS(blas, None, dynamic))
       /\ blas_generations' = Generations(blas_generations, index)
       /\ free_blas_indices' = Remaining(free_blas_indices)
       /\ UNCHANGED <<blas_update_indices, instanceVars, tlasVars, tlas_outdated, pending,
                      frameVars, deviceVars, historyVars>>

(* A BLAS that is not dynamic has given its scratch buffer away once built;  *)
(* building it again would use it nevertheless.                              *)
UpdateBlas(h) ==
  /\ blas_update_indices' = blas_update_indices \union {h.id}
  /\ tlas_outdated' = TRUE
  /\ built' = built \ {bottom_level_as[h.id].handle}
  /\ UNCHANGED <<bottom_level_as, blas_generations, free_blas_indices, instanceVars,
                 tlasVars, created, live, pending, frameVars, tlas_contents, uses, historyVars>>

ForgetUpdate(index) == blas_update_indices \ {index}

(* Instances that refer to it go on doing so.                                *)
RemoveBlas(h) ==
  LET blas == bottom_level_as[h.id]
  IN /\ pending' = pending \union Defer({blas.handle, blas.scratch_buffer})
     /\ bottom_level_as' = [bottom_level_as EXCEPT ![h.id] = NoBLAS]
     /\ blas_generations' = [blas_generations EXCEPT ![h.id] = @ + 1]
     /\ blas_update_indices' = ForgetUpdate(h.id)
     /\ free_blas_indices' = Append(free_blas_indices, h.id)
     /\ removed' = removed \union {h}
     /\ UNCHANGED <<instanceVars, tlasVars, tlas_outdated, created, live, frameVars,
                    deviceVars, given, misused, failureVars>>

-----------------------------------------------------------------------------
(* Instances.                                                               *)

AddInstance(h, transform) ==
  LET index == Index(free_instance_indices, instances)
  IN /\ created["instance"] < MaxInstances
     /\ created' = [created EXCEPT !["instance"] = @ + 1]
     /\ instances' = Stored(instances, index,
                            [blas |-> bottom_level_as[h.id].handle, transform |-> transform])
     /\ instance_generations' = Generations(instance_generations, index)
     /\ free_instance_indices' = Remaining(free_instance_indices)
     /\ tlas_outdated' = TRUE
     /\ given' = given \union
          {[kind |-> "instance", id |-> index, generation |-> instance_generations'[index]]}
     /\ UNCHANGED <<blasVars, tlasVars, live, pending, frameVars, deviceVars, removed,
                    misused, failureVars>>

(* update_instance, set_instance_blas                                        *)
ChangeInstance(h, instance) ==
  /\ instances' = [instances EXCEPT ![h.id] = instance]
  /\ tlas_outdated' = TRUE
  /\ UNCHANGED <<blasVars, instance_generations, free_instance_indices, tlasVars, created,
                 live, pending, frameVars, deviceVars, historyVars>>

UpdateInstance(h, transform) ==
  ChangeInstance(h, [instances[h.id] EXCEPT !.transform = transform])

SetInstanceBlas(h, b) ==
  ChangeInstance(h, [instances[h.id] EXCEPT !.blas = bottom_level_as[b.id].handle])

(* Mutant: the TLAS is not built again.                                      *)
RemoveInstanceQuietly(h) ==
  /\ instances' = [instances EXCEPT ![h.id] = NoInstance]
  /\ instance_generations' = [instance_generations EXCEPT ![h.id] = @ + 1]
  /\ free_instance_indices' = Append(free_instance_indices, h.id)
  /\ removed' = removed \union {h}
  /\ UNCHANGED <<blasVars, tlasVars, tlas_outdated, created, live, pending, frameVars,
                 deviceVars, given, misused, failureVars>>

(* The vector keeps an inactive instance.                                    *)
RemoveInstance(h) ==
  /\ instances' = [instances EXCEPT ![h.id] = NoInstance]
  /\ instance_generations' = [instance_generations EXCEPT ![h.id] = @ + 1]
  /\ free_instance_indices' = Append(free_instance_indices, h.id)
  /\ removed' = removed \union {h}
  /\ tlas_outdated' = TRUE
  /\ UNCHANGED <<blasVars, tlasVars, created, live, pending, frameVars, deviceVars,
                 given, misused, failureVars>>

Call ==
  /\ phase \in {"outside", "frame"}
  /\ calls < MaxCalls
  /\ calls' = calls + 1
  /\ \/ \E dynamic \in BOOLEAN : AddBlas(dynamic) \/ AddBlasThrows(dynamic)
     \/ \E b \in BlasHandles :
          \/ UpdateBlas(b)
          \/ RemoveBlas(b)
          \/ \E transform \in Transforms : AddInstance(b, transform)
          \/ \E h \in InstanceHandles : SetInstanceBlas(h, b)
     \/ \E h \in InstanceHandles :
          \/ \E transform \in Transforms : UpdateInstance(h, transform)
          \/ RemoveInstance(h)

-----------------------------------------------------------------------------
(* Frames.                                                                  *)

NextSlot == (current_frame + 1) % frames_in_flight

(* Mutant: what is destroyed is given one frame too few.                     *)
DueEarly(pd) == global_frame_counter' - pd.requested_at_frame >= frames_in_flight - 1

Due(pd) == global_frame_counter' - pd.requested_at_frame >= frames_in_flight

(* Command::begin_frame and MemoryManager::begin_frame                       *)
BeginFrame ==
  LET due == {pd \in pending : Due(pd)}
  IN /\ phase \in {"outside", "destructed"}
     /\ global_frame_counter < MaxFrames
     /\ global_frame_counter' = global_frame_counter + 1
     /\ \A pd \in due : ~pd.again
     /\ pending' = pending \ due
     /\ live' = live \ {pd.object : pd \in due}
     /\ uses' = [uses EXCEPT ![current_frame] = {}]
     /\ phase' = IF phase = "outside" THEN "begun" ELSE phase
     /\ current_frame' = IF phase = "outside" THEN current_frame ELSE NextSlot
     /\ UNCHANGED <<blasVars, instanceVars, tlasVars, tlas_outdated, created, failures,
                    built, tlas_contents, historyVars>>

(* What is destroyed already is not destroyed again: flush throws when it    *)
(* comes to it, in the order of the frames, and the rest stays pending.      *)
FlushThrows ==
  /\ phase \in {"outside", "destructed"}
  /\ global_frame_counter < MaxFrames
  /\ global_frame_counter' = global_frame_counter + 1
  /\ \E again \in pending, flushed \in SUBSET pending :
       /\ Due(again) /\ again.again /\ again \in flushed
       /\ \A pd \in pending :
            /\ pd.requested_at_frame < again.requested_at_frame => pd \in flushed
            /\ pd.requested_at_frame > again.requested_at_frame => pd \notin flushed
       /\ \A pd \in flushed \ {again} : ~pd.again
       /\ pending' = pending \ flushed
       /\ live' = live \ {pd.object : pd \in flushed}
  /\ uses' = [uses EXCEPT ![current_frame] = {}]
  /\ UNCHANGED <<blasVars, instanceVars, tlasVars, tlas_outdated, created, current_frame, phase,
                 failures, built, tlas_contents, historyVars>>

has_frame_work == blas_update_indices # {} \/ tlas_outdated

Traced == {tlas_contents.instances[i].blas : i \in DOMAIN tlas_contents.instances}
BlasesOwned == {bottom_level_as[i].handle : i \in DOMAIN bottom_level_as}

(* The frame that was begun traces rays: it uses the TLAS as it is and the   *)
(* BLASes it was built with, removed ones if the application left instances  *)
(* of them.                                                                  *)
EnterFrame(objects, dangling) ==
  /\ uses' = [uses EXCEPT ![current_frame] =
                (@ \union objects \union {tlas'.handle} \union Traced') \ {None}]
  /\ misused' = (misused \union dangling \union (Traced' \ BlasesOwned)) \ {None}
  /\ phase' = "frame"

NoFrameWork ==
  /\ phase = "begun"
  /\ ~has_frame_work
  /\ UNCHANGED <<blasVars, instanceVars, tlasVars, tlas_outdated, created, live, pending,
                 global_frame_counter, current_frame, failures, built, tlas_contents,
                 given, removed, failureVars>>
  /\ EnterFrame({}, {})

Updated == {bottom_level_as[i] : i \in blas_update_indices}

NeedsNewTlas == tlas.handle = None \/ tlas.primitive_count # Len(instances)

Count == IF instances = <<>> THEN 1 ELSE Len(instances)

Slot == instance_buffers[current_frame]

(* The buffer is written again if its size fits, and it exists.              *)
Fits == Slot.count = Count

Stale == Slot.buffer \notin live \union {None}

(* Mutant: the scratch buffer is destroyed and kept.                         *)
WithScratch(blas) == blas

WithoutScratch(blas) == IF blas.dynamic THEN blas ELSE [blas EXCEPT !.scratch_buffer = None]

(* AccelerationStructureBuilder::begin_frame, first part: builds what was    *)
(* updated and drops the scratch buffers of what is not dynamic.             *)
BuildBlases ==
  /\ phase = "begun"
  /\ has_frame_work
  /\ bottom_level_as' = [i \in DOMAIN bottom_level_as |->
       IF i \in blas_update_indices THEN WithoutScratch(bottom_level_as[i])
       ELSE bottom_level_as[i]]
  /\ blas_update_indices' = {}
  /\ UNCHANGED <<blas_generations, free_blas_indices, instanceVars, global_frame_counter,
                 current_frame, given, removed>>

Scratched == {blas.scratch_buffer : blas \in {b \in Updated : ~b.dynamic}}

(* The TLAS is replaced if the number of instances changed.                  *)
Replaced == IF NeedsNewTlas THEN {tlas.handle} ELSE {}
NewTlas == IF NeedsNewTlas THEN {New("tlas")} ELSE {}
NextTlas == IF NeedsNewTlas THEN TLAS(New("tlas"), Len(instances), TRUE) ELSE tlas

(* write_instances and the build of the TLAS.                                *)
Record ==
  LET old == IF Fits THEN {} ELSE {Slot.buffer}
      new == IF Fits THEN {} ELSE {New("instances")}
  IN /\ BuildBlases
     /\ ~Stale
     /\ tlas' = NextTlas
     /\ instance_buffers' =
          IF Fits THEN instance_buffers
          ELSE [instance_buffers EXCEPT ![current_frame] =
                  [buffer |-> New("instances"), count |-> Count]]
     /\ tlas_outdated' = FALSE
     /\ created' = [created EXCEPT !["tlas"] = @ + Cardinality(NewTlas),
                                   !["instances"] = @ + Cardinality(new)]
     /\ live' = live \union NewTlas \union new
     /\ pending' = pending \union Defer(Scratched \union Replaced \union old)
     /\ UNCHANGED failureVars

(* Engine::begin_frame records the builds and submits them.  A TLAS without  *)
(* what a build needs is not built.                                          *)
Build ==
  /\ Record
  /\ built' = built \union {blas.handle : blas \in Updated}
  /\ tlas_contents' = IF tlas'.ready THEN [handle |-> tlas'.handle, instances |-> instances]
                      ELSE tlas_contents
  /\ EnterFrame({blas.handle : blas \in Updated}
                  \union {blas.scratch_address : blas \in Updated}
                  \union {instance_buffers'[current_frame].buffer},
                {blas.scratch_address : blas \in {b \in Updated : b.scratch_buffer = None}})
  /\ UNCHANGED failures

Fails == failures < MaxFailures /\ failures' = failures + 1

(* begin_frame throws, and may be called again.                              *)
LeaveFrame == phase' = "outside" /\ UNCHANGED <<built, tlas_contents, uses, misused>>

(* The submission throws; the builder believes that everything is built.     *)
BuildThrows == Record /\ Fails /\ LeaveFrame

(* create_tlas throws: nothing is there yet, or only the buffer, which the   *)
(* next create_tlas forgets, or all but the scratch buffer, which then       *)
(* passes for a TLAS.                                                        *)
CreateTlasThrows ==
  /\ BuildBlases
  /\ NeedsNewTlas
  /\ Fails
  /\ LeaveFrame
  /\ \/ tlas' = TLAS(None, Len(instances), FALSE) /\ UNCHANGED <<created, live, lost>>
     \/ /\ created' = [created EXCEPT !["tlas"] = @ + 1]
        /\ live' = live \union NewTlas
        /\ \/ tlas' = TLAS(None, Len(instances), FALSE) /\ lost' = lost \union NewTlas
           \/ tlas' = TLAS(New("tlas"), Len(instances), FALSE) /\ UNCHANGED lost
  /\ pending' = pending \union Defer(Scratched \union Replaced)
  /\ UNCHANGED <<instance_buffers, tlas_outdated, kept>>

(* write_instances throws: the slot's buffer is given away and its handle    *)
(* stays if there is no other one to replace it, or it is stale by now.      *)
WriteInstancesThrows ==
  LET old == IF Stale THEN {} ELSE {Slot.buffer}
  IN /\ BuildBlases
     /\ IF Stale THEN UNCHANGED failures ELSE ~Fits /\ Fails
     /\ LeaveFrame
     /\ tlas' = NextTlas
     /\ created' = [created EXCEPT !["tlas"] = @ + Cardinality(NewTlas)]
     /\ live' = live \union NewTlas
     /\ pending' = pending \union Defer(Scratched \union Replaced \union old)
     /\ kept' = kept \union (old \ {None})
     /\ UNCHANGED <<instance_buffers, tlas_outdated, lost>>

EndFrame ==
  /\ phase = "frame"
  /\ phase' = "outside"
  /\ current_frame' = NextSlot
  /\ UNCHANGED <<blasVars, instanceVars, tlasVars, tlas_outdated, created, live, pending,
                 global_frame_counter, failures, deviceVars, historyVars>>

Owned ==
  ({blas.handle : blas \in {bottom_level_as[i] : i \in DOMAIN bottom_level_as}}
     \union {blas.scratch_buffer : blas \in {bottom_level_as[i] : i \in DOMAIN bottom_level_as}}
     \union {instance_buffers[f].buffer : f \in FrameSlots}
     \union {tlas.handle}) \ {None}

(* destruct, between frames.  The builder's handles must not be used after,  *)
(* and what it owned is destroyed by the frames to come.                     *)
Destruct ==
  /\ phase = "outside"
  /\ pending' = pending \union Defer(Owned)
  /\ bottom_level_as' = <<>>
  /\ blas_generations' = <<>>
  /\ free_blas_indices' = <<>>
  /\ blas_update_indices' = {}
  /\ instances' = <<>>
  /\ instance_generations' = <<>>
  /\ free_instance_indices' = <<>>
  /\ instance_buffers' = [f \in FrameSlots |-> NoBuffer]
  /\ tlas' = NoTLAS
  /\ tlas_outdated' = FALSE
  /\ phase' = "destructed"
  /\ UNCHANGED <<created, live, global_frame_counter, current_frame, failures, deviceVars,
                 historyVars>>

(* Bound: MaxFrames.                                                        *)
Finished ==
  /\ phase = "destructed"
  /\ global_frame_counter = MaxFrames
  /\ UNCHANGED vars

Next ==
  \/ Call
  \/ /\ \/ BeginFrame \/ FlushThrows \/ NoFrameWork \/ EndFrame \/ Destruct
        \/ Build \/ BuildThrows \/ CreateTlasThrows \/ WriteInstancesThrows
     /\ UNCHANGED calls
  \/ Finished

Spec == Init /\ [][Next]_vars

-----------------------------------------------------------------------------
(* Properties.                                                              *)

Handles == [kind : {"blas", "instance"}, id : Nat, generation : Nat]

(* Every variable keeps its type.                                           *)
TypeOK ==
  /\ \A i \in DOMAIN bottom_level_as :
       /\ {bottom_level_as[i].handle, bottom_level_as[i].scratch_buffer} \subseteq Objects \union {None}
       /\ bottom_level_as[i].dynamic \in BOOLEAN
  /\ blas_generations \in Seq(Nat) /\ Len(blas_generations) = Len(bottom_level_as)
  /\ instance_generations \in Seq(Nat) /\ Len(instance_generations) = Len(instances)
  /\ \A i \in DOMAIN free_blas_indices : free_blas_indices[i] \in DOMAIN bottom_level_as
  /\ \A i \in DOMAIN free_instance_indices : free_instance_indices[i] \in DOMAIN instances
  /\ blas_update_indices \subseteq DOMAIN bottom_level_as
  /\ \A i \in DOMAIN instances :
       /\ instances[i].blas \in Objects \union {None}
       /\ instances[i].transform \in Transforms \union {None}
  /\ \A f \in FrameSlots : /\ instance_buffers[f].buffer \in Objects \union {None}
                           /\ instance_buffers[f].count \in Nat
  /\ tlas.handle \in Objects \union {None} /\ tlas.primitive_count \in Nat
  /\ tlas.ready \in BOOLEAN
  /\ tlas_outdated \in BOOLEAN
  /\ created \in [Kinds -> Nat]
  /\ live \subseteq Objects
  /\ pending \subseteq [object : Objects, requested_at_frame : 0 .. MaxFrames, again : BOOLEAN]
  /\ global_frame_counter \in 0 .. MaxFrames
  /\ current_frame \in FrameSlots
  /\ phase \in {"outside", "begun", "frame", "destructed"}
  /\ failures \in 0 .. MaxFailures /\ calls \in 0 .. MaxCalls
  /\ uses \in [FrameSlots -> SUBSET Objects]
  /\ given \subseteq Handles /\ removed \subseteq given
  /\ lost \subseteq Objects /\ kept \subseteq Objects

(* A handle resolves from the call that returned it until it is given back,  *)
(* whatever its index is reused for and whichever calls threw, and no two    *)
(* calls return the same one (each that returns one for a BLAS has created a *)
(* scratch buffer).                                                          *)
HandlesResolve ==
  phase # "destructed" =>
    /\ BlasHandles \union InstanceHandles = given \ removed
    /\ Cardinality(given) = created["scratch"] + created["instance"]

(* The memory manager is asked to destroy every object exactly once, when    *)
(* the builder lets go of it, also after allocations and submissions that    *)
(* threw: nothing leaks but a TLAS that has a buffer and no acceleration     *)
(* structure, and the builder keeps no handle of what is to be destroyed,    *)
(* and asks for nothing twice, but a buffer of instances that could not be   *)
(* replaced.                                                                 *)
DestroyedOnce ==
  /\ \A p, q \in pending : p.object = q.object => p = q \/ p.object \in kept
  /\ \A pd \in pending : pd.again => pd.object \in kept
  /\ Owned \intersect PendingObjects \subseteq kept
  /\ live \ kept = ((Owned \union PendingObjects) \ kept) \union lost

(* "Removed acceleration structures stay alive while a frame in flight can   *)
(* use them", and so do replaced ones, scratch and instance buffers: as long *)
(* as the application leaves no instance of a removed BLAS and updates only  *)
(* dynamic ones, and no begin_frame threw and was called again.  The host    *)
(* writes no buffer of instances that another frame in flight may read, and  *)
(* builds no BLAS that was removed.                                          *)
FramesUseLive ==
  /\ failures = 0 => \A f \in FrameSlots : uses[f] \ misused \subseteq live
  /\ \A f, g \in FrameSlots : f # g => instance_buffers[f].buffer \notin uses[g]
  /\ \A i \in blas_update_indices : bottom_level_as[i].handle # None

(* "Changes are built when the next frame begins": a frame traces the        *)
(* instances as they are when it begins, and every BLAS is built with its    *)
(* last changes, unless a begin_frame threw.                                 *)
SceneBuilt ==
  /\ tlas_contents = [handle |-> tlas.handle, instances |-> instances]
  /\ \A h \in BlasHandles : bottom_level_as[h.id].handle \in built

ChangesAreBuilt == [][phase = "begun" /\ phase' = "frame" /\ failures = 0 => SceneBuilt']_vars

=============================================================================
