--------------------------- MODULE MemoryManager ---------------------------
(***************************************************************************)
(* vkte::MemoryManager: the bindless slots of buffers and images, their     *)
(* handles and names, the tables each frame slot's shaders look them up in, *)
(* and the queue of destructions that are put off until no frame in flight  *)
(* can use the resource anymore.                                            *)
(*                                                                          *)
(* Storage is seen from here as a set of live resources: each resource it   *)
(* creates is a new one (module Storage shows that its handles behave so).  *)
(* A frame's descriptor pool with its set, and the set's three tables, are   *)
(* its set here: four parts, each a number of its own.                       *)
(***************************************************************************)
EXTENDS Integers, Sequences, FiniteSets

CONSTANTS
  Kinds,             (* "buffer", "image": the kinds of bindless resources     *)
  Names,             (* unique names                                           *)
  NoName,            (* the empty name                                         *)
  frames_in_flight,  (* frame slots                                            *)
  initial_bindless_capacity,
  max_capacity,      (* kind -> slots that the device allows                   *)
  MaxFrames,         (* bound: calls of begin_frame                            *)
  MaxResources,      (* bound: resources ever created                          *)
  MaxRegistrations,  (* bound: handles ever issued                             *)
  MaxSetFailures     (* bound: calls of create_frame_set that throw            *)

ASSUME KindsAssumption == Kinds \subseteq {"buffer", "image"}
ASSUME NamesAssumption == NoName \notin Names
ASSUME FramesAssumption == frames_in_flight \in Nat \ {0}
ASSUME CapacityAssumption ==
  /\ initial_bindless_capacity \in Nat \ {0}
  /\ max_capacity \in [Kinds -> Nat \ {0}]
ASSUME BoundsAssumption ==
  /\ MaxFrames \in Nat /\ MaxResources \in Nat /\ MaxRegistrations \in Nat
  /\ MaxSetFailures \in Nat

VARIABLES
  live,                  (* Storage: kind -> resources that exist              *)
  created,               (* Storage: kind -> number of resources created       *)
  held,                  (* kind -> resources the application has handles of   *)
  size,                  (* kind -> length of buffers_/images_of_bindless      *)
  slots,                 (* kind -> index -> slot                              *)
  free_indices,          (* kind -> reusable indices, the last one first       *)
  names,                 (* kind -> name -> handle                             *)
  pending_destructions,  (* destructions put off, oldest first                 *)
  global_frame_counter,
  capacity,              (* kind -> slots that new tables have                 *)
  frame_capacities,      (* frame slot -> kind -> slots its tables have        *)
  pending_writes,        (* frame slot -> kind -> indices to write             *)
  tables,                (* frame slot -> kind -> index -> entry               *)
  frame_sets,            (* frame slot -> its current set                      *)
  sets,                  (* the parts of sets that exist                       *)
  sets_created,          (* the parts created, counting those of failed calls  *)
  set_failures,          (* calls of create_frame_set that threw               *)
  current_frame,         (* Engine::current_frame                              *)
  phase,                 (* how far Engine is in the frame                     *)
  issued,                (* kind -> handles ever returned (history)            *)
  open                   (* kind -> those not destroyed or unregistered yet    *)

storageVars == <<live, created, held>>
slotVars == <<size, slots, free_indices, names, capacity, issued, open>>
frameVars == <<frame_capacities, tables, frame_sets, sets_created, set_failures>>
vars == <<storageVars, slotVars, pending_destructions, global_frame_counter,
          pending_writes, frameVars, sets, current_frame, phase>>

FrameSlots == 0 .. frames_in_flight - 1
Indices(k) == 0 .. max_capacity[k] - 1
Resources == 1 .. MaxResources
None == 0                  \* no resource, no set
invalid_id == -1           \* no index, and the generation of entries without a slot

Slot == [resource: Resources \union {None}, unique_name: Names \union {NoName},
         generation: Nat]
Entry == [generation: Nat \union {invalid_id}, resource: Resources \union {None}]
(* The descriptor pool, and the tables in the order of their creation.       *)
Parts == 1 .. 4
Pool == 1
NoSet == [p \in Parts |-> None]
PartsOf(set) == {set[p] : p \in Parts} \ {None}
NewSet(n) == [p \in Parts |-> n + p]

Handle == [id: Nat, generation: Nat]
NoHandle == [id |-> invalid_id, generation |-> 0]
PendingDestruction == [kind: Kinds \union {"set"}, resource: Resources \union {None},
                       index: Nat \union {invalid_id}, set: [Parts -> Nat],
                       requested_at_frame: Nat]

EmptySlot == [resource |-> None, unique_name |-> NoName, generation |-> 0]
EmptyEntry == [generation |-> invalid_id, resource |-> None]
EmptyTables == [k \in Kinds |-> [i \in Indices(k) |-> EmptyEntry]]

InitialCapacity(k) ==
  IF initial_bindless_capacity < max_capacity[k]
  THEN initial_bindless_capacity ELSE max_capacity[k]

(* After construct(): every frame slot has an empty set.                     *)
Init ==
  /\ live = [k \in Kinds |-> {}]
  /\ created = [k \in Kinds |-> 0]
  /\ held = [k \in Kinds |-> {}]
  /\ size = [k \in Kinds |-> 0]
  /\ slots = [k \in Kinds |-> [i \in Indices(k) |-> EmptySlot]]
  /\ free_indices = [k \in Kinds |-> <<>>]
  /\ names = [k \in Kinds |-> [n \in Names |-> NoHandle]]
  /\ pending_destructions = <<>>
  /\ global_frame_counter = 0
  /\ capacity = [k \in Kinds |-> InitialCapacity(k)]
  /\ frame_capacities = [f \in FrameSlots |-> capacity]
  /\ pending_writes = [f \in FrameSlots |-> [k \in Kinds |-> {}]]
  /\ tables = [f \in FrameSlots |-> EmptyTables]
  /\ frame_sets = [f \in FrameSlots |-> NewSet(4 * f)]
  /\ sets = 1 .. 4 * frames_in_flight
  /\ sets_created = 4 * frames_in_flight
  /\ set_failures = 0
  /\ current_frame = 0
  /\ phase = "outside"
  /\ issued = [k \in Kinds |-> {}]
  /\ open = [k \in Kinds |-> {}]

-----------------------------------------------------------------------------
(* Slots and handles.                                                       *)

Valid(k, i) == slots[k][i].resource # None

(* Mutant: without the comparison of generations.                            *)
ResolvesIndex(k, h) == h.id < size[k] /\ Valid(k, h.id)

Resolves(k, h) == /\ h.id < size[k]
                  /\ Valid(k, h.id)
                  /\ h.generation = slots[k][h.id].generation

(* Mutant: only the tables of the current frame are written.                 *)
MarkDirtyInFrame(k, i) ==
  pending_writes' = [pending_writes EXCEPT ![current_frame][k] = @ \union {i}]

(* mark_buffer_dirty, mark_image_dirty                                       *)
MarkDirty(k, i) ==
  pending_writes' = [f \in FrameSlots |-> [pending_writes[f] EXCEPT ![k] = @ \union {i}]]

(* The index that register_buffer or register_image takes, and what that     *)
(* does to the free indices, the vector's size and the tables' capacity.     *)
TakeIndex(k, i) ==
  \/ /\ free_indices[k] # <<>>
     /\ i = free_indices[k][Len(free_indices[k])]
     /\ free_indices' = [free_indices EXCEPT ![k] = SubSeq(@, 1, Len(@) - 1)]
     /\ UNCHANGED <<size, capacity>>
  \/ /\ free_indices[k] = <<>>
     /\ size[k] < max_capacity[k]
     /\ i = size[k]
     /\ size' = [size EXCEPT ![k] = @ + 1]
     /\ capacity' = IF size[k] = capacity[k]
                    THEN [capacity EXCEPT ![k] = IF @ * 2 < max_capacity[k]
                                                 THEN @ * 2 ELSE max_capacity[k]]
                    ELSE capacity
     /\ UNCHANGED free_indices

Accepts(k, name) ==
  /\ name # NoName => names[k][name] = NoHandle
  /\ free_indices[k] = <<>> => size[k] < max_capacity[k]

Registers(k, r, name) ==
  /\ Cardinality(UNION {{<<j, h>> : h \in issued[j]} : j \in Kinds}) < MaxRegistrations
  /\ Accepts(k, name)
  /\ \E i \in Indices(k) :
       LET handle == [id |-> i, generation |-> slots[k][i].generation]
       IN /\ TakeIndex(k, i)
          /\ slots' = [slots EXCEPT ![k][i] = [@ EXCEPT !.resource = r, !.unique_name = name]]
          /\ MarkDirty(k, i)
          /\ names' = IF name = NoName THEN names
                      ELSE [names EXCEPT ![k][name] = handle]
          /\ issued' = [issued EXCEPT ![k] = @ \union {handle}]
          /\ open' = [open EXCEPT ![k] = @ \union {handle}]

Registered(k) == {slots[k][i].resource : i \in Indices(k)}

(* register_buffer, register_image, of a resource no slot has.               *)
Register(k, r, name) ==
  /\ r \in held[k] \ Registered(k)
  /\ Registers(k, r, name)
  /\ UNCHANGED <<storageVars, pending_destructions, global_frame_counter, frameVars,
                 sets, current_frame, phase>>

Create(k) ==
  /\ Cardinality(UNION {{<<j, r>> : r \in 1 .. created[j]} : j \in Kinds}) < MaxResources
  /\ created' = [created EXCEPT ![k] = @ + 1]
  /\ live' = [live EXCEPT ![k] = @ \union {created[k] + 1}]

(* add_bindless_buffer, add_bindless_image: what Storage created stays there *)
(* when registering it throws.                                               *)
AddBindless(k, name) ==
  /\ Create(k)
  /\ \/ Registers(k, created[k] + 1, name)
     \/ ~Accepts(k, name) /\ UNCHANGED <<slotVars, pending_writes>>
  /\ UNCHANGED <<held, pending_destructions, global_frame_counter, frameVars, sets,
                 current_frame, phase>>

(* Storage::add_buffer, add_image by the application                         *)
AddResource(k) ==
  /\ Create(k)
  /\ held' = [held EXCEPT ![k] = @ \union {created[k] + 1}]
  /\ UNCHANGED <<slotVars, pending_destructions, global_frame_counter, pending_writes,
                 frameVars, sets, current_frame, phase>>

Defer(k, r, i, s) ==
  [kind |-> k, resource |-> r, index |-> i, set |-> s,
   requested_at_frame |-> global_frame_counter]

ForgetName(k, i) ==
  IF slots[k][i].unique_name = NoName THEN names
  ELSE [names EXCEPT ![k][slots[k][i].unique_name] = NoHandle]
Vacated(slot) == [slot EXCEPT !.resource = None, !.unique_name = NoName]

(* What destroy and unregister of a bindless handle share: r is what is      *)
(* destroyed with the handle.                                                *)
Release(k, h, r) ==
  /\ Resolves(k, h)
  /\ pending_destructions' = Append(pending_destructions, Defer(k, r, h.id, NoSet))
  /\ names' = ForgetName(k, h.id)
  /\ slots' = [slots EXCEPT ![k][h.id] = Vacated(@)]
  /\ MarkDirty(k, h.id)
  /\ open' = [open EXCEPT ![k] = @ \ {h}]
  /\ UNCHANGED <<live, created, size, free_indices, capacity, issued,
                 global_frame_counter, frameVars, sets, current_frame, phase>>

(* destroy(BufferHandle), destroy(ImageHandle)                               *)
Destroy(k, h) ==
  /\ Release(k, h, slots[k][h.id].resource)
  /\ held' = [held EXCEPT ![k] = @ \ {slots[k][h.id].resource}]

(* unregister_buffer, unregister_image                                       *)
Unregister(k, h) ==
  /\ Release(k, h, None)
  /\ UNCHANGED held

(* destroy(ResourceHandle), of a resource no slot has                        *)
DestroyResource(k, r) ==
  /\ r \in held[k] \ Registered(k)
  /\ held' = [held EXCEPT ![k] = @ \ {r}]
  /\ pending_destructions' = Append(pending_destructions, Defer(k, r, invalid_id, NoSet))
  /\ UNCHANGED <<live, created, slotVars, global_frame_counter, pending_writes,
                 frameVars, sets, current_frame, phase>>

-----------------------------------------------------------------------------
(* Deferred destructions.                                                   *)

(* Mutant: a frame too early.                                                *)
DueEarly(pd, counter) == counter - pd.requested_at_frame >= frames_in_flight - 1

Due(pd, counter) == counter - pd.requested_at_frame >= frames_in_flight

(* flush_pending_destructions: how many are taken from the front.            *)
DueCount(counter, force) ==
  IF force THEN Len(pending_destructions)
  ELSE CHOOSE n \in 0 .. Len(pending_destructions) :
         /\ \A i \in 1 .. n : Due(pending_destructions[i], counter)
         /\ n < Len(pending_destructions) => ~Due(pending_destructions[n + 1], counter)

Freeing(due, k) == {n \in DOMAIN due : due[n].kind = k /\ due[n].index # invalid_id}
Nth(positions, i) == CHOOSE n \in positions : Cardinality({m \in positions : m <= n}) = i
FreedIndices(due, k) ==
  [i \in 1 .. Cardinality(Freeing(due, k)) |-> due[Nth(Freeing(due, k), i)].index]
Occurrences(seq, x) == Cardinality({i \in DOMAIN seq : seq[i] = x})

(* Mutant: the indices are lost.                                             *)
SameIndices(due) == free_indices

(* Every slot that a destruction frees gets a new generation and is reusable.*)
Retired(due) ==
  [k \in Kinds |-> [i \in Indices(k) |->
     [slots[k][i] EXCEPT !.generation = @ + Occurrences(FreedIndices(due, k), i)]]]
Reusable(due) == [k \in Kinds |-> free_indices[k] \o FreedIndices(due, k)]

(* The first n are taken, and the parts of sets besides.                     *)
Destroys(n, parts) ==
  LET due == SubSeq(pending_destructions, 1, n)
  IN /\ slots' = Retired(due)
     /\ free_indices' = Reusable(due)
     /\ live' = [k \in Kinds |->
          live[k] \ {due[i].resource : i \in {j \in DOMAIN due : due[j].kind = k}}]
     /\ sets' = sets \ (parts \union UNION {PartsOf(due[i].set) : i \in DOMAIN due})

(* Storage::destroy refuses a table that is gone when its turn comes, and    *)
(* flush throws.  (What comes of destroying a pool that is gone, Vulkan does *)
(* not say: nothing, or the end of the program, where a behaviour may stop.) *)
Refused(n, p) ==
  LET part == pending_destructions[n].set[p]
  IN /\ p # Pool /\ part # None
     /\ part \notin sets \/ \E m \in 1 .. n - 1 : part \in PartsOf(pending_destructions[m].set)

Flush(counter, force, parts) ==
  LET n == DueCount(counter, force)
  IN /\ \A m \in 1 .. n : \A p \in Parts : ~Refused(m, p)
     /\ pending_destructions' =
          SubSeq(pending_destructions, n + 1, Len(pending_destructions))
     /\ Destroys(n, parts)

(* begin_frame.  From here on the slot's previous use is over.               *)
BeginFrame ==
  /\ phase = "outside"
  /\ global_frame_counter < MaxFrames
  /\ global_frame_counter' = global_frame_counter + 1
  /\ Flush(global_frame_counter', FALSE, {})
  /\ phase' = "begun"
  /\ UNCHANGED <<created, held, size, names, capacity, issued, open, pending_writes,
                 frameVars, current_frame>>

(* A refused table stops the flush: what came before it is destroyed, what   *)
(* comes after it waits for the next begin_frame.                            *)
FlushThrows ==
  /\ phase = "outside"
  /\ global_frame_counter < MaxFrames
  /\ global_frame_counter' = global_frame_counter + 1
  /\ \E n \in 1 .. DueCount(global_frame_counter', FALSE) : \E p \in Parts :
       /\ Refused(n, p) /\ \A q \in 1 .. p - 1 : ~Refused(n, q)
       /\ \A m \in 1 .. n - 1 : \A q \in Parts : ~Refused(m, q)
       /\ pending_destructions' =
            [SubSeq(pending_destructions, n, Len(pending_destructions)) EXCEPT ![1].set =
               [q \in Parts |-> IF q <= p THEN None ELSE @[q]]]
       /\ Destroys(n - 1, {pending_destructions[n].set[q] : q \in 1 .. p - 1})
  /\ UNCHANGED <<created, held, size, names, capacity, issued, open, pending_writes,
                 frameVars, current_frame, phase>>

-----------------------------------------------------------------------------
(* Tables.                                                                  *)

(* What the tables say of a slot.  An image's descriptor stays as it is when *)
(* the slot has no image anymore.                                            *)
EntryOf(k, i, old) ==
  IF Valid(k, i) THEN [generation |-> slots[k][i].generation, resource |-> slots[k][i].resource]
  ELSE [generation |-> invalid_id,
        resource |-> IF k = "image" THEN old.resource ELSE None]

(* create_frame_set: tables of the new capacity, the buffers' with all       *)
(* entries, the images' empty with every image to be written.                *)
NewTables ==
  [k \in Kinds |-> [i \in Indices(k) |->
     IF k = "buffer" /\ i < size[k] THEN EntryOf(k, i, EmptyEntry) ELSE EmptyEntry]]
NewWrites == [k \in Kinds |-> IF k = "image" THEN 0 .. size[k] - 1 ELSE {}]

Written(old, writes) ==
  [k \in Kinds |-> [i \in Indices(k) |->
     IF i \in writes[k] THEN EntryOf(k, i, old[k][i]) ELSE old[k][i]]]

NeedsNewSet(f) == frame_capacities[f] # capacity

(* The old set and its tables are destroyed like any resource.               *)
CreateFrameSet(f) ==
  /\ sets_created' = sets_created + 4
  /\ frame_sets' = [frame_sets EXCEPT ![f] = NewSet(sets_created)]
  /\ sets' = sets \union PartsOf(NewSet(sets_created))
  /\ frame_capacities' = [frame_capacities EXCEPT ![f] = capacity]
  /\ pending_destructions' =
       Append(pending_destructions, Defer("set", None, invalid_id, frame_sets[f]))
  /\ UNCHANGED set_failures
  /\ tables' = [tables EXCEPT ![f] = Written(NewTables, NewWrites)]

KeepFrameSet(f) ==
  /\ tables' = [tables EXCEPT ![f] = Written(@, pending_writes[f])]
  /\ UNCHANGED <<sets_created, set_failures, frame_sets, sets, frame_capacities,
                 pending_destructions>>

WriteDescriptors ==
  /\ phase = "begun"
  /\ IF NeedsNewSet(current_frame) THEN CreateFrameSet(current_frame)
                                   ELSE KeepFrameSet(current_frame)
  /\ pending_writes' = [pending_writes EXCEPT ![current_frame] = [k \in Kinds |-> {}]]
  /\ phase' = "frame"
  /\ UNCHANGED <<storageVars, slotVars, global_frame_counter, current_frame>>

(* create_frame_set throws after it has replaced the first n parts.  All the *)
(* old parts are to be destroyed, and those not replaced yet are the slot's  *)
(* still: begin_frame, called again, creates a set once more.  (A table that *)
(* was created and could not be filled stays in Storage; nothing refers to   *)
(* it.)                                                                      *)
CreateFrameSetThrows ==
  /\ phase = "begun"
  /\ NeedsNewSet(current_frame)
  /\ set_failures < MaxSetFailures
  /\ set_failures' = set_failures + 1
  /\ \E n \in 0 .. 3 :
       /\ frame_sets' = [frame_sets EXCEPT ![current_frame] =
            [p \in Parts |-> IF p <= n THEN NewSet(sets_created)[p] ELSE @[p]]]
       /\ sets' = sets \union {NewSet(sets_created)[p] : p \in 1 .. n}
  /\ sets_created' = sets_created + 4
  /\ pending_destructions' =
       Append(pending_destructions, Defer("set", None, invalid_id, frame_sets[current_frame]))
  /\ phase' = "outside"
  /\ UNCHANGED <<storageVars, slotVars, global_frame_counter, pending_writes,
                 frame_capacities, tables, current_frame>>

NextSlot(f) == (f + 1) % frames_in_flight

(* Engine::end_frame                                                         *)
EndFrame ==
  /\ phase = "frame"
  /\ current_frame' = NextSlot(current_frame)
  /\ phase' = "outside"
  /\ UNCHANGED <<storageVars, slotVars, pending_destructions, global_frame_counter,
                 pending_writes, frameVars, sets>>

FrameSetParts == UNION {PartsOf(frame_sets[f]) : f \in FrameSlots}
FrameTables == UNION {PartsOf([frame_sets[f] EXCEPT ![Pool] = None]) : f \in FrameSlots}
PendingParts == UNION {PartsOf(pending_destructions[i].set) : i \in DOMAIN pending_destructions}

(* destruct: the device is idle, everything put off is destroyed and so are  *)
(* the frame slots' sets.                                                    *)
Destruct ==
  /\ phase = "outside"
  /\ FrameTables \subseteq sets \ PendingParts
  /\ Flush(global_frame_counter, TRUE, FrameSetParts)
  /\ phase' = "destroyed"
  /\ UNCHANGED <<created, held, size, names, capacity, issued, open,
                 global_frame_counter, pending_writes, frameVars, current_frame>>

(* Where a table is refused, an exception leaves a destructor, and the       *)
(* program ends.                                                             *)
DestructThrows ==
  /\ phase = "outside"
  /\ \/ ~(FrameTables \subseteq sets \ PendingParts)
     \/ \E n \in DOMAIN pending_destructions : \E p \in Parts : Refused(n, p)
  /\ phase' = "destroyed"
  /\ UNCHANGED <<storageVars, slotVars, pending_destructions, global_frame_counter,
                 pending_writes, frameVars, sets, current_frame>>

Destroyed ==
  /\ phase = "destroyed"
  /\ UNCHANGED vars

-----------------------------------------------------------------------------
(* The application and the builders that Engine::begin_frame runs call the   *)
(* manager at any time.                                                      *)
Call ==
  /\ phase # "destroyed"
  /\ \E k \in Kinds :
       \/ \E name \in Names \union {NoName} :
            AddBindless(k, name) \/ \E r \in held[k] : Register(k, r, name)
       \/ AddResource(k)
       \/ \E h \in issued[k] : Destroy(k, h) \/ Unregister(k, h)
       \/ \E r \in held[k] : DestroyResource(k, r)

Next ==
  \/ Call \/ BeginFrame \/ FlushThrows \/ WriteDescriptors \/ CreateFrameSetThrows
  \/ EndFrame \/ Destruct \/ DestructThrows \/ Destroyed

Spec == Init /\ [][Next]_vars

-----------------------------------------------------------------------------
(* Types.                                                                   *)

(* Every variable has its type.                                             *)
TypeOK ==
  /\ live \in [Kinds -> SUBSET Resources]
  /\ created \in [Kinds -> 0 .. MaxResources]
  /\ held \in [Kinds -> SUBSET Resources]
  /\ \A k \in Kinds : size[k] \in 0 .. max_capacity[k]
  /\ \A k \in Kinds : slots[k] \in [Indices(k) -> Slot]
  /\ \A k \in Kinds : free_indices[k] \in Seq(Indices(k))
  /\ names \in [Kinds -> [Names -> Handle \union {NoHandle}]]
  /\ pending_destructions \in Seq(PendingDestruction)
  /\ global_frame_counter \in Nat
  /\ \A k \in Kinds : capacity[k] \in 1 .. max_capacity[k]
  /\ \A f \in FrameSlots : \A k \in Kinds :
       /\ frame_capacities[f][k] \in 1 .. max_capacity[k]
       /\ pending_writes[f][k] \subseteq Indices(k)
       /\ tables[f][k] \in [Indices(k) -> Entry]
  /\ frame_sets \in [FrameSlots -> [Parts -> Nat]]
  /\ sets \subseteq Nat
  /\ sets_created \in Nat
  /\ set_failures \in 0 .. MaxSetFailures
  /\ current_frame \in FrameSlots
  /\ phase \in {"outside", "begun", "frame", "destroyed"}
  /\ issued \in [Kinds -> SUBSET Handle]
  /\ open \in [Kinds -> SUBSET Handle]

-----------------------------------------------------------------------------
(* Safety.                                                                  *)

(* A handle resolves exactly until it is destroyed or unregistered, however  *)
(* often its slot is used again, and names map to the handles of the slots   *)
(* that carry them: no call reaches another resource, and no name is left    *)
(* behind by a destroyed handle.                                             *)
Resolve ==
  \A k \in Kinds :
    /\ \A h \in issued[k] : Resolves(k, h) <=> h \in open[k]
    /\ \A n \in Names :
         /\ names[k][n] # NoHandle => /\ names[k][n] \in open[k]
                                      /\ slots[k][names[k][n].id].unique_name = n
         /\ \A i \in Indices(k) : slots[k][i].unique_name = n => names[k][n].id = i

(* After every step Resolve holds, and a registration has not returned a     *)
(* handle that was returned before: a handle and a name lead to what they    *)
(* were given for, or to nothing.                                            *)
HandlesSound ==
  [][/\ Resolve'
     /\ \A k \in Kinds : (open'[k] \ open[k]) \intersect issued[k] = {}]_vars

PendingIndices(k) == FreedIndices(pending_destructions, k)

(* No slot is lost and none is handed out twice: each is in use, reusable or *)
(* waiting for its destruction, and only one of these, once.                 *)
SlotAccounting ==
  \A k \in Kinds : \A i \in Indices(k) :
    (IF Valid(k, i) THEN 1 ELSE 0) + Occurrences(free_indices[k], i)
      + Occurrences(PendingIndices(k), i) = (IF i < size[k] THEN 1 ELSE 0)

(* What a slot holds and what is put off exists, and is put off once;        *)
(* nothing due is left waiting once a frame has begun, behind whatever entry *)
(* it was queued, but behind a set whose successor could not be created.     *)
Awaited ==
  /\ \A k \in Kinds : \A i \in Indices(k) : Valid(k, i) => slots[k][i].resource \in live[k]
  /\ \A i \in DOMAIN pending_destructions :
       LET pd == pending_destructions[i]
       IN /\ set_failures = 0 =>
               global_frame_counter - pd.requested_at_frame < frames_in_flight
          /\ pd.resource # None =>
               /\ pd.resource \in live[pd.kind] \ Registered(pd.kind)
               /\ \A j \in DOMAIN pending_destructions :
                    pending_destructions[j].kind = pd.kind
                      /\ pending_destructions[j].resource = pd.resource => i = j

(* After every step Awaited holds, and a resource is destroyed by the        *)
(* begin_frame that comes frames_in_flight frames after it was asked for, or *)
(* with the manager: never earlier, and later only if create_frame_set threw.*)
ReleasedOnTime ==
  [][/\ Awaited'
     /\ \A k \in Kinds : \A r \in live[k] \ live'[k] :
          \E i \in DOMAIN pending_destructions :
            LET pd == pending_destructions[i]
                late == global_frame_counter' - pd.requested_at_frame - frames_in_flight
            IN /\ pd.kind = k /\ pd.resource = r
               /\ \/ late >= 0 /\ (late > 0 => set_failures > 0)
                  \/ phase' = "destroyed"]_vars

(* Tables differ from the slots only where a write is still pending, and an  *)
(* index that write_descriptors will write fits the tables it writes to      *)
(* (Buffer::update_data_bytes would throw), unless it replaces them first.   *)
TablesTrackSlots ==
  \A f \in FrameSlots : \A k \in Kinds :
    /\ \A i \in Indices(k) \ pending_writes[f][k] :
         IF i < size[k] /\ Valid(k, i)
         THEN tables[f][k][i] = [generation |-> slots[k][i].generation,
                                 resource |-> slots[k][i].resource]
         ELSE tables[f][k][i].generation = invalid_id
    /\ ~NeedsNewSet(f) => \A i \in pending_writes[f][k] : i < frame_capacities[f][k]
=============================================================================
