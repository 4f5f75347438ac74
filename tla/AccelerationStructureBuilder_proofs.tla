------------------ MODULE AccelerationStructureBuilder_proofs ------------------
(***************************************************************************)
(* Proofs about AccelerationStructureBuilder, for any numbers of frame       *)
(* slots, frames, BLASes, instances, calls and failures.                     *)
(*                                                                           *)
(* A handle is one of an index and a generation that only grows, so Slots    *)
(* relates every handle ever given to the generation and the free list.      *)
(* Every object has one owner or one entry among those to be destroyed       *)
(* (ObjectsInv), but for what a failed begin_frame lost or kept, so what one *)
(* call lets go of is nobody else's.  What a frame uses is therefore         *)
(* destroyed no earlier than frames_in_flight frames after the frame began   *)
(* (UsesInv), when its slot has been waited for.                             *)
(***************************************************************************)
EXTENDS AccelerationStructureBuilder, FiniteSetTheorems, SequenceTheorems, TLAPS

-----------------------------------------------------------------------------
(* The inductive invariant.                                                 *)

Of(kind) == ({kind} \X Nat) \union {None}
BLASes == [handle : Of("blas"), scratch_buffer : Of("scratch"),
           scratch_address : Of("scratch"), dynamic : BOOLEAN]
Instances == [blas : Of("blas"), transform : Transforms \union {None}]
Deferred == [object : Objects, requested_at_frame : 0 .. MaxFrames, again : BOOLEAN]

BlasTyped ==
  /\ bottom_level_as \in Seq(BLASes)
  /\ blas_update_indices \subseteq DOMAIN bottom_level_as

InstanceTyped == instances \in Seq(Instances)

TlasTyped ==
  /\ instance_buffers \in [FrameSlots -> [buffer : Of("instances"), count : Nat]]
  /\ tlas \in [handle : Of("tlas"), primitive_count : Nat, ready : BOOLEAN]
  /\ tlas_outdated \in BOOLEAN

ObjectsTyped ==
  /\ created \in [Kinds -> Nat]
  /\ live \subseteq Objects
  /\ pending \subseteq Deferred
  /\ lost \subseteq Objects /\ kept \subseteq Objects

FrameTyped ==
  /\ global_frame_counter \in 0 .. MaxFrames
  /\ current_frame \in FrameSlots
  /\ phase \in {"outside", "begun", "frame", "destructed"}
  /\ failures \in 0 .. MaxFailures
  /\ calls \in 0 .. MaxCalls

DeviceTyped ==
  /\ tlas_contents \in [handle : Of("tlas"), instances : Seq(Instances)]
  /\ uses \in [FrameSlots -> SUBSET Objects]

GivenTyped == given \subseteq Handles /\ removed \subseteq given

Typed == /\ BlasTyped /\ InstanceTyped /\ TlasTyped /\ ObjectsTyped
         /\ FrameTyped /\ DeviceTyped /\ GivenTyped

(* The generations and the free indices of a vector with the indices dom.    *)
Reused(dom, generations, free) ==
  /\ generations \in Seq(Nat) /\ DOMAIN generations = dom
  /\ free \in Seq(dom)
  /\ \A i, j \in DOMAIN free : free[i] = free[j] => i = j

(* What the handles of a kind say about it: a handle resolves until it is    *)
(* given back, and to nothing while its index is free.                       *)
Slots(kind, handles, gone, dom, generations, free) ==
  /\ Reused(dom, generations, free)
  /\ \A h \in handles : h.kind = kind =>
       /\ h.id \in dom
       /\ h.generation \in 0 .. generations[h.id]
       /\ h \notin gone <=> h.generation = generations[h.id]
       /\ \A i \in DOMAIN free : free[i] = h.id => h.generation # generations[h.id]

Current == IF phase = "destructed" THEN {} ELSE given
BlasSlots ==
  Slots("blas", Current, removed, DOMAIN bottom_level_as, blas_generations, free_blas_indices)
InstanceSlots ==
  Slots("instance", Current, removed, DOMAIN instances, instance_generations,
        free_instance_indices)

Counted ==
  IsFiniteSet(given) /\ Cardinality(given) = created["scratch"] + created["instance"]

HandlesInv == BlasSlots /\ InstanceSlots /\ Counted

(* A free index has no BLAS.  One that add_blas returned a handle for has,   *)
(* and only those get a scratch buffer.                                      *)
Free(i) == \E j \in DOMAIN free_blas_indices : free_blas_indices[j] = i
InUse(i) == bottom_level_as[i].scratch_address # None
BlasesInv ==
  /\ \A i \in DOMAIN bottom_level_as :
       /\ Free(i) => bottom_level_as[i] = NoBLAS
       /\ InUse(i) => bottom_level_as[i].handle # None
       /\ i \in blas_update_indices => InUse(i)
       /\ bottom_level_as[i].scratch_buffer \in {None, bottom_level_as[i].scratch_address}
  /\ \A h \in Current :
       h.kind = "blas" /\ h.generation = blas_generations[h.id] => InUse(h.id)

(* No object has two owners.                                                 *)
OwnedOnce ==
  /\ \A i, j \in DOMAIN bottom_level_as : i # j =>
       /\ bottom_level_as[i].handle = None \/ bottom_level_as[i].handle # bottom_level_as[j].handle
       /\ \/ bottom_level_as[i].scratch_buffer = None
          \/ bottom_level_as[i].scratch_buffer # bottom_level_as[j].scratch_buffer
  /\ \A f, g \in FrameSlots : f # g =>
       \/ instance_buffers[f].buffer = None
       \/ instance_buffers[f].buffer # instance_buffers[g].buffer

Accounted ==
  /\ \A p, q \in pending : p.object = q.object => p = q \/ p.object \in kept
  /\ \A p \in pending : p.again => p.object \in kept
  /\ Owned \intersect PendingObjects \subseteq kept
  /\ live \ kept = ((Owned \union PendingObjects) \ kept) \union lost
  /\ lost \intersect (Owned \union PendingObjects) = {}

Numbered == \A o \in live \union kept : o[2] <= created[o[1]]

(* Only failures of begin_frame lose or keep something.                      *)
Unfailed == failures = 0 => kept = {} /\ lost = {}

ObjectsInv == OwnedOnce /\ Accounted /\ Numbered /\ Unfailed

(* The call of begin_frame that began the last frame of a slot, as long as   *)
(* none threw.                                                               *)
Distance(f) ==
  IF f < current_frame THEN current_frame - f ELSE current_frame + frames_in_flight - f
Begun(f) ==
  IF phase \in {"begun", "frame"}
  THEN IF f = current_frame THEN global_frame_counter ELSE global_frame_counter - Distance(f)
  ELSE global_frame_counter + 1 - Distance(f)

UsesInv ==
  failures = 0 => \A f \in FrameSlots : \A o \in uses[f] \ misused :
    /\ o \in live
    /\ \A p \in pending : p.object = o => p.requested_at_frame >= Begun(f)

(* The instance buffers a slot's frame uses are the slot's own.              *)
BuffersInv ==
  /\ \A f, g \in FrameSlots : f # g => instance_buffers[f].buffer \notin uses[g]
  /\ \A g \in FrameSlots : \A o \in uses[g] : o[1] = "instances" => o[2] <= created["instances"]

SceneInv ==
  failures = 0 /\ phase # "destructed" =>
    /\ tlas.handle # None => tlas.ready
    /\ ~tlas_outdated => tlas_contents = [handle |-> tlas.handle, instances |-> instances]
    /\ \A i \in DOMAIN bottom_level_as \ blas_update_indices :
         InUse(i) => bottom_level_as[i].handle \in built

IInv == Typed /\ HandlesInv /\ BlasesInv /\ ObjectsInv /\ UsesInv /\ BuffersInv /\ SceneInv

-----------------------------------------------------------------------------
(* Vectors whose indices are reused.                                        *)

LEMMA AppendSeq ==
  ASSUME NEW S, NEW s \in Seq(S), NEW e \in S
  PROVE  /\ Append(s, e) \in Seq(S)
         /\ Len(Append(s, e)) = Len(s) + 1
         /\ DOMAIN Append(s, e) = DOMAIN s \union {Len(s) + 1}
         /\ \A i \in DOMAIN s : Append(s, e)[i] = s[i]
         /\ Append(s, e)[Len(s) + 1] = e
<1>1. Len(s) \in Nat /\ DOMAIN s = 1 .. Len(s)
  OBVIOUS
<1>2. /\ Append(s, e) \in Seq(S)
      /\ Len(Append(s, e)) = Len(s) + 1
      /\ \A i \in 1 .. Len(s) : Append(s, e)[i] = s[i]
      /\ Append(s, e)[Len(s) + 1] = e
  BY AppendProperties
<1>3. DOMAIN Append(s, e) = 1 .. Len(s) + 1
  BY <1>2
<1> QED
  BY <1>1, <1>2, <1>3

LEMMA WriteSeq ==
  ASSUME NEW S, NEW s \in Seq(S), NEW n \in DOMAIN s, NEW e \in S
  PROVE  /\ [s EXCEPT ![n] = e] \in Seq(S)
         /\ Len([s EXCEPT ![n] = e]) = Len(s)
         /\ DOMAIN [s EXCEPT ![n] = e] = DOMAIN s
         /\ \A i \in DOMAIN s : [s EXCEPT ![n] = e][i] = IF i = n THEN e ELSE s[i]
OBVIOUS

LEMMA ButLast ==
  ASSUME NEW S, NEW s \in Seq(S), s # <<>>
  PROVE  /\ Len(s) \in DOMAIN s
         /\ SubSeq(s, 1, Len(s) - 1) \in Seq(S)
         /\ \A i \in DOMAIN SubSeq(s, 1, Len(s) - 1) :
              i \in DOMAIN s /\ SubSeq(s, 1, Len(s) - 1)[i] = s[i] /\ i # Len(s)
         /\ \A i \in DOMAIN s \ {Len(s)} : i \in DOMAIN SubSeq(s, 1, Len(s) - 1)
<1>1. Len(s) \in Nat \ {0}
  OBVIOUS
<1> DEFINE n == Len(s) - 1
<1>2. n \in Nat /\ \A i \in 1 .. n : s[i] \in S
  BY <1>1
<1>3. /\ SubSeq(s, 1, n) \in Seq(S)
      /\ Len(SubSeq(s, 1, n)) = IF 1 <= n THEN n - 1 + 1 ELSE 0
      /\ \A i \in 1 .. n - 1 + 1 : SubSeq(s, 1, n)[i] = s[1 + i - 1]
  <2> HIDE DEF n
  <2> QED
    BY <1>2, SubSeqProperties
<1> HIDE DEF n
<1>4. /\ Len(SubSeq(s, 1, n)) = n
      /\ \A i \in 1 .. n : SubSeq(s, 1, n)[i] = s[i]
  BY <1>2, <1>3
<1> QED
  BY <1>1, <1>3, <1>4 DEF n

(* An element stored at an index taken from the free list, or at the end.    *)
Taken(V, vector, e, generations, free, index) ==
  /\ index \in Nat \ {0}
  /\ Stored(vector, index, e) \in Seq(V)
  /\ DOMAIN Stored(vector, index, e) = DOMAIN vector \union {index}
  /\ \A i \in DOMAIN Stored(vector, index, e) :
       Stored(vector, index, e)[i] = IF i = index THEN e ELSE vector[i]
  /\ Generations(generations, index) \in Seq(Nat)
  /\ DOMAIN Generations(generations, index) = DOMAIN vector \union {index}
  /\ \A i \in DOMAIN vector : Generations(generations, index)[i] = generations[i]
  /\ Remaining(free) \in Seq(DOMAIN vector \union {index})
  /\ \A i \in DOMAIN Remaining(free) :
       i \in DOMAIN free /\ Remaining(free)[i] = free[i] /\ free[i] # index
  /\ index \in DOMAIN vector => \E i \in DOMAIN free : free[i] = index
  /\ \A i \in DOMAIN free : free[i] # index =>
       \E j \in DOMAIN Remaining(free) : Remaining(free)[j] = free[i]

LEMMA TakenIndex ==
  ASSUME NEW V, NEW vector \in Seq(V), NEW e \in V, NEW generations, NEW free,
         Reused(DOMAIN vector, generations, free),
         NEW index, index = Index(free, vector)
  PROVE  Taken(V, vector, e, generations, free, index)
<1> USE DEF Reused
<1>1. /\ Len(vector) \in Nat /\ DOMAIN vector = 1 .. Len(vector)
      /\ Len(generations) = Len(vector)
  <2>1. DOMAIN generations = 1 .. Len(generations) /\ Len(generations) \in Nat
    OBVIOUS
  <2>2. DOMAIN vector = 1 .. Len(vector) /\ Len(vector) \in Nat
    OBVIOUS
  <2>3. \A m, n \in Nat : 1 .. m = 1 .. n => m = n
    OBVIOUS
  <2> QED
    BY <2>1, <2>2, <2>3
<1>2. CASE free = <<>>
  <2>1. index = Len(vector) + 1 /\ Remaining(free) = <<>> /\ index > Len(vector)
    BY <1>1, <1>2 DEF Index, Remaining
  <2>2. /\ Stored(vector, index, e) = Append(vector, e)
        /\ Generations(generations, index) = Append(generations, 0)
    BY <1>1, <2>1 DEF Stored, Generations
  <2>3. /\ DOMAIN free = {} /\ DOMAIN Remaining(free) = {}
        /\ Remaining(free) \in Seq(DOMAIN vector \union {index})
    <3>1. \A S : <<>> \in Seq(S)
      OBVIOUS
    <3>2. DOMAIN <<>> = {}
      OBVIOUS
    <3> QED
      BY <1>2, <2>1, <3>1, <3>2
  <2>4. index \notin DOMAIN vector
    BY <1>1, <2>1
  <2>5. /\ Append(vector, e) \in Seq(V)
        /\ DOMAIN Append(vector, e) = DOMAIN vector \union {index}
        /\ \A i \in DOMAIN vector : Append(vector, e)[i] = vector[i]
        /\ Append(vector, e)[index] = e
    BY <2>1, AppendSeq
  <2>6. /\ Append(generations, 0) \in Seq(Nat)
        /\ DOMAIN Append(generations, 0) = DOMAIN generations \union {index}
        /\ \A i \in DOMAIN generations : Append(generations, 0)[i] = generations[i]
    <3>1. 0 \in Nat
      OBVIOUS
    <3> QED
      BY <1>1, <2>1, <3>1, AppendSeq
  <2>7. index \in Nat \ {0}
    BY <1>1, <2>1
  <2> QED
    BY <2>2, <2>3, <2>4, <2>5, <2>6, <2>7 DEF Taken
<1>3. CASE free # <<>>
  <2>1. /\ index = free[Len(free)] /\ Len(free) \in DOMAIN free
        /\ Remaining(free) = SubSeq(free, 1, Len(free) - 1)
    BY <1>3, ButLast DEF Index, Remaining
  <2>2. index \in DOMAIN vector
    BY <2>1
  <2>3. index \in Nat \ {0} /\ ~(index > Len(vector)) /\ ~(index > Len(generations))
    BY <1>1, <2>2
  <2>4. Stored(vector, index, e) = [vector EXCEPT ![index] = e] /\ Generations(generations, index) = generations
    BY <2>3 DEF Stored, Generations
  <2>5. /\ Stored(vector, index, e) \in Seq(V)
        /\ DOMAIN Stored(vector, index, e) = DOMAIN vector
        /\ \A i \in DOMAIN vector : Stored(vector, index, e)[i] = IF i = index THEN e ELSE vector[i]
    BY <2>2, <2>4, WriteSeq
  <2>6. DOMAIN vector \union {index} = DOMAIN vector
    BY <2>2
  <2>7. /\ Remaining(free) \in Seq(DOMAIN vector)
        /\ \A i \in DOMAIN Remaining(free) :
             i \in DOMAIN free /\ Remaining(free)[i] = free[i] /\ i # Len(free)
    BY <1>3, <2>1, ButLast
  <2>8. \A i \in DOMAIN free \ {Len(free)} : i \in DOMAIN Remaining(free)
    BY <1>3, <2>1, ButLast
  <2>9. \A i \in DOMAIN free : free[i] # index => i \in DOMAIN Remaining(free) /\ Remaining(free)[i] = free[i]
    BY <2>1, <2>7, <2>8
  <2>10. \A i \in DOMAIN Remaining(free) : free[i] # index
    BY <2>1, <2>7
  <2> QED
    BY <2>1, <2>2, <2>3, <2>4, <2>5, <2>6, <2>7, <2>9, <2>10 DEF Taken
<1> QED
  BY <1>2, <1>3

(* A handle for it is a new one.                                             *)
Gives(kind, handles, gone, vector, e, generations, free, index, h) ==
  /\ h \notin handles
  /\ h.id \in Nat /\ h.generation \in Nat
  /\ Slots(kind, handles \union {h}, gone, DOMAIN Stored(vector, index, e),
           Generations(generations, index), Remaining(free))

LEMMA SlotsTake ==
  ASSUME NEW kind, NEW handles, NEW gone, NEW V, NEW vector \in Seq(V), NEW e \in V,
         NEW generations, NEW free, NEW index, index = Index(free, vector),
         Slots(kind, handles, gone, DOMAIN vector, generations, free), gone \subseteq handles,
         NEW h, h = [kind |-> kind, id |-> index, generation |-> Generations(generations, index)[index]]
  PROVE  Gives(kind, handles, gone, vector, e, generations, free, index, h)
<1> DEFINE dom2 == DOMAIN vector \union {index}
           gen2 == Generations(generations, index)
           free2 == Remaining(free)
<1>1. Reused(DOMAIN vector, generations, free)
  BY DEF Slots
<1>2. /\ index \in Nat \ {0}
      /\ DOMAIN Stored(vector, index, e) = dom2
      /\ gen2 \in Seq(Nat)
      /\ DOMAIN gen2 = dom2
      /\ \A i \in DOMAIN vector : gen2[i] = generations[i]
      /\ free2 \in Seq(dom2)
      /\ \A i \in DOMAIN free2 : i \in DOMAIN free /\ free2[i] = free[i] /\ free[i] # index
      /\ index \in DOMAIN vector => \E i \in DOMAIN free : free[i] = index
  <2>1. Taken(V, vector, e, generations, free, index)
    BY <1>1, TakenIndex
  <2> QED
    BY <2>1 DEF Taken
<1> HIDE DEF gen2, free2
<1>3. h.kind = kind /\ h.id = index /\ h.generation = gen2[index]
  BY DEF gen2
<1>4. \A g \in handles : g.kind = kind =>
        /\ g.id \in DOMAIN vector
        /\ g.generation \in 0 .. generations[g.id]
        /\ g \notin gone <=> g.generation = generations[g.id]
        /\ \A i \in DOMAIN free : free[i] = g.id => g.generation # generations[g.id]
  BY DEF Slots
<1>5. h \notin handles
  <2> SUFFICES ASSUME h \in handles
               PROVE  FALSE
    OBVIOUS
  <2>1. index \in DOMAIN vector
    BY <1>3, <1>4
  <2>2. h.generation = generations[index]
    BY <1>2, <1>3, <2>1
  <2> QED
    BY <1>2, <1>3, <1>4, <2>1, <2>2
<1>6. \A i \in dom2 : gen2[i] \in Nat
  <2>1. \A i \in DOMAIN gen2 : gen2[i] \in Nat
    <3>1. gen2 \in Seq(Nat)
      BY <1>2, Zenon
    <3> HIDE DEF gen2
    <3> QED
      BY <3>1
  <2> QED
    BY <1>2, <2>1, Zenon
<1>7. \A g \in handles \union {h} : g.kind = kind =>
        /\ g.id \in dom2
        /\ g.generation \in 0 .. gen2[g.id]
        /\ g \notin gone <=> g.generation = gen2[g.id]
        /\ \A i \in DOMAIN free2 : free2[i] = g.id => g.generation # gen2[g.id]
  <2> TAKE g \in handles \union {h}
  <2>1. CASE g = h
    <3>1. index \in dom2 /\ g \notin gone
      BY <1>5, <2>1
    <3>2. gen2[index] \in Nat
      BY <1>6, <3>1
    <3>3. \A i \in DOMAIN free2 : free2[i] # index
      BY <1>2
    <3> QED
      BY <1>3, <2>1, <3>1, <3>2, <3>3
  <2>2. CASE g \in handles
    <3> SUFFICES ASSUME g.kind = kind
                 PROVE  /\ g.id \in dom2
                        /\ g.generation \in 0 .. gen2[g.id]
                        /\ g \notin gone <=> g.generation = gen2[g.id]
                        /\ \A i \in DOMAIN free2 : free2[i] = g.id => g.generation # gen2[g.id]
      OBVIOUS
    <3>1. /\ g.id \in DOMAIN vector
          /\ g.generation \in 0 .. generations[g.id]
          /\ g \notin gone <=> g.generation = generations[g.id]
          /\ \A i \in DOMAIN free : free[i] = g.id => g.generation # generations[g.id]
      BY <1>4, <2>2
    <3>2. gen2[g.id] = generations[g.id]
      BY <1>2, <3>1
    <3>3. \A i \in DOMAIN free2 : i \in DOMAIN free /\ free2[i] = free[i]
      BY <1>2
    <3> QED
      BY <3>1, <3>2, <3>3, Zenon
  <2> QED
    BY <2>1, <2>2
<1>8. Reused(dom2, gen2, free2)
  BY <1>1, <1>2 DEF Reused
<1>9. Slots(kind, handles \union {h}, gone, dom2, gen2, free2)
  BY <1>7, <1>8 DEF Slots
<1> QED
  BY <1>2, <1>3, <1>5, <1>6, <1>9 DEF Gives, gen2, free2

(* Handles of other kinds do not matter.                                     *)
LEMMA SlotsOther ==
  ASSUME NEW kind, NEW handles, NEW gone, NEW dom, NEW generations, NEW free,
         Slots(kind, handles, gone, dom, generations, free),
         NEW h, h.kind # kind
  PROVE  /\ Slots(kind, handles \union {h}, gone, dom, generations, free)
         /\ Slots(kind, handles, gone \union {h}, dom, generations, free)
BY DEF Slots

LEMMA SlotsGiveBack ==
  ASSUME NEW kind, NEW handles, NEW gone, NEW dom, NEW generations, NEW free,
         Slots(kind, handles, gone, dom, generations, free),
         NEW h \in handles, h.kind = kind, h.generation = generations[h.id],
         \A g \in handles : g = [kind |-> g.kind, id |-> g.id, generation |-> g.generation]
  PROVE  /\ h.id \in dom /\ h \notin gone
         /\ \A i \in DOMAIN free : free[i] # h.id
         /\ Slots(kind, handles, gone \union {h}, dom,
                  [generations EXCEPT ![h.id] = @ + 1], Append(free, h.id))
<1> DEFINE gen2 == [generations EXCEPT ![h.id] = @ + 1]
           free2 == Append(free, h.id)
<1>1. /\ generations \in Seq(Nat) /\ DOMAIN generations = dom /\ free \in Seq(dom)
      /\ \A i, j \in DOMAIN free : free[i] = free[j] => i = j
      /\ \A g \in handles : g.kind = kind =>
           /\ g.id \in dom
           /\ g.generation \in 0 .. generations[g.id]
           /\ g \notin gone <=> g.generation = generations[g.id]
           /\ \A i \in DOMAIN free : free[i] = g.id => g.generation # generations[g.id]
  BY DEF Slots, Reused
<1>2. h.id \in dom /\ h \notin gone /\ \A i \in DOMAIN free : free[i] # h.id
  BY <1>1
<1>3. /\ \A i \in dom : generations[i] \in Nat
      /\ gen2 \in Seq(Nat) /\ DOMAIN gen2 = dom
      /\ gen2[h.id] = generations[h.id] + 1
      /\ \A i \in dom : i # h.id => gen2[i] = generations[i]
  <2>1. \A i \in dom : generations[i] \in Nat
    BY <1>1
  <2>2. generations[h.id] + 1 \in Nat
    BY <1>2, <2>1
  <2> QED
    BY <1>1, <1>2, <2>1, <2>2, WriteSeq
<1>4. /\ free2 \in Seq(dom)
      /\ DOMAIN free2 = DOMAIN free \union {Len(free) + 1}
      /\ \A i \in DOMAIN free : free2[i] = free[i]
      /\ free2[Len(free) + 1] = h.id
  BY <1>1, <1>2, AppendSeq
<1> HIDE DEF gen2, free2
<1>5. \A i, j \in DOMAIN free2 : free2[i] = free2[j] => i = j
  BY <1>1, <1>2, <1>4
<1>6. \A g \in handles : g.kind = kind =>
        /\ g.id \in dom
        /\ g.generation \in 0 .. gen2[g.id]
        /\ g \notin gone \union {h} <=> g.generation = gen2[g.id]
        /\ \A i \in DOMAIN free2 : free2[i] = g.id => g.generation # gen2[g.id]
  <2> SUFFICES ASSUME NEW g \in handles, g.kind = kind
               PROVE  /\ g.id \in dom
                      /\ g.generation \in 0 .. gen2[g.id]
                      /\ g \notin gone \union {h} <=> g.generation = gen2[g.id]
                      /\ \A i \in DOMAIN free2 : free2[i] = g.id => g.generation # gen2[g.id]
    OBVIOUS
  <2>1. /\ g.id \in dom
        /\ g.generation \in 0 .. generations[g.id]
        /\ g \notin gone <=> g.generation = generations[g.id]
        /\ \A i \in DOMAIN free : free[i] = g.id => g.generation # generations[g.id]
    BY <1>1
  <2>2. CASE g.id = h.id
    <3>1. generations[h.id] \in Nat /\ g.generation <= generations[h.id] /\ gen2[g.id] = generations[h.id] + 1
      BY <1>2, <1>3, <2>1, <2>2
    <3>2. g.generation \in Int \/ g.generation = generations[h.id] \/ g \in gone
      BY <2>1, <2>2
    <3>3. g.generation # gen2[g.id]
      BY <3>1
    <3>4. g \in gone \union {h}
      <4>1. CASE g.generation = generations[g.id]
        BY <2>2, <4>1
      <4>2. CASE g.generation # generations[g.id]
        BY <2>1, <4>2
      <4> QED
        BY <4>1, <4>2
    <3> QED
      BY <2>1, <3>1, <3>3, <3>4
  <2>3. CASE g.id # h.id
    <3>1. gen2[g.id] = generations[g.id] /\ g # h
      BY <1>3, <2>1, <2>3
    <3> QED
      BY <1>4, <2>1, <2>3, <3>1
  <2> QED
    BY <2>2, <2>3
<1>7. Slots(kind, handles, gone \union {h}, dom, gen2, free2)
  BY <1>3, <1>4, <1>5, <1>6 DEF Slots, Reused
<1> QED
  BY <1>2, <1>7 DEF gen2, free2

-----------------------------------------------------------------------------
(* Objects, their owners and those that are to be destroyed.                *)

ScratchesOwned == {bottom_level_as[i].scratch_buffer : i \in DOMAIN bottom_level_as}
BuffersOwned == {instance_buffers[f].buffer : f \in FrameSlots}

LEMMA OwnedParts ==
  /\ Owned = (BlasesOwned \union ScratchesOwned \union BuffersOwned \union {tlas.handle}) \ {None}
  /\ Owned' = (BlasesOwned' \union ScratchesOwned' \union BuffersOwned' \union {tlas'.handle})
                 \ {None}
BY DEF Owned, BlasesOwned, ScratchesOwned, BuffersOwned

LEMMA OwnedSame ==
  ASSUME UNCHANGED <<bottom_level_as, instance_buffers, tlas>>
  PROVE  Owned' = Owned
BY DEF Owned

LEMMA DeferMeans ==
  ASSUME NEW D
  PROVE  /\ \A p \in Defer(D) :
              /\ p.object \in D \ {None} /\ p.requested_at_frame = global_frame_counter
              /\ p.again \in BOOLEAN
              /\ p.again => p.object \notin live \/ p.object \in PendingObjects
              /\ p = [object |-> p.object, requested_at_frame |-> global_frame_counter,
                      again |-> p.object \notin live \/ p.object \in PendingObjects]
         /\ \A o \in D \ {None} : \E p \in Defer(D) : p.object = o
         /\ \A p, q \in Defer(D) : p.object = q.object => p = q
         /\ {p.object : p \in pending \union Defer(D)} = PendingObjects \union (D \ {None})
<1> DEFINE r(o) == [object |-> o, requested_at_frame |-> global_frame_counter,
                    again |-> o \notin live \/ o \in PendingObjects]
<1>1. ASSUME NEW p \in Defer(D)
      PROVE  /\ p.object \in D \ {None} /\ p = r(p.object)
             /\ p.requested_at_frame = global_frame_counter /\ p.again \in BOOLEAN
             /\ p.again => p.object \notin live \/ p.object \in PendingObjects
  <2>1. PICK o \in D \ {None} : p = r(o)
    BY DEF Defer
  <2>2. /\ r(o).object = o /\ r(o).requested_at_frame = global_frame_counter
        /\ r(o).again = (o \notin live \/ o \in PendingObjects)
    OBVIOUS
  <2>3. p.object = o
    BY <2>1, <2>2
  <2>4. p.again \in BOOLEAN /\ (p.again => o \notin live \/ o \in PendingObjects)
    BY <2>1, <2>2
  <2> HIDE DEF r
  <2> QED
    BY <2>1, <2>2, <2>3, <2>4
<1>2. ASSUME NEW o \in D \ {None}
      PROVE  \E p \in Defer(D) : p.object = o
  <2>1. r(o) \in Defer(D) /\ r(o).object = o
    BY DEF Defer
  <2> QED
    BY <2>1
<1>3. \A p, q \in Defer(D) : p.object = q.object => p = q
  BY <1>1
<1>4. {p.object : p \in pending \union Defer(D)} = PendingObjects \union (D \ {None})
  BY <1>1, <1>2 DEF PendingObjects
<1> QED
  BY <1>1, <1>2, <1>3, <1>4

LEMMA DeferTyped ==
  ASSUME FrameTyped, NEW D, D \ {None} \subseteq Objects
  PROVE  Defer(D) \subseteq Deferred
<1> DEFINE r(o) == [object |-> o, requested_at_frame |-> global_frame_counter,
                    again |-> o \notin live \/ o \in PendingObjects]
<1>1. \A o \in D \ {None} : r(o) \in Deferred
  <2>1. \A o : (o \notin live \/ o \in PendingObjects) \in BOOLEAN
    OBVIOUS
  <2>2. \A o \in Objects, a \in BOOLEAN :
          [object |-> o, requested_at_frame |-> global_frame_counter, again |-> a] \in Deferred
    BY DEF Deferred, FrameTyped
  <2> QED
    BY <2>1, <2>2
<1>2. \A p \in Defer(D) : \E o \in D \ {None} : p = r(o)
  BY DEF Defer
<1> HIDE DEF r
<1> QED
  BY <1>1, <1>2

(* What is owned or to be destroyed exists, but for what is kept.            *)
LEMMA LiveOrKept ==
  ASSUME Accounted
  PROVE  /\ Owned \subseteq live \union kept /\ PendingObjects \subseteq live \union kept
         /\ lost \subseteq live /\ lost \intersect kept = {}
         /\ Unfailed /\ failures = 0 =>
              Owned \subseteq live /\ Owned \intersect PendingObjects = {}
BY DEF Accounted, Unfailed

(* Owners let go of some objects, whose destruction is put off, and get new  *)
(* ones; others are lost.  What is let go of but stays owned is kept.        *)
LEMMA OwnersChange ==
  ASSUME Accounted, NEW D, D \ {None} \subseteq Owned,
         NEW K, K \subseteq D, NEW N, NEW L,
         (N \union L) \intersect (live \union kept) = {}, N \intersect L = {},
         Owned' = (Owned \ (D \ K)) \union N, live' = live \union N \union L,
         kept' = kept \union (K \ {None}), lost' = lost \union L,
         pending' = pending \union Defer(D)
  PROVE  Accounted'
<1>1. /\ \A p, q \in pending : p.object = q.object => p = q \/ p.object \in kept
      /\ \A p \in pending : p.again => p.object \in kept
      /\ Owned \intersect PendingObjects \subseteq kept
      /\ live \ kept = ((Owned \union PendingObjects) \ kept) \union lost
      /\ lost \intersect (Owned \union PendingObjects) = {}
  BY DEF Accounted
<1>2. /\ \A p \in Defer(D) :
           /\ p.object \in D \ {None}
           /\ p.again => p.object \notin live \/ p.object \in PendingObjects
      /\ \A p, q \in Defer(D) : p.object = q.object => p = q
  BY DeferMeans
<1>3. PendingObjects' = PendingObjects \union (D \ {None})
  BY DeferMeans DEF PendingObjects
<1>4. None \notin Owned
  BY OwnedParts
<1>5. Owned \subseteq live \union kept /\ PendingObjects \subseteq live \union kept /\ lost \subseteq live
  BY LiveOrKept
<1>6. \A p, q \in pending' : p.object = q.object => p = q \/ p.object \in kept'
  <2>1. \A p \in pending : p.object \in PendingObjects
    BY DEF PendingObjects
  <2>2. \A p \in pending, q \in Defer(D) : p.object = q.object => p.object \in kept
    BY <1>1, <1>2, <2>1
  <2> QED
    BY <1>1, <1>2, <2>2
<1>7. \A p \in pending' : p.again => p.object \in kept'
  <2>1. ASSUME NEW p \in Defer(D), p.again
        PROVE  p.object \in kept
    BY <1>1, <1>2, <1>5, <2>1
  <2> QED
    BY <1>1, <2>1
<1>8. Owned' \intersect PendingObjects' \subseteq kept'
  BY <1>1, <1>3, <1>4, <1>5
<1>9. live' \ kept' = ((Owned' \union PendingObjects') \ kept') \union lost'
  <2>1. kept' = kept \union (K \ {None}) /\ K \ {None} \subseteq Owned
    OBVIOUS
  <2>2. ASSUME NEW o
        PROVE  o \in live' \ kept' <=> o \in ((Owned' \union PendingObjects') \ kept') \union lost'
    <3>1. CASE o \in N \union L
      BY <1>4, <1>5, <2>1, <3>1
    <3>2. CASE o \notin N \union L
      <4>1. o \in live' <=> o \in live
        BY <3>2
      <4>2. o \in lost' <=> o \in lost
        BY <3>2
      <4>3. o \in Owned' \union PendingObjects' <=> o \in Owned \union PendingObjects
        BY <1>3, <1>4, <3>2
      <4>4. o \in kept' <=> o \in kept \/ o \in K \ {None}
        BY <2>1
      <4>5. o \in lost => o \notin K \ {None}
        BY <1>1, <2>1
      <4>6. o \in K \ {None} => o \in Owned
        BY <2>1
      <4>7. o \in live \ kept <=> o \in ((Owned \union PendingObjects) \ kept) \union lost
        BY <1>1
      <4> QED
        BY <4>1, <4>2, <4>3, <4>4, <4>5, <4>6, <4>7
    <3> QED
      BY <3>1, <3>2
  <2> QED
    BY <2>2
<1>10. lost' \intersect (Owned' \union PendingObjects') = {}
  BY <1>1, <1>3, <1>5
<1> QED
  BY <1>6, <1>7, <1>8, <1>9, <1>10 DEF Accounted

(* Some of what is to be destroyed is.                                       *)
LEMMA Flushed ==
  ASSUME Accounted, NEW F, F \subseteq pending, pending' = pending \ F,
         live' = live \ {pd.object : pd \in F}, Owned' = Owned, UNCHANGED failureVars
  PROVE  Accounted'
<1>1. /\ \A p, q \in pending : p.object = q.object => p = q \/ p.object \in kept
      /\ \A p \in pending : p.again => p.object \in kept
      /\ Owned \intersect PendingObjects \subseteq kept
      /\ live \ kept = ((Owned \union PendingObjects) \ kept) \union lost
      /\ lost \intersect (Owned \union PendingObjects) = {}
  BY DEF Accounted
<1>2. PendingObjects' \subseteq PendingObjects /\ {pd.object : pd \in F} \subseteq PendingObjects
  BY DEF PendingObjects
<1>3. \A o \in PendingObjects \ kept : o \in PendingObjects' <=> o \notin {pd.object : pd \in F}
  BY <1>1 DEF PendingObjects
<1>4. kept' = kept /\ lost' = lost
  BY DEF failureVars
<1>5. live' \ kept = ((Owned \union PendingObjects') \ kept) \union lost
  BY <1>1, <1>2, <1>3
<1> QED
  BY <1>1, <1>2, <1>4, <1>5 DEF Accounted

(* An object with a new number is none there was before.                     *)
LEMMA NewIsNew ==
  ASSUME ObjectsTyped, Numbered, NEW kind \in {"blas", "scratch", "tlas", "instances"}
  PROVE  /\ New(kind) \in Objects /\ New(kind) # None /\ New(kind) \notin live \union kept
         /\ New(kind) \in Of(kind) /\ New(kind)[1] = kind /\ New(kind)[2] = created[kind] + 1
<1>1. created[kind] \in Nat
  BY DEF ObjectsTyped, Kinds
<1>2. New(kind)[1] = kind /\ New(kind)[2] = created[kind] + 1
  BY DEF New
<1>3. New(kind) \in Objects /\ New(kind) \in Of(kind)
  BY <1>1 DEF New, Objects, Of
<1>4. New(kind) \notin live \union kept
  BY <1>1, <1>2 DEF Numbered
<1> QED
  BY <1>2, <1>3, <1>4, NoneAssumption

LEMMA NumberedKept ==
  ASSUME ObjectsTyped, Numbered, NEW N, live' \union kept' \subseteq live \union kept \union N,
         \A o \in N : o[2] <= created'[o[1]],
         created' \in [Kinds -> Nat], \A k \in Kinds : created'[k] >= created[k]
  PROVE  Numbered'
<1>1. ASSUME NEW o \in live \union kept
      PROVE  o[2] <= created'[o[1]]
  <2>1. o \in Objects /\ o[2] <= created[o[1]]
    BY DEF ObjectsTyped, Numbered
  <2>2. o[1] \in Kinds /\ o[2] \in Nat
    BY <2>1 DEF Objects, Kinds
  <2> QED
    BY <2>1, <2>2 DEF ObjectsTyped
<1> QED
  BY <1>1 DEF Numbered

(* Objects of different kinds are different.                                 *)
LEMMA KindsApart ==
  \A o : /\ o \in {"blas"} \X Nat => o[1] = "blas"
         /\ o \in {"scratch"} \X Nat => o[1] = "scratch"
         /\ o \in {"instances"} \X Nat => o[1] = "instances"
         /\ o \in {"tlas"} \X Nat => o[1] = "tlas"
OBVIOUS

LEMMA OwnedOf ==
  ASSUME BlasTyped, TlasTyped
  PROVE  /\ \A o \in BlasesOwned \ {None} : o \in {"blas"} \X Nat
         /\ \A o \in ScratchesOwned \ {None} : o \in {"scratch"} \X Nat
         /\ \A o \in BuffersOwned \ {None} : o \in {"instances"} \X Nat
         /\ tlas.handle # None => tlas.handle \in {"tlas"} \X Nat
<1>1. ASSUME NEW i \in DOMAIN bottom_level_as
      PROVE  bottom_level_as[i].handle \in Of("blas") /\ bottom_level_as[i].scratch_buffer \in Of("scratch")
  <2>1. bottom_level_as[i] \in BLASes
    BY DEF BlasTyped
  <2> QED
    BY <2>1 DEF BLASes
<1>2. ASSUME NEW f \in FrameSlots
      PROVE  instance_buffers[f].buffer \in Of("instances")
  BY DEF TlasTyped
<1>3. tlas.handle \in Of("tlas")
  BY DEF TlasTyped
<1> QED
  BY <1>1, <1>2, <1>3 DEF BlasesOwned, ScratchesOwned, BuffersOwned, Of

LEMMA Elements ==
  ASSUME BlasTyped, TlasTyped
  PROVE  /\ \A i \in DOMAIN bottom_level_as :
              /\ bottom_level_as[i] \in BLASes
              /\ bottom_level_as[i].handle \in Of("blas")
              /\ bottom_level_as[i].handle \in Owned \union {None}
              /\ bottom_level_as[i].scratch_buffer \in Of("scratch")
              /\ bottom_level_as[i].scratch_buffer \in Owned \union {None}
         /\ \A f \in FrameSlots :
              /\ instance_buffers[f].buffer \in Of("instances")
              /\ instance_buffers[f].buffer \in Owned \union {None}
         /\ tlas.handle \in Of("tlas") /\ tlas.handle \in Owned \union {None}
<1>1. ASSUME NEW i \in DOMAIN bottom_level_as
      PROVE  /\ bottom_level_as[i] \in BLASes
             /\ bottom_level_as[i].handle \in Of("blas")
             /\ bottom_level_as[i].handle \in Owned \union {None}
             /\ bottom_level_as[i].scratch_buffer \in Of("scratch")
             /\ bottom_level_as[i].scratch_buffer \in Owned \union {None}
  <2>1. bottom_level_as[i] \in BLASes
    BY DEF BlasTyped
  <2>2. bottom_level_as[i].handle \in BlasesOwned /\ bottom_level_as[i].scratch_buffer \in ScratchesOwned
    BY DEF BlasesOwned, ScratchesOwned
  <2> QED
    BY <2>1, <2>2, OwnedParts DEF BLASes
<1>2. ASSUME NEW f \in FrameSlots
      PROVE  /\ instance_buffers[f].buffer \in Of("instances")
             /\ instance_buffers[f].buffer \in Owned \union {None}
  <2>1. instance_buffers[f].buffer \in BuffersOwned
    BY DEF BuffersOwned
  <2> QED
    BY <2>1, OwnedParts DEF TlasTyped
<1>3. tlas.handle \in Of("tlas") /\ tlas.handle \in Owned \union {None}
  BY OwnedParts DEF TlasTyped
<1> QED
  BY <1>1, <1>2, <1>3

-----------------------------------------------------------------------------
(* Frames.                                                                  *)

LEMMA SlotDistance ==
  ASSUME FrameTyped
  PROVE  /\ global_frame_counter \in Nat /\ frames_in_flight \in Nat
         /\ Distance(current_frame) = frames_in_flight
         /\ \A f \in FrameSlots :
              /\ Distance(f) \in Nat /\ Distance(f) >= 1 /\ Distance(f) <= frames_in_flight
              /\ f # current_frame => Distance(f) <= frames_in_flight - 1
BY FramesAssumption, BoundsAssumption DEF FrameTyped, FrameSlots, Distance

LEMMA BegunBefore ==
  ASSUME FrameTyped
  PROVE  \A f \in FrameSlots : Begun(f) \in Int /\ Begun(f) <= global_frame_counter
BY SlotDistance DEF Begun

LEMMA NextDistance ==
  ASSUME FrameTyped, current_frame' = NextSlot
  PROVE  /\ current_frame' \in FrameSlots
         /\ \A f \in FrameSlots :
              Distance(f)' = IF f = current_frame THEN 1 ELSE Distance(f) + 1
<1> DEFINE F == frames_in_flight
           c == current_frame
<1>1. F \in Nat /\ F >= 1 /\ c \in Nat /\ c <= F - 1
  BY FramesAssumption DEF FrameTyped, FrameSlots
<1>2. current_frame' = IF c + 1 = F THEN 0 ELSE c + 1
  <2>1. c + 1 < F => (c + 1) % F = c + 1
    BY <1>1
  <2>2. F % F = 0
    BY <1>1
  <2> QED
    BY <1>1, <2>1, <2>2 DEF NextSlot
<1>3. current_frame' \in FrameSlots
  BY <1>1, <1>2 DEF FrameSlots
<1>4. ASSUME NEW f \in FrameSlots
      PROVE  Distance(f)' = IF f = current_frame THEN 1 ELSE Distance(f) + 1
  <2>1. f \in Nat /\ f <= F - 1
    BY <1>1 DEF FrameSlots
  <2>2. Distance(f)' = IF f < current_frame' THEN current_frame' - f ELSE current_frame' + F - f
    BY DEF Distance
  <2> QED
    BY <1>1, <1>2, <2>1, <2>2 DEF Distance
<1> QED
  BY <1>3, <1>4

LEMMA BegunSame ==
  ASSUME UNCHANGED frameVars
  PROVE  \A f \in FrameSlots : Begun(f)' = Begun(f)
BY DEF frameVars, Begun, Distance

(* What is let go of now was not asked for before the last frames began.     *)
LEMMA UsesKept ==
  ASSUME FrameTyped, UsesInv, NEW D, pending' = pending \union Defer(D), live \subseteq live',
         UNCHANGED <<uses, misused, failures>>, \A f \in FrameSlots : Begun(f)' = Begun(f)
  PROVE  UsesInv'
<1> SUFFICES ASSUME failures = 0, NEW f \in FrameSlots, NEW o \in uses[f] \ misused
             PROVE  /\ o \in live'
                    /\ \A p \in pending' : p.object = o => p.requested_at_frame >= Begun(f)
  BY DEF UsesInv
<1>1. o \in live /\ \A p \in pending : p.object = o => p.requested_at_frame >= Begun(f)
  BY DEF UsesInv
<1>2. \A p \in Defer(D) : p.requested_at_frame = global_frame_counter
  BY DeferMeans
<1>3. Begun(f) <= global_frame_counter /\ global_frame_counter \in Nat /\ Begun(f) \in Int
  BY BegunBefore, SlotDistance
<1> QED
  BY <1>1, <1>2, <1>3

LEMMA DeferNothing ==
  Defer({}) = {}
BY DEF Defer

LEMMA BuffersKept ==
  ASSUME BuffersInv, ObjectsTyped, DeviceTyped, created' \in [Kinds -> Nat],
         created'["instances"] >= created["instances"], UNCHANGED <<uses, instance_buffers>>
  PROVE  BuffersInv'
<1>1. created["instances"] \in Nat /\ created'["instances"] \in Nat
  BY DEF ObjectsTyped, Kinds
<1>2. ASSUME NEW g \in FrameSlots, NEW o \in uses[g], o[1] = "instances"
      PROVE  o[2] <= created'["instances"]
  <2>1. o \in Objects /\ o[2] <= created["instances"]
    BY <1>2 DEF BuffersInv, DeviceTyped
  <2>2. o[2] \in Nat
    BY <2>1 DEF Objects
  <2> QED
    BY <1>1, <2>1, <2>2
<1> QED
  BY <1>2 DEF BuffersInv

(* Neither the handles nor what they are about.                              *)
LEMMA HandlesKept ==
  ASSUME HandlesInv,
         UNCHANGED <<blas_generations, free_blas_indices, instance_generations,
                     free_instance_indices, given, removed>>,
         DOMAIN bottom_level_as' = DOMAIN bottom_level_as, DOMAIN instances' = DOMAIN instances,
         created'["scratch"] = created["scratch"], created'["instance"] = created["instance"],
         phase' = "destructed" <=> phase = "destructed"
  PROVE  HandlesInv'
<1>1. Current' = Current
  BY DEF Current
<1>2. BlasSlots'
  BY <1>1 DEF HandlesInv, BlasSlots, Slots, Reused
<1>3. InstanceSlots'
  BY <1>1 DEF HandlesInv, InstanceSlots, Slots, Reused
<1>4. Counted'
  BY DEF HandlesInv, Counted
<1> QED
  BY <1>2, <1>3, <1>4 DEF HandlesInv

(* Neither the BLASes nor their handles.                                     *)
LEMMA BlasesKept ==
  ASSUME BlasesInv, UNCHANGED <<blasVars, given>>, phase' = "destructed" <=> phase = "destructed"
  PROVE  BlasesInv'
BY DEF BlasesInv, Free, InUse, Current, blasVars

LEMMA OwnedOnceSame ==
  ASSUME OwnedOnce, UNCHANGED <<bottom_level_as, instance_buffers>>
  PROVE  OwnedOnce'
BY DEF OwnedOnce

(* The objects are the same ones.                                           *)
LEMMA ObjectsSame ==
  ASSUME ObjectsInv, ObjectsTyped,
         UNCHANGED <<bottom_level_as, tlasVars, live, pending, failures, failureVars>>,
         created' \in [Kinds -> Nat], \A k \in Kinds : created'[k] >= created[k]
  PROVE  ObjectsInv'
<1>1. OwnedOnce' /\ Owned' = Owned
  BY OwnedOnceSame, OwnedSame DEF ObjectsInv, tlasVars
<1>2. Accounted' /\ Unfailed'
  BY <1>1 DEF ObjectsInv, Accounted, Unfailed, PendingObjects, failureVars
<1>3. Numbered'
  <2> DEFINE N == {}
  <2>1. live' \union kept' \subseteq live \union kept \union N /\ \A o \in N : o[2] <= created'[o[1]]
    BY DEF failureVars
  <2> HIDE DEF N
  <2> QED
    BY <2>1, NumberedKept DEF ObjectsInv
<1> QED
  BY <1>1, <1>2, <1>3 DEF ObjectsInv

LEMMA CreatedSame ==
  ASSUME ObjectsTyped, UNCHANGED created
  PROVE  created' \in [Kinds -> Nat] /\ \A k \in Kinds : created'[k] >= created[k]
<1>1. \A k \in Kinds : created[k] \in Nat
  BY DEF ObjectsTyped
<1> QED
  BY <1>1 DEF ObjectsTyped

-----------------------------------------------------------------------------
(* BLASes.                                                                  *)

(* A BLAS stored at an index that is free or new, by add_blas, or by one     *)
(* that threw before it had a scratch buffer.                                *)
LEMMA StoredBlasKeeps ==
  ASSUME IInv, calls' \in 0 .. MaxCalls, phase # "destructed", NEW dynamic \in BOOLEAN,
         NEW b, b \in {None, New("blas")}, NEW s, s \in {None, New("scratch")},
         s # None => b # None,
         NEW index, index = Index(free_blas_indices, bottom_level_as),
         NEW e, e = BLAS(b, s, dynamic),
         NEW h, h = [kind |-> "blas", id |-> index, generation |-> blas_generations'[index]],
         created' = [created EXCEPT !["blas"] = IF b = None THEN @ ELSE @ + 1,
                                    !["scratch"] = IF s = None THEN @ ELSE @ + 1],
         live' = live \union ({b, s} \ {None}),
         bottom_level_as' = Stored(bottom_level_as, index, e),
         blas_generations' = Generations(blas_generations, index),
         free_blas_indices' = Remaining(free_blas_indices),
         blas_update_indices' = IF s = None THEN blas_update_indices
                                ELSE blas_update_indices \union {index},
         tlas_outdated' \in {tlas_outdated, TRUE},
         given' = IF s = None THEN given ELSE given \union {h},
         UNCHANGED <<instanceVars, tlasVars, pending, frameVars, deviceVars, removed, misused,
                     failureVars>>
  PROVE  IInv'
<1>1. /\ b # None => b \in Objects /\ b \notin live \union kept /\ b[1] = "blas"
                     /\ b[2] = created["blas"] + 1
      /\ s # None => s \in Objects /\ s \notin live \union kept /\ s[1] = "scratch"
                     /\ s[2] = created["scratch"] + 1
      /\ b \in Of("blas") /\ s \in Of("scratch") /\ (b = s => b = None)
  <2>1. \A kind \in {"blas", "scratch", "tlas", "instances"} :
          /\ New(kind) \in Objects /\ New(kind) # None /\ New(kind) \notin live \union kept
          /\ New(kind) \in Of(kind) /\ New(kind)[1] = kind /\ New(kind)[2] = created[kind] + 1
    BY NewIsNew DEF IInv, Typed, ObjectsInv
  <2>2. \A kind : None \in Of(kind)
    BY DEF Of
  <2> QED
    BY <2>1, <2>2
<1>2. e \in BLASes /\ e.handle = b /\ e.scratch_buffer = s /\ e.scratch_address = s
  BY <1>1 DEF BLAS, BLASes
<1>4. /\ index \in Nat \ {0}
      /\ bottom_level_as' \in Seq(BLASes)
      /\ DOMAIN bottom_level_as' = DOMAIN bottom_level_as \union {index}
      /\ \A i \in DOMAIN bottom_level_as' :
           bottom_level_as'[i] = IF i = index THEN e ELSE bottom_level_as[i]
      /\ \A i \in DOMAIN free_blas_indices' :
           /\ i \in DOMAIN free_blas_indices /\ free_blas_indices'[i] = free_blas_indices[i]
           /\ free_blas_indices[i] # index
      /\ index \in DOMAIN bottom_level_as => Free(index)
      /\ \A i \in DOMAIN bottom_level_as : blas_generations'[i] = blas_generations[i]
      /\ \A i \in DOMAIN free_blas_indices : free_blas_indices[i] # index =>
           \E j \in DOMAIN free_blas_indices' : free_blas_indices'[j] = free_blas_indices[i]
  <2>1. Reused(DOMAIN bottom_level_as, blas_generations, free_blas_indices)
    BY DEF IInv, HandlesInv, BlasSlots, Slots
  <2>2. bottom_level_as \in Seq(BLASes)
    BY DEF IInv, Typed, BlasTyped
  <2>3. Taken(BLASes, bottom_level_as, e, blas_generations, free_blas_indices, index)
    BY <1>2, <2>1, <2>2, TakenIndex
  <2> QED
    BY <2>3 DEF Taken, Free
<1>5. \A i \in DOMAIN bottom_level_as \ {index} : Free(i)' <=> Free(i)
  BY <1>4 DEF Free
<1>6. \A i \in DOMAIN bottom_level_as' : i = index => ~Free(i)'
  BY <1>4 DEF Free
<1>7. /\ created' \in [Kinds -> Nat] /\ \A k \in Kinds : created'[k] >= created[k]
      /\ b # None => created'["blas"] = created["blas"] + 1
      /\ created'["scratch"] = IF s = None THEN created["scratch"] ELSE created["scratch"] + 1
      /\ created'["instance"] = created["instance"] /\ created'["instances"] = created["instances"]
  <2>1. created \in [Kinds -> Nat]
    BY DEF IInv, Typed, ObjectsTyped
  <2>2. \A k \in Kinds : created'[k] =
          IF (k = "blas" /\ b # None) \/ (k = "scratch" /\ s # None) THEN created[k] + 1 ELSE created[k]
    BY <2>1
  <2>3. \A k \in Kinds : created[k] \in Nat
    BY <2>1
  <2>4. created' \in [Kinds -> Nat]
    <3>1. created["blas"] + 1 \in Nat /\ created["scratch"] + 1 \in Nat
      BY <2>3 DEF Kinds
    <3> QED
      BY <2>1, <3>1
  <2>5. /\ b # None => created'["blas"] = created["blas"] + 1
        /\ created'["scratch"] = IF s = None THEN created["scratch"] ELSE created["scratch"] + 1
        /\ created'["instance"] = created["instance"] /\ created'["instances"] = created["instances"]
    BY <2>2 DEF Kinds
  <2>6. ASSUME NEW k \in Kinds
        PROVE  created'[k] >= created[k]
    <3>1. created'[k] = created[k] + 1 \/ created'[k] = created[k]
      BY <2>2
    <3> QED
      BY <2>3, <3>1
  <2> QED
    BY <2>4, <2>5, <2>6
<1>8. created["scratch"] \in Nat /\ created["instance"] \in Nat
  BY DEF IInv, Typed, ObjectsTyped, Kinds
<1>9. /\ Current = given /\ Current' = given'
  BY DEF Current, frameVars
<1>10. /\ h \notin given /\ h \in Handles
       /\ BlasSlots'
  <2>1. Slots("blas", given, removed, DOMAIN bottom_level_as, blas_generations, free_blas_indices)
    BY <1>9 DEF IInv, HandlesInv, BlasSlots
  <2>2. removed \subseteq given /\ bottom_level_as \in Seq(BLASes)
    BY DEF IInv, Typed, GivenTyped, BlasTyped
  <2>3. h = [kind |-> "blas", id |-> index, generation |-> Generations(blas_generations, index)[index]]
    OBVIOUS
  <2>4. /\ h \notin given /\ h.id \in Nat /\ h.generation \in Nat
        /\ Slots("blas", given \union {h}, removed, DOMAIN Stored(bottom_level_as, index, e),
                 Generations(blas_generations, index), Remaining(free_blas_indices))
    <3>1. Gives("blas", given, removed, bottom_level_as, e, blas_generations, free_blas_indices,
                index, h)
      BY <1>2, <2>1, <2>2, <2>3, SlotsTake
    <3> QED
      BY <3>1 DEF Gives
  <2>5. Slots("blas", given', removed, DOMAIN bottom_level_as', blas_generations', free_blas_indices')
    BY <2>4 DEF Slots
  <2> QED
    BY <1>9, <2>4, <2>5 DEF BlasSlots, Handles
<1>11. Typed'
  <2>1. BlasTyped'
    BY <1>4 DEF IInv, Typed, BlasTyped
  <2>2. ObjectsTyped'
    BY <1>1, <1>7 DEF IInv, Typed, ObjectsTyped, failureVars
  <2>3. InstanceTyped' /\ TlasTyped' /\ FrameTyped' /\ DeviceTyped'
    BY DEF IInv, Typed, InstanceTyped, TlasTyped, FrameTyped, DeviceTyped,
                instanceVars, tlasVars, frameVars, deviceVars
  <2>4. GivenTyped'
    BY <1>10 DEF IInv, Typed, GivenTyped
  <2> QED
    BY <2>1, <2>2, <2>3, <2>4 DEF Typed
<1>12. HandlesInv'
  <2>1. InstanceSlots'
    <3>1. Slots("instance", given, removed, DOMAIN instances, instance_generations, free_instance_indices)
      BY <1>9 DEF IInv, HandlesInv, InstanceSlots
    <3>2. h.kind # "instance"
      OBVIOUS
    <3>3. Slots("instance", given \union {h}, removed, DOMAIN instances, instance_generations,
                free_instance_indices)
      BY <3>1, <3>2, SlotsOther
    <3> QED
      BY <1>9, <3>1, <3>3 DEF InstanceSlots, instanceVars
  <2>2. Counted'
    <3>1. IsFiniteSet(given) /\ Cardinality(given) = created["scratch"] + created["instance"]
      BY DEF IInv, HandlesInv, Counted
    <3>2. IsFiniteSet(given \union {h}) /\ Cardinality(given \union {h}) = Cardinality(given) + 1
      BY <1>10, <3>1, FS_AddElement
    <3>3. CASE s = None
      BY <1>7, <3>1, <3>3 DEF Counted
    <3>4. CASE s # None
      <4>1. IsFiniteSet(given') /\ Cardinality(given') = created["scratch"] + created["instance"] + 1
        BY <3>1, <3>2, <3>4
      <4>2. created'["scratch"] = created["scratch"] + 1 /\ created'["instance"] = created["instance"]
        BY <1>7, <3>4
      <4>3. \A m, n \in Nat : m + n + 1 = (m + 1) + n
        OBVIOUS
      <4>4. Cardinality(given') = created'["scratch"] + created'["instance"]
        BY <1>8, <4>1, <4>2, <4>3
      <4> QED
        BY <4>1, <4>4 DEF Counted
    <3> QED
      BY <3>3, <3>4
  <2> QED
    BY <1>10, <2>1, <2>2 DEF HandlesInv
<1>13. BlasesInv'
  <2>1. ASSUME NEW i \in DOMAIN bottom_level_as'
        PROVE  /\ Free(i)' => bottom_level_as'[i] = NoBLAS
               /\ InUse(i)' => bottom_level_as'[i].handle # None
               /\ i \in blas_update_indices' => InUse(i)'
               /\ bottom_level_as'[i].scratch_buffer \in {None, bottom_level_as'[i].scratch_address}
    <3>1. CASE i = index
      <4>1. bottom_level_as'[i] = e /\ ~Free(i)'
        BY <1>4, <1>6, <3>1
      <4>2. i \in blas_update_indices => i \in DOMAIN bottom_level_as /\ InUse(i)
        BY DEF IInv, BlasesInv, Typed, BlasTyped
      <4>3. i \in DOMAIN bottom_level_as => ~InUse(i)
        <5>1. NoBLAS.scratch_address = None
          BY DEF NoBLAS, BLAS
        <5> QED
          BY <1>4, <3>1, <5>1 DEF IInv, BlasesInv, InUse
      <4> QED
        BY <1>1, <1>2, <4>1, <4>2, <4>3 DEF InUse
    <3>2. CASE i # index
      <4>1. i \in DOMAIN bottom_level_as /\ bottom_level_as'[i] = bottom_level_as[i]
        BY <1>4, <3>2
      <4>2. i \in blas_update_indices' => i \in blas_update_indices
        BY <3>2
      <4>3. (Free(i)' <=> Free(i)) /\ (InUse(i)' <=> InUse(i))
        BY <1>5, <3>2, <4>1 DEF InUse
      <4> QED
        BY <4>1, <4>2, <4>3 DEF IInv, BlasesInv
    <3> QED
      BY <3>1, <3>2
  <2>2. ASSUME NEW g \in given', g.kind = "blas", g.generation = blas_generations'[g.id]
        PROVE  InUse(g.id)'
    <3>1. CASE g = h /\ s # None
      BY <1>2, <1>4, <3>1 DEF InUse
    <3>2. CASE g \in given
      <4>1. /\ g.id \in DOMAIN bottom_level_as
            /\ \A i \in DOMAIN free_blas_indices :
                 free_blas_indices[i] = g.id => g.generation # blas_generations[g.id]
        BY <1>9, <2>2, <3>2 DEF IInv, HandlesInv, BlasSlots, Slots
      <4>2. blas_generations'[g.id] = blas_generations[g.id]
        BY <1>4, <4>1
      <4>3. g.id # index
        BY <1>4, <2>2, <4>1, <4>2 DEF Free
      <4>4. InUse(g.id)
        BY <1>9, <2>2, <3>2, <4>2 DEF IInv, BlasesInv
      <4> QED
        BY <1>4, <4>1, <4>3, <4>4 DEF InUse
    <3> QED
      BY <2>2, <3>1, <3>2
  <2> QED
    BY <1>9, <2>1, <2>2 DEF BlasesInv
<1>14. index \in DOMAIN bottom_level_as =>
          bottom_level_as[index].handle = None /\ bottom_level_as[index].scratch_buffer = None
  <2>1. NoBLAS.handle = None /\ NoBLAS.scratch_buffer = None
    BY DEF NoBLAS, BLAS
  <2> QED
    BY <1>4, <2>1 DEF IInv, BlasesInv
<1>15. b \notin Owned /\ s \notin Owned
  BY <1>1, LiveOrKept, OwnedParts DEF IInv, ObjectsInv
<1>16. ObjectsInv'
  <2>1. OwnedOnce'
    <3>1. \A i \in DOMAIN bottom_level_as :
            /\ bottom_level_as[i].handle \in Owned \union {None}
            /\ bottom_level_as[i].scratch_buffer \in Owned \union {None}
      BY Elements DEF IInv, Typed
    <3>2. ASSUME NEW i \in DOMAIN bottom_level_as', NEW j \in DOMAIN bottom_level_as', i # j
          PROVE  /\ bottom_level_as'[i].handle = None \/ bottom_level_as'[i].handle # bottom_level_as'[j].handle
                 /\ \/ bottom_level_as'[i].scratch_buffer = None
                    \/ bottom_level_as'[i].scratch_buffer # bottom_level_as'[j].scratch_buffer
      <4>1. CASE i = index
        BY <1>1, <1>2, <1>4, <1>15, <3>1, <3>2, <4>1
      <4>2. CASE j = index
        BY <1>1, <1>2, <1>4, <1>15, <3>1, <3>2, <4>2
      <4>3. CASE i # index /\ j # index
        BY <1>4, <3>2, <4>3 DEF IInv, ObjectsInv, OwnedOnce
      <4> QED
        BY <4>1, <4>2, <4>3
    <3> QED
      BY <3>2 DEF IInv, ObjectsInv, OwnedOnce, tlasVars
  <2>2. Owned' = Owned \union ({b, s} \ {None})
    <3>1. BuffersOwned' = BuffersOwned /\ tlas' = tlas
      BY DEF BuffersOwned, tlasVars
    <3>2. BlasesOwned' \ {None} = (BlasesOwned \union {b}) \ {None}
      <4>1. \A i \in DOMAIN bottom_level_as : i # index => bottom_level_as'[i] = bottom_level_as[i]
        BY <1>4
      <4>2. bottom_level_as'[index] = e /\ index \in DOMAIN bottom_level_as'
        BY <1>4
      <4> QED
        BY <1>2, <1>4, <1>14, <4>1, <4>2 DEF BlasesOwned
    <3>3. ScratchesOwned' \ {None} = (ScratchesOwned \union {s}) \ {None}
      <4>1. \A i \in DOMAIN bottom_level_as : i # index => bottom_level_as'[i] = bottom_level_as[i]
        BY <1>4
      <4>2. bottom_level_as'[index] = e /\ index \in DOMAIN bottom_level_as'
        BY <1>4
      <4> QED
        BY <1>2, <1>4, <1>14, <4>1, <4>2 DEF ScratchesOwned
    <3> QED
      BY <1>1, <3>1, <3>2, <3>3, OwnedParts
  <2>3. Accounted'
    <3>1. pending' = pending \union Defer({})
      BY DeferNothing
    <3>2. /\ Owned' = (Owned \ ({} \ {})) \union ({b, s} \ {None})
          /\ (({b, s} \ {None}) \union {}) \intersect (live \union kept) = {}
          /\ live' = live \union ({b, s} \ {None}) \union {}
          /\ kept' = kept \union ({} \ {None}) /\ lost' = lost \union {}
      BY <1>1, <2>2 DEF failureVars
    <3> QED
      BY <3>1, <3>2, OwnersChange DEF IInv, ObjectsInv
  <2>4. Numbered'
    <3>1. b # None => b[2] <= created'[b[1]]
      <4>1. created["blas"] \in Nat
        BY DEF IInv, Typed, ObjectsTyped, Kinds
      <4>2. b # None => b[1] = "blas" /\ b[2] = created'["blas"] /\ b[2] \in Nat
        BY <1>1, <1>7, <4>1
      <4>3. \A n \in Nat : n <= n
        OBVIOUS
      <4> QED
        BY <4>2, <4>3
    <3>2. s # None => s[2] <= created'[s[1]]
      <4>1. s # None => s[1] = "scratch" /\ s[2] = created'["scratch"] /\ s[2] \in Nat
        BY <1>1, <1>7, <1>8
      <4>2. \A n \in Nat : n <= n
        OBVIOUS
      <4> QED
        BY <4>1, <4>2
    <3>3. \A o \in {b, s} \ {None} : o[2] <= created'[o[1]]
      BY <3>1, <3>2
    <3>4. live' \union kept' \subseteq live \union kept \union ({b, s} \ {None})
      BY DEF failureVars
    <3> QED
      BY <1>7, <3>3, <3>4, NumberedKept DEF IInv, Typed, ObjectsInv
  <2>5. Unfailed'
    BY DEF IInv, ObjectsInv, Unfailed, failureVars, frameVars
  <2> QED
    BY <2>1, <2>3, <2>4, <2>5 DEF ObjectsInv
<1>17. UsesInv'
  <2>1. \A f \in FrameSlots : Begun(f)' = Begun(f)
    BY BegunSame
  <2>2. pending' = pending \union Defer({}) /\ live \subseteq live' /\ UNCHANGED <<uses, misused, failures>>
    BY DeferNothing DEF deviceVars, frameVars
  <2> QED
    BY <2>1, <2>2, UsesKept DEF IInv, Typed
<1>18. BuffersInv'
  <2>1. created'["instances"] >= created["instances"]
    BY <1>7 DEF Kinds
  <2> QED
    BY <1>7, <2>1, BuffersKept DEF IInv, Typed, deviceVars, tlasVars
<1>19. SceneInv'
  <2>1. ASSUME NEW i \in DOMAIN bottom_level_as' \ blas_update_indices', InUse(i)',
               failures = 0
        PROVE  bottom_level_as'[i].handle \in built
    <3>1. i # index
      BY <1>2, <1>4, <2>1 DEF InUse
    <3>2. i \in DOMAIN bottom_level_as \ blas_update_indices /\ bottom_level_as'[i] = bottom_level_as[i]
      BY <1>4, <2>1, <3>1
    <3> QED
      BY <2>1, <3>2 DEF IInv, SceneInv, InUse
  <2> QED
    BY <2>1 DEF IInv, SceneInv, instanceVars, tlasVars, frameVars, deviceVars
<1> QED
  BY <1>11, <1>12, <1>13, <1>16, <1>17, <1>18, <1>19 DEF IInv

LEMMA AddBlasKeeps ==
  ASSUME IInv, calls' \in 0 .. MaxCalls, phase # "destructed", NEW dynamic \in BOOLEAN,
         AddBlas(dynamic)
  PROVE  IInv'
<1> DEFINE b == New("blas")
           s == New("scratch")
           index == Index(free_blas_indices, bottom_level_as)
           e == BLAS(b, s, dynamic)
           h == [kind |-> "blas", id |-> index, generation |-> blas_generations'[index]]
<1>1. b # None /\ s # None
  BY NewIsNew DEF IInv, Typed, ObjectsInv
<1>2. /\ created' = [created EXCEPT !["blas"] = @ + 1, !["scratch"] = @ + 1]
      /\ live' = live \union {b, s}
      /\ bottom_level_as' = Stored(bottom_level_as, index, e)
      /\ blas_generations' = Generations(blas_generations, index)
      /\ free_blas_indices' = Remaining(free_blas_indices)
      /\ blas_update_indices' = blas_update_indices \union {index}
      /\ tlas_outdated' = TRUE
      /\ given' = given \union {h}
      /\ UNCHANGED <<instanceVars, tlasVars, pending, frameVars, deviceVars, removed, misused,
                     failureVars>>
  BY DEF AddBlas
<1>3. /\ created' = [created EXCEPT !["blas"] = IF b = None THEN @ ELSE @ + 1,
                                    !["scratch"] = IF s = None THEN @ ELSE @ + 1]
      /\ live' = live \union ({b, s} \ {None})
      /\ b \in {None, New("blas")} /\ s \in {None, New("scratch")}
  BY <1>1, <1>2
<1> HIDE DEF b, s, index, e, h
<1> QED
  BY <1>1, <1>2, <1>3, StoredBlasKeeps DEF index, e, h

LEMMA AddBlasThrowsKeeps ==
  ASSUME IInv, calls' \in 0 .. MaxCalls, phase # "destructed", NEW dynamic \in BOOLEAN,
         AddBlasThrows(dynamic)
  PROVE  IInv'
<1> DEFINE index == Index(free_blas_indices, bottom_level_as)
           h == [kind |-> "blas", id |-> index, generation |-> blas_generations'[index]]
<1>1. PICK b \in {None, New("blas")} :
        /\ created' = IF b = None THEN created ELSE [created EXCEPT !["blas"] = @ + 1]
        /\ live' = live \union ({b} \ {None})
        /\ bottom_level_as' = Stored(bottom_level_as, index, BLAS(b, None, dynamic))
        /\ blas_generations' = Generations(blas_generations, index)
        /\ free_blas_indices' = Remaining(free_blas_indices)
        /\ UNCHANGED <<blas_update_indices, instanceVars, tlasVars, tlas_outdated, pending,
                       frameVars, deviceVars, historyVars>>
  BY DEF AddBlasThrows
<1>2. created \in [Kinds -> Nat]
  BY DEF IInv, Typed, ObjectsTyped
<1>3. /\ created' = [created EXCEPT !["blas"] = IF b = None THEN @ ELSE @ + 1,
                                    !["scratch"] = @]
      /\ live' = live \union ({b, None} \ {None})
      /\ UNCHANGED <<given, removed, misused, failureVars>>
  BY <1>1, <1>2 DEF historyVars
<1> HIDE DEF index, h
<1> QED
  BY <1>1, <1>3, StoredBlasKeeps DEF index, h

(* What the handles that calls take lead to.                                 *)
LEMMA HandlesLead ==
  ASSUME IInv, phase # "destructed"
  PROVE  /\ \A h \in BlasHandles :
              /\ h \in given /\ h.kind = "blas" /\ h.id \in DOMAIN bottom_level_as
              /\ h.generation = blas_generations[h.id]
              /\ InUse(h.id) /\ bottom_level_as[h.id].handle # None
         /\ \A h \in InstanceHandles :
              /\ h \in given /\ h.kind = "instance" /\ h.id \in DOMAIN instances
              /\ h.generation = instance_generations[h.id]
<1>1. Current = given
  BY DEF Current
<1>2. ASSUME NEW h \in BlasHandles
      PROVE  /\ h \in given /\ h.kind = "blas" /\ h.id \in DOMAIN bottom_level_as
             /\ h.generation = blas_generations[h.id]
             /\ InUse(h.id) /\ bottom_level_as[h.id].handle # None
  <2>1. h \in given /\ h.kind = "blas" /\ h.generation = blas_generations[h.id]
    BY DEF BlasHandles, Resolves
  <2>2. h.id \in DOMAIN bottom_level_as
    BY <1>1, <2>1 DEF IInv, HandlesInv, BlasSlots, Slots
  <2> QED
    BY <1>1, <2>1, <2>2 DEF IInv, BlasesInv
<1>3. ASSUME NEW h \in InstanceHandles
      PROVE  /\ h \in given /\ h.kind = "instance" /\ h.id \in DOMAIN instances
             /\ h.generation = instance_generations[h.id]
  <2>1. h \in given /\ h.kind = "instance" /\ h.generation = instance_generations[h.id]
    BY DEF InstanceHandles, Resolves
  <2> QED
    BY <1>1, <2>1 DEF IInv, HandlesInv, InstanceSlots, Slots
<1> QED
  BY <1>2, <1>3

LEMMA UpdateBlasKeeps ==
  ASSUME IInv, calls' \in 0 .. MaxCalls, phase # "destructed", NEW h \in BlasHandles,
         UpdateBlas(h)
  PROVE  IInv'
<1>1. /\ blas_update_indices' = blas_update_indices \union {h.id}
      /\ tlas_outdated' = TRUE
      /\ built' = built \ {bottom_level_as[h.id].handle}
      /\ UNCHANGED <<bottom_level_as, blas_generations, free_blas_indices, instanceVars,
                     tlasVars, created, live, pending, frameVars, tlas_contents, uses, historyVars>>
  BY DEF UpdateBlas
<1>2. h.id \in DOMAIN bottom_level_as /\ InUse(h.id) /\ bottom_level_as[h.id].handle # None
  BY HandlesLead
<1>3. Typed'
  BY <1>1, <1>2 DEF IInv, Typed, BlasTyped, InstanceTyped, TlasTyped, ObjectsTyped, FrameTyped,
       DeviceTyped, GivenTyped, instanceVars, tlasVars, frameVars, historyVars, failureVars
<1>4. HandlesInv'
  BY <1>1, HandlesKept DEF IInv, instanceVars, historyVars, frameVars
<1>5. BlasesInv'
  BY <1>1, <1>2 DEF IInv, BlasesInv, Free, InUse, Current, historyVars, frameVars
<1>7. ObjectsInv'
  BY <1>1, CreatedSame, ObjectsSame DEF IInv, Typed, frameVars, historyVars
<1>8. UsesInv'
  <2>1. \A f \in FrameSlots : Begun(f)' = Begun(f)
    BY <1>1, BegunSame
  <2>2. pending' = pending \union Defer({}) /\ live \subseteq live' /\ UNCHANGED <<uses, misused, failures>>
    BY <1>1, DeferNothing DEF historyVars, frameVars
  <2> QED
    BY <2>1, <2>2, UsesKept DEF IInv, Typed
<1>9. BuffersInv'
  BY <1>1 DEF IInv, BuffersInv, tlasVars
<1>10. SceneInv'
  <2>1. ASSUME NEW i \in DOMAIN bottom_level_as \ blas_update_indices', failures = 0,
               phase # "destructed", InUse(i)
        PROVE  bottom_level_as[i].handle \in built'
    <3>1. i # h.id /\ i \in DOMAIN bottom_level_as \ blas_update_indices
      BY <1>1, <2>1
    <3>2. bottom_level_as[i].handle \in built /\ bottom_level_as[i].handle # None
      BY <2>1, <3>1 DEF IInv, SceneInv, BlasesInv
    <3>3. bottom_level_as[i].handle # bottom_level_as[h.id].handle
      BY <1>2, <3>1, <3>2 DEF IInv, ObjectsInv, OwnedOnce
    <3> QED
      BY <1>1, <3>2, <3>3
  <2>2. UNCHANGED <<bottom_level_as, tlas, failures, phase>> /\ tlas_outdated'
    BY <1>1 DEF tlasVars, frameVars
  <2>3. failures = 0 /\ phase # "destructed" => (tlas.handle # None => tlas.ready)
    BY DEF IInv, SceneInv
  <2> QED
    BY <2>1, <2>2, <2>3 DEF SceneInv, InUse
<1> QED
  BY <1>3, <1>4, <1>5, <1>7, <1>8, <1>9, <1>10 DEF IInv

LEMMA RemoveBlasKeeps ==
  ASSUME IInv, calls' \in 0 .. MaxCalls, phase # "destructed", NEW h \in BlasHandles,
         RemoveBlas(h)
  PROVE  IInv'
<1> DEFINE blas == bottom_level_as[h.id]
           D == {blas.handle, blas.scratch_buffer}
<1>1. /\ pending' = pending \union Defer(D)
      /\ bottom_level_as' = [bottom_level_as EXCEPT ![h.id] = NoBLAS]
      /\ blas_generations' = [blas_generations EXCEPT ![h.id] = @ + 1]
      /\ blas_update_indices' = blas_update_indices \ {h.id}
      /\ free_blas_indices' = Append(free_blas_indices, h.id)
      /\ removed' = removed \union {h}
      /\ UNCHANGED <<instanceVars, tlasVars, tlas_outdated, created, live, frameVars,
                     deviceVars, given, misused, failureVars>>
  BY DEF RemoveBlas, ForgetUpdate
<1>2. /\ h \in given /\ h.kind = "blas" /\ h.id \in DOMAIN bottom_level_as
      /\ h.generation = blas_generations[h.id]
      /\ InUse(h.id) /\ bottom_level_as[h.id].handle # None
  BY HandlesLead
<1>3. NoBLAS \in BLASes /\ NoBLAS.handle = None /\ NoBLAS.scratch_buffer = None /\ NoBLAS.scratch_address = None
  BY DEF NoBLAS, BLAS, BLASes, Of
<1>4. /\ bottom_level_as' \in Seq(BLASes) /\ DOMAIN bottom_level_as' = DOMAIN bottom_level_as
      /\ \A i \in DOMAIN bottom_level_as :
           bottom_level_as'[i] = IF i = h.id THEN NoBLAS ELSE bottom_level_as[i]
  <2>1. bottom_level_as \in Seq(BLASes)
    BY DEF IInv, Typed, BlasTyped
  <2> QED
    BY <1>1, <1>2, <1>3, <2>1, WriteSeq
<1>5. \A i \in DOMAIN bottom_level_as : Free(i)' <=> Free(i) \/ i = h.id
  <2>1. free_blas_indices \in Seq(DOMAIN bottom_level_as)
    BY DEF IInv, HandlesInv, BlasSlots, Slots, Reused
  <2>2. /\ DOMAIN free_blas_indices' = DOMAIN free_blas_indices \union {Len(free_blas_indices) + 1}
        /\ \A i \in DOMAIN free_blas_indices : free_blas_indices'[i] = free_blas_indices[i]
        /\ free_blas_indices'[Len(free_blas_indices) + 1] = h.id
    BY <1>1, <1>2, <2>1, AppendSeq
  <2> QED
    BY <2>2 DEF Free
<1>6. Typed'
  <2>1. BlasTyped'
    BY <1>1, <1>4 DEF IInv, Typed, BlasTyped
  <2>2. InstanceTyped' /\ TlasTyped' /\ FrameTyped' /\ DeviceTyped' /\ GivenTyped'
    BY <1>1, <1>2 DEF IInv, Typed, InstanceTyped, TlasTyped, FrameTyped, DeviceTyped, GivenTyped,
         instanceVars, tlasVars, frameVars, deviceVars
  <2>3. D \ {None} \subseteq Objects
    <3>1. blas.handle \in Of("blas") /\ blas.scratch_buffer \in Of("scratch")
      BY <1>2, Elements DEF IInv, Typed
    <3> QED
      BY <3>1 DEF Of, Objects
  <2>4. ObjectsTyped'
    <3> HIDE DEF D
    <3>1. Defer(D) \subseteq Deferred
      BY <2>3, DeferTyped DEF IInv, Typed
    <3> QED
      BY <1>1, <3>1 DEF IInv, Typed, ObjectsTyped, failureVars
  <2> QED
    BY <2>1, <2>2, <2>4 DEF Typed
<1>7. HandlesInv'
  <2>1. Current = given /\ Current' = given
    BY <1>1 DEF Current, frameVars
  <2>2. \A g \in given : g = [kind |-> g.kind, id |-> g.id, generation |-> g.generation]
    BY DEF IInv, Typed, GivenTyped, Handles
  <2>3. BlasSlots'
    <3>1. Slots("blas", given, removed, DOMAIN bottom_level_as, blas_generations, free_blas_indices)
      BY <2>1 DEF IInv, HandlesInv, BlasSlots
    <3>2. Slots("blas", given, removed \union {h}, DOMAIN bottom_level_as,
                [blas_generations EXCEPT ![h.id] = @ + 1], Append(free_blas_indices, h.id))
      BY <1>2, <2>2, <3>1, SlotsGiveBack
    <3> QED
      BY <1>1, <1>4, <2>1, <3>2 DEF BlasSlots
  <2>4. InstanceSlots'
    <3>1. Slots("instance", given, removed, DOMAIN instances, instance_generations, free_instance_indices)
      BY <2>1 DEF IInv, HandlesInv, InstanceSlots
    <3>2. Slots("instance", given, removed \union {h}, DOMAIN instances, instance_generations,
                free_instance_indices)
      BY <1>2, <3>1, SlotsOther
    <3> QED
      BY <1>1, <2>1, <3>2 DEF InstanceSlots, instanceVars
  <2> QED
    BY <1>1, <2>3, <2>4 DEF IInv, HandlesInv, Counted
<1>8. BlasesInv'
  <2>1. ASSUME NEW i \in DOMAIN bottom_level_as'
        PROVE  /\ Free(i)' => bottom_level_as'[i] = NoBLAS
               /\ InUse(i)' => bottom_level_as'[i].handle # None
               /\ i \in blas_update_indices' => InUse(i)'
               /\ bottom_level_as'[i].scratch_buffer \in {None, bottom_level_as'[i].scratch_address}
    <3>1. CASE i = h.id
      BY <1>1, <1>2, <1>3, <1>4, <1>5, <3>1 DEF InUse
    <3>2. CASE i # h.id
      BY <1>1, <1>4, <1>5, <3>2 DEF IInv, BlasesInv, InUse
    <3> QED
      BY <3>1, <3>2
  <2>2. ASSUME NEW g \in given, g.kind = "blas", g.generation = blas_generations'[g.id]
        PROVE  InUse(g.id)'
    <3>1. Current = given
      BY DEF Current
    <3>2. /\ g.id \in DOMAIN bottom_level_as /\ g.generation \in 0 .. blas_generations[g.id]
          /\ blas_generations \in Seq(Nat) /\ DOMAIN blas_generations = DOMAIN bottom_level_as
      BY <2>2, <3>1 DEF IInv, HandlesInv, BlasSlots, Slots, Reused
    <3>3. g.id # h.id
      <4>1. blas_generations[g.id] \in Nat
        BY <3>2
      <4>2. g.id = h.id => g.generation = blas_generations[g.id] + 1
        BY <1>1, <2>2, <3>2
      <4> QED
        BY <3>2, <4>1, <4>2
    <3>4. blas_generations'[g.id] = blas_generations[g.id]
      BY <1>1, <3>2, <3>3
    <3>5. InUse(g.id)
      BY <2>2, <3>1, <3>4 DEF IInv, BlasesInv
    <3> QED
      BY <1>4, <3>2, <3>3, <3>5 DEF InUse
  <2>3. Current' = given
    BY <1>1 DEF Current, frameVars
  <2> QED
    BY <2>1, <2>2, <2>3 DEF BlasesInv
<1>9. OwnedOnce'
  <2>1. ASSUME NEW i \in DOMAIN bottom_level_as, NEW j \in DOMAIN bottom_level_as, i # j
        PROVE  /\ bottom_level_as'[i].handle = None \/ bottom_level_as'[i].handle # bottom_level_as'[j].handle
               /\ \/ bottom_level_as'[i].scratch_buffer = None
                  \/ bottom_level_as'[i].scratch_buffer # bottom_level_as'[j].scratch_buffer
    <3>1. /\ bottom_level_as[i].handle = None \/ bottom_level_as[i].handle # bottom_level_as[j].handle
          /\ \/ bottom_level_as[i].scratch_buffer = None
             \/ bottom_level_as[i].scratch_buffer # bottom_level_as[j].scratch_buffer
      BY <2>1 DEF IInv, ObjectsInv, OwnedOnce
    <3> QED
      BY <1>3, <1>4, <3>1
  <2> QED
    BY <1>1, <1>4, <2>1 DEF IInv, ObjectsInv, OwnedOnce, tlasVars
<1>10. Owned' = Owned \ D /\ D \ {None} \subseteq Owned
  <2>1. BuffersOwned' = BuffersOwned /\ tlas' = tlas
    BY <1>1 DEF BuffersOwned, tlasVars
  <2>2. BlasesOwned' \ {None} = (BlasesOwned \ {blas.handle}) \ {None}
    <3>1. \A i \in DOMAIN bottom_level_as : i # h.id =>
            bottom_level_as[i].handle = None \/ bottom_level_as[i].handle # blas.handle
      BY <1>2 DEF IInv, ObjectsInv, OwnedOnce
    <3> QED
      BY <1>2, <1>3, <1>4, <3>1 DEF BlasesOwned
  <2>3. ScratchesOwned' \ {None} = (ScratchesOwned \ {blas.scratch_buffer}) \ {None}
    <3>1. \A i \in DOMAIN bottom_level_as : i # h.id =>
            bottom_level_as[i].scratch_buffer = None \/ bottom_level_as[i].scratch_buffer # blas.scratch_buffer
      BY <1>2 DEF IInv, ObjectsInv, OwnedOnce
    <3> QED
      BY <1>2, <1>3, <1>4, <3>1 DEF ScratchesOwned
  <2>4. /\ \A o \in BlasesOwned \ {None} : o[1] = "blas"
        /\ \A o \in ScratchesOwned \ {None} : o[1] = "scratch"
        /\ \A o \in BuffersOwned \ {None} : o[1] = "instances"
        /\ tlas.handle # None => tlas.handle[1] = "tlas"
    BY OwnedOf, KindsApart DEF IInv, Typed
  <2>5. blas.handle \in BlasesOwned /\ blas.scratch_buffer \in ScratchesOwned
    BY <1>2 DEF BlasesOwned, ScratchesOwned
  <2> HIDE DEF blas
  <2> QED
    BY <2>1, <2>2, <2>3, <2>4, <2>5, OwnedParts
<1>11. ObjectsInv'
  <2> HIDE DEF D
  <2>1. Accounted'
    <3>1. /\ Owned' = (Owned \ (D \ {})) \union {} /\ ({} \union {}) \intersect (live \union kept) = {}
          /\ live' = live \union {} \union {}
          /\ kept' = kept \union ({} \ {None}) /\ lost' = lost \union {} /\ {} \subseteq D
          /\ pending' = pending \union Defer(D)
      BY <1>1, <1>10 DEF failureVars
    <3> QED
      BY <1>10, <3>1, OwnersChange DEF IInv, ObjectsInv
  <2>2. Numbered' /\ Unfailed'
    BY <1>1 DEF IInv, ObjectsInv, Numbered, Unfailed, failureVars, frameVars
  <2> QED
    BY <1>9, <2>1, <2>2 DEF ObjectsInv
<1>12. UsesInv'
  <2>1. \A f \in FrameSlots : Begun(f)' = Begun(f)
    BY <1>1, BegunSame
  <2> HIDE DEF D
  <2>2. pending' = pending \union Defer(D) /\ live \subseteq live' /\ UNCHANGED <<uses, misused, failures>>
    BY <1>1 DEF deviceVars, frameVars
  <2> QED
    BY <2>1, <2>2, UsesKept DEF IInv, Typed
<1>13. BuffersInv'
  BY <1>1 DEF IInv, BuffersInv, tlasVars, deviceVars
<1>14. SceneInv'
  <2>1. ASSUME NEW i \in DOMAIN bottom_level_as \ blas_update_indices', failures = 0,
               phase # "destructed", InUse(i)'
        PROVE  bottom_level_as'[i].handle \in built
    <3>1. i # h.id
      BY <1>3, <1>4, <2>1 DEF InUse
    <3> QED
      BY <1>1, <1>4, <2>1, <3>1 DEF IInv, SceneInv, InUse
  <2> QED
    BY <1>1, <1>4, <2>1 DEF IInv, SceneInv, frameVars, tlasVars, deviceVars, instanceVars
<1> QED
  BY <1>6, <1>7, <1>8, <1>11, <1>12, <1>13, <1>14 DEF IInv

-----------------------------------------------------------------------------
(* Instances.                                                               *)

(* What is about the BLASes, the objects and the frames when only instances  *)
(* change.                                                                   *)
LEMMA InstancesOnly ==
  ASSUME IInv, calls' \in 0 .. MaxCalls, created' \in [Kinds -> Nat],
         \A k \in Kinds \ {"instance"} : created'[k] = created[k],
         created'["instance"] >= created["instance"],
         tlas_outdated' = TRUE, instances' \in Seq(Instances),
         given \subseteq given', \A h \in given' \ given : h.kind = "instance",
         UNCHANGED <<blasVars, tlasVars, live, pending, frameVars, deviceVars, misused, failureVars>>
  PROVE  /\ BlasTyped' /\ InstanceTyped' /\ TlasTyped' /\ ObjectsTyped' /\ FrameTyped' /\ DeviceTyped'
         /\ BlasesInv' /\ ObjectsInv' /\ UsesInv' /\ BuffersInv' /\ SceneInv'
<1>1. BlasTyped' /\ InstanceTyped' /\ TlasTyped' /\ ObjectsTyped' /\ FrameTyped' /\ DeviceTyped'
  BY DEF IInv, Typed, BlasTyped, InstanceTyped, TlasTyped, ObjectsTyped, FrameTyped, DeviceTyped,
     blasVars, tlasVars, frameVars, deviceVars, failureVars
<1>2. BlasesInv'
  <2>1. \A h \in Current' : h.kind = "blas" => h \in Current
    BY DEF Current, frameVars
  <2> QED
    BY <2>1 DEF IInv, BlasesInv, Free, InUse, blasVars
<1>4. \A k \in Kinds : created'[k] >= created[k]
  <2>1. created["instance"] \in Nat /\ \A k \in Kinds : created[k] \in Nat
    BY DEF IInv, Typed, ObjectsTyped, Kinds
  <2> QED
    BY <2>1
<1>5. ObjectsInv'
  BY <1>4, ObjectsSame DEF IInv, Typed, blasVars, frameVars
<1>6. UsesInv'
  <2>1. \A f \in FrameSlots : Begun(f)' = Begun(f)
    BY BegunSame
  <2>2. pending' = pending \union Defer({}) /\ live \subseteq live' /\ UNCHANGED <<uses, misused, failures>>
    BY DeferNothing DEF deviceVars, frameVars
  <2> QED
    BY <2>1, <2>2, UsesKept DEF IInv, Typed
<1>7. BuffersInv'
  <2>1. created'["instances"] = created["instances"]
    BY DEF Kinds
  <2> QED
    BY <2>1 DEF IInv, BuffersInv, tlasVars, deviceVars
<1>8. SceneInv'
  BY DEF IInv, SceneInv, InUse, blasVars, tlasVars, frameVars, deviceVars
<1> QED
  BY <1>1, <1>2, <1>5, <1>6, <1>7, <1>8

LEMMA AddInstanceKeeps ==
  ASSUME IInv, calls' \in 0 .. MaxCalls, phase # "destructed", NEW b \in BlasHandles,
         NEW transform \in Transforms, AddInstance(b, transform)
  PROVE  IInv'
<1> DEFINE index == Index(free_instance_indices, instances)
           e == [blas |-> bottom_level_as[b.id].handle, transform |-> transform]
           h == [kind |-> "instance", id |-> index, generation |-> instance_generations'[index]]
<1>1. /\ created' = [created EXCEPT !["instance"] = @ + 1]
      /\ instances' = Stored(instances, index, e)
      /\ instance_generations' = Generations(instance_generations, index)
      /\ free_instance_indices' = Remaining(free_instance_indices)
      /\ tlas_outdated' = TRUE
      /\ given' = given \union {h}
      /\ UNCHANGED <<blasVars, tlasVars, live, pending, frameVars, deviceVars, removed, misused,
                     failureVars>>
  BY DEF AddInstance
<1>2. e \in Instances
  <2>1. bottom_level_as[b.id].handle \in Of("blas")
    BY HandlesLead, Elements DEF IInv, Typed
  <2> QED
    BY <2>1 DEF Instances
<1> HIDE DEF e, index
<1>3. /\ Current = given /\ Current' = given'
  BY <1>1 DEF Current, frameVars
<1>4. Slots("instance", given, removed, DOMAIN instances, instance_generations, free_instance_indices)
  BY <1>3 DEF IInv, HandlesInv, InstanceSlots
<1>5. instances \in Seq(Instances) /\ removed \subseteq given
  BY DEF IInv, Typed, InstanceTyped, GivenTyped
<1>6. instances' \in Seq(Instances)
  <2>1. Reused(DOMAIN instances, instance_generations, free_instance_indices)
    BY <1>4 DEF Slots
  <2>2. Taken(Instances, instances, e, instance_generations, free_instance_indices, index)
    BY <1>2, <1>5, <2>1, TakenIndex DEF index
  <2> QED
    BY <1>1, <2>2 DEF Taken
<1>7. h \notin given /\ h \in Handles /\ InstanceSlots'
  <2>1. h = [kind |-> "instance", id |-> index, generation |-> Generations(instance_generations, index)[index]]
    BY <1>1
  <2>2. /\ h \notin given /\ h.id \in Nat /\ h.generation \in Nat
        /\ Slots("instance", given \union {h}, removed, DOMAIN Stored(instances, index, e),
                 Generations(instance_generations, index), Remaining(free_instance_indices))
    <3> HIDE DEF h
    <3>1. Gives("instance", given, removed, instances, e, instance_generations,
                free_instance_indices, index, h)
      BY <1>2, <1>4, <1>5, <2>1, SlotsTake DEF index
    <3> QED
      BY <3>1 DEF Gives
  <2> QED
    BY <1>1, <1>3, <2>2 DEF InstanceSlots, Handles
<1>8. /\ created' \in [Kinds -> Nat]
      /\ \A k \in Kinds \ {"instance"} : created'[k] = created[k]
      /\ created'["instance"] = created["instance"] + 1
      /\ created["instance"] \in Nat /\ created["scratch"] \in Nat
      /\ created'["scratch"] = created["scratch"]
  BY <1>1 DEF IInv, Typed, ObjectsTyped, Kinds
<1>9. HandlesInv'
  <2>1. BlasSlots'
    <3>1. Slots("blas", given, removed, DOMAIN bottom_level_as, blas_generations, free_blas_indices)
      BY <1>3 DEF IInv, HandlesInv, BlasSlots
    <3>2. h.kind # "blas"
      OBVIOUS
    <3> HIDE DEF h
    <3>3. Slots("blas", given \union {h}, removed, DOMAIN bottom_level_as, blas_generations,
                free_blas_indices)
      BY <3>1, <3>2, SlotsOther
    <3> QED
      BY <1>1, <1>3, <3>3 DEF BlasSlots, blasVars
  <2>2. Counted'
    <3>1. IsFiniteSet(given) /\ Cardinality(given) = created["scratch"] + created["instance"]
      BY DEF IInv, HandlesInv, Counted
    <3>2. IsFiniteSet(given \union {h}) /\ Cardinality(given \union {h}) = Cardinality(given) + 1
      BY <1>7, <3>1, FS_AddElement
    <3>3. IsFiniteSet(given') /\ Cardinality(given') = created["scratch"] + created["instance"] + 1
      BY <1>1, <3>1, <3>2
    <3> QED
      BY <1>8, <3>3 DEF Counted
  <2> QED
    BY <1>7, <2>1, <2>2 DEF HandlesInv
<1>10. GivenTyped'
  BY <1>1, <1>7 DEF IInv, Typed, GivenTyped
<1>11. /\ BlasTyped' /\ InstanceTyped' /\ TlasTyped' /\ ObjectsTyped' /\ FrameTyped' /\ DeviceTyped'
       /\ BlasesInv' /\ ObjectsInv' /\ UsesInv' /\ BuffersInv' /\ SceneInv'
  <2>1. /\ created'["instance"] >= created["instance"]
        /\ given \subseteq given' /\ \A g \in given' \ given : g.kind = "instance"
    BY <1>1, <1>8
  <2> QED
    BY <1>1, <1>6, <1>8, <2>1, InstancesOnly
<1> QED
  BY <1>9, <1>10, <1>11 DEF IInv, Typed

LEMMA ChangeInstanceKeeps ==
  ASSUME IInv, calls' \in 0 .. MaxCalls, phase # "destructed", NEW h \in InstanceHandles,
         NEW instance \in Instances, ChangeInstance(h, instance)
  PROVE  IInv'
<1>1. /\ instances' = [instances EXCEPT ![h.id] = instance]
      /\ tlas_outdated' = TRUE
      /\ UNCHANGED <<blasVars, instance_generations, free_instance_indices, tlasVars, created,
                     live, pending, frameVars, deviceVars, historyVars>>
  BY DEF ChangeInstance
<1>2. instances' \in Seq(Instances) /\ DOMAIN instances' = DOMAIN instances
  <2>1. h.id \in DOMAIN instances /\ instances \in Seq(Instances)
    BY HandlesLead DEF IInv, Typed, InstanceTyped
  <2> QED
    BY <1>1, <2>1, WriteSeq
<1>3. HandlesInv'
  <2>1. bottom_level_as' = bottom_level_as
    BY <1>1 DEF blasVars
  <2> QED
    BY <1>1, <1>2, <2>1, HandlesKept DEF IInv, blasVars, historyVars, frameVars
<1>4. GivenTyped'
  BY <1>1 DEF IInv, Typed, GivenTyped, historyVars
<1>5. /\ BlasTyped' /\ InstanceTyped' /\ TlasTyped' /\ ObjectsTyped' /\ FrameTyped' /\ DeviceTyped'
      /\ BlasesInv' /\ ObjectsInv' /\ UsesInv' /\ BuffersInv' /\ SceneInv'
  <2>1. /\ created' \in [Kinds -> Nat] /\ created'["instance"] >= created["instance"]
        /\ \A k \in Kinds \ {"instance"} : created'[k] = created[k]
    BY <1>1 DEF IInv, Typed, ObjectsTyped, Kinds
  <2> QED
    BY <1>1, <1>2, <2>1, InstancesOnly DEF historyVars
<1> QED
  BY <1>3, <1>4, <1>5 DEF IInv, Typed

LEMMA UpdateInstanceKeeps ==
  ASSUME IInv, calls' \in 0 .. MaxCalls, phase # "destructed", NEW h \in InstanceHandles,
         NEW transform \in Transforms, UpdateInstance(h, transform)
  PROVE  IInv'
<1>1. instances[h.id] \in Instances
  BY HandlesLead DEF IInv, Typed, InstanceTyped
<1>2. [instances[h.id] EXCEPT !.transform = transform] \in Instances
  BY <1>1 DEF Instances
<1> QED
  BY <1>2, ChangeInstanceKeeps DEF UpdateInstance

LEMMA SetInstanceBlasKeeps ==
  ASSUME IInv, calls' \in 0 .. MaxCalls, phase # "destructed", NEW h \in InstanceHandles,
         NEW b \in BlasHandles, SetInstanceBlas(h, b)
  PROVE  IInv'
<1>1. instances[h.id] \in Instances
  BY HandlesLead DEF IInv, Typed, InstanceTyped
<1>2. bottom_level_as[b.id].handle \in Of("blas")
  BY HandlesLead, Elements DEF IInv, Typed
<1>3. [instances[h.id] EXCEPT !.blas = bottom_level_as[b.id].handle] \in Instances
  BY <1>1, <1>2 DEF Instances
<1> QED
  BY <1>3, ChangeInstanceKeeps DEF SetInstanceBlas

LEMMA RemoveInstanceKeeps ==
  ASSUME IInv, calls' \in 0 .. MaxCalls, phase # "destructed", NEW h \in InstanceHandles,
         RemoveInstance(h)
  PROVE  IInv'
<1>1. /\ instances' = [instances EXCEPT ![h.id] = NoInstance]
      /\ instance_generations' = [instance_generations EXCEPT ![h.id] = @ + 1]
      /\ free_instance_indices' = Append(free_instance_indices, h.id)
      /\ removed' = removed \union {h}
      /\ tlas_outdated' = TRUE
      /\ UNCHANGED <<blasVars, tlasVars, created, live, pending, frameVars, deviceVars,
                     given, misused, failureVars>>
  BY DEF RemoveInstance
<1>2. /\ h \in given /\ h.kind = "instance" /\ h.id \in DOMAIN instances
      /\ h.generation = instance_generations[h.id]
  BY HandlesLead
<1>3. instances' \in Seq(Instances) /\ DOMAIN instances' = DOMAIN instances
  <2>1. NoInstance \in Instances
    BY DEF NoInstance, Instances, Of
  <2>2. instances \in Seq(Instances)
    BY DEF IInv, Typed, InstanceTyped
  <2> QED
    BY <1>1, <1>2, <2>1, <2>2, WriteSeq
<1>4. HandlesInv'
  <2>1. Current = given /\ Current' = given
    BY <1>1 DEF Current, frameVars
  <2>2. \A g \in given : g = [kind |-> g.kind, id |-> g.id, generation |-> g.generation]
    BY DEF IInv, Typed, GivenTyped, Handles
  <2>3. InstanceSlots'
    <3>1. Slots("instance", given, removed, DOMAIN instances, instance_generations, free_instance_indices)
      BY <2>1 DEF IInv, HandlesInv, InstanceSlots
    <3>2. Slots("instance", given, removed \union {h}, DOMAIN instances,
                [instance_generations EXCEPT ![h.id] = @ + 1], Append(free_instance_indices, h.id))
      BY <1>2, <2>2, <3>1, SlotsGiveBack
    <3> QED
      BY <1>1, <1>3, <2>1, <3>2 DEF InstanceSlots
  <2>4. BlasSlots'
    <3>1. Slots("blas", given, removed, DOMAIN bottom_level_as, blas_generations, free_blas_indices)
      BY <2>1 DEF IInv, HandlesInv, BlasSlots
    <3>2. Slots("blas", given, removed \union {h}, DOMAIN bottom_level_as, blas_generations,
                free_blas_indices)
      BY <1>2, <3>1, SlotsOther
    <3> QED
      BY <1>1, <2>1, <3>2 DEF BlasSlots, blasVars
  <2> QED
    BY <1>1, <2>3, <2>4 DEF IInv, HandlesInv, Counted
<1>5. GivenTyped'
  BY <1>1, <1>2 DEF IInv, Typed, GivenTyped
<1>6. /\ BlasTyped' /\ InstanceTyped' /\ TlasTyped' /\ ObjectsTyped' /\ FrameTyped' /\ DeviceTyped'
      /\ BlasesInv' /\ ObjectsInv' /\ UsesInv' /\ BuffersInv' /\ SceneInv'
  <2>1. /\ created' \in [Kinds -> Nat] /\ created'["instance"] >= created["instance"]
        /\ \A k \in Kinds \ {"instance"} : created'[k] = created[k]
    BY <1>1 DEF IInv, Typed, ObjectsTyped, Kinds
  <2> QED
    BY <1>1, <1>3, <2>1, InstancesOnly
<1> QED
  BY <1>4, <1>5, <1>6 DEF IInv, Typed

-----------------------------------------------------------------------------
(* Frames.                                                                  *)

LEMMA BeginFrameKeeps ==
  ASSUME IInv, UNCHANGED calls, BeginFrame
  PROVE  IInv'
<1> DEFINE due == {pd \in pending : Due(pd)}
<1>1. /\ phase \in {"outside", "destructed"}
      /\ global_frame_counter < MaxFrames
      /\ global_frame_counter' = global_frame_counter + 1
      /\ pending' = pending \ due
      /\ live' = live \ {pd.object : pd \in due}
      /\ uses' = [uses EXCEPT ![current_frame] = {}]
      /\ phase' = IF phase = "outside" THEN "begun" ELSE phase
      /\ current_frame' = IF phase = "outside" THEN current_frame ELSE NextSlot
      /\ UNCHANGED <<blasVars, instanceVars, tlasVars, tlas_outdated, created, failures,
                     built, tlas_contents, historyVars>>
  BY DEF BeginFrame
<1>2. FrameTyped /\ current_frame \in FrameSlots
  BY DEF IInv, Typed, FrameTyped
<1>3. Typed'
  <2>1. FrameTyped'
    <3>1. current_frame' \in FrameSlots
      BY <1>1, <1>2, NextDistance
    <3>2. global_frame_counter' \in 0 .. MaxFrames
      BY <1>1, <1>2, BoundsAssumption DEF FrameTyped
    <3> QED
      BY <1>1, <1>2, <3>1, <3>2 DEF FrameTyped
  <2>2. ObjectsTyped' /\ DeviceTyped'
    BY <1>1 DEF IInv, Typed, ObjectsTyped, DeviceTyped, historyVars, failureVars
  <2>3. BlasTyped' /\ InstanceTyped' /\ TlasTyped' /\ GivenTyped'
    BY <1>1 DEF IInv, Typed, BlasTyped, InstanceTyped, TlasTyped, GivenTyped, blasVars,
         instanceVars, tlasVars, historyVars
  <2> QED
    BY <2>1, <2>2, <2>3 DEF Typed
<1>4. HandlesInv'
  <2>1. phase' = "destructed" <=> phase = "destructed"
    BY <1>1
  <2> QED
    BY <1>1, <2>1, HandlesKept DEF IInv, blasVars, instanceVars, historyVars
<1>5. BlasesInv'
  BY <1>1, BlasesKept DEF IInv, historyVars
<1>7. \A pd \in pending : pd \in due <=> Due(pd)
  OBVIOUS
<1>8. due \subseteq pending
  OBVIOUS
<1> HIDE DEF due
<1>9. ObjectsInv'
  <2>1. Owned' = Owned
    BY <1>1, OwnedSame DEF blasVars, tlasVars
  <2>2. Accounted'
    BY <1>1, <1>8, <2>1, Flushed DEF IInv, ObjectsInv, historyVars
  <2>3. OwnedOnce'
    BY <1>1, OwnedOnceSame DEF IInv, ObjectsInv, blasVars, tlasVars
  <2>4. Numbered' /\ Unfailed'
    BY <1>1 DEF IInv, ObjectsInv, Numbered, Unfailed, historyVars, failureVars
  <2> QED
    BY <2>2, <2>3, <2>4 DEF ObjectsInv
<1>10. UsesInv'
  <2> SUFFICES ASSUME failures = 0, NEW f \in FrameSlots, NEW o \in uses'[f] \ misused
               PROVE  /\ o \in live'
                      /\ \A p \in pending' : p.object = o => p.requested_at_frame >= Begun(f)'
    BY <1>1 DEF UsesInv, historyVars
  <2>1. f # current_frame /\ o \in uses[f]
    BY <1>1, <1>2 DEF IInv, Typed, DeviceTyped
  <2>2. /\ global_frame_counter \in Nat /\ frames_in_flight \in Nat
        /\ Distance(f) \in Nat /\ Distance(f) <= frames_in_flight - 1
    BY <1>2, <2>1, SlotDistance
  <2>3. Begun(f) = global_frame_counter + 1 - Distance(f)
    BY <1>1 DEF Begun
  <2>4. Begun(f)' = Begun(f)
    <3>1. CASE phase = "outside"
      <4>1. Distance(f)' = Distance(f) /\ f # current_frame' /\ phase' = "begun"
        BY <1>1, <2>1, <3>1 DEF Distance
      <4>2. Begun(f)' = global_frame_counter' - Distance(f)'
        BY <4>1 DEF Begun
      <4> QED
        BY <1>1, <2>2, <2>3, <4>1, <4>2
    <3>2. CASE phase = "destructed"
      <4>1. Distance(f)' = Distance(f) + 1
        BY <1>1, <1>2, <2>1, <3>2, NextDistance
      <4>2. Begun(f)' = global_frame_counter + 1 + 1 - (Distance(f) + 1)
        BY <1>1, <3>2, <4>1 DEF Begun
      <4> QED
        BY <2>2, <2>3, <4>2
    <3> QED
      BY <1>1, <3>1, <3>2
  <2>5. o \in live /\ \A p \in pending : p.object = o => p.requested_at_frame >= Begun(f)
    BY <2>1 DEF IInv, UsesInv
  <2>6. \A p \in pending : p.object = o => ~Due(p)
    <3> SUFFICES ASSUME NEW p \in pending, p.object = o
                 PROVE  ~Due(p)
      OBVIOUS
    <3>1. p.requested_at_frame \in Nat
      BY BoundsAssumption DEF IInv, Typed, ObjectsTyped, Deferred
    <3> QED
      BY <1>1, <2>2, <2>3, <2>5, <3>1 DEF Due
  <2>7. o \in live'
    BY <1>1, <1>7, <1>8, <2>5, <2>6
  <2> QED
    BY <1>1, <2>4, <2>5, <2>7
<1>11. BuffersInv'
  <2>1. \A g \in FrameSlots : uses'[g] \subseteq uses[g]
    BY <1>1, <1>2 DEF IInv, Typed, DeviceTyped
  <2> QED
    BY <1>1, <2>1 DEF IInv, BuffersInv, tlasVars
<1>12. SceneInv'
  BY <1>1 DEF IInv, SceneInv, InUse, blasVars, instanceVars, tlasVars
<1> QED
  BY <1>3, <1>4, <1>5, <1>9, <1>10, <1>11, <1>12 DEF IInv

(* Only something kept is to be destroyed again, so something has failed     *)
(* before.                                                                   *)
LEMMA FlushThrowsKeeps ==
  ASSUME IInv, UNCHANGED calls, FlushThrows
  PROVE  IInv'
<1>1. PICK again \in pending, flushed \in SUBSET pending :
        again.again /\ pending' = pending \ flushed /\ live' = live \ {pd.object : pd \in flushed}
  BY DEF FlushThrows
<1>2. /\ global_frame_counter < MaxFrames /\ global_frame_counter' = global_frame_counter + 1
      /\ uses' = [uses EXCEPT ![current_frame] = {}]
      /\ UNCHANGED <<blasVars, instanceVars, tlasVars, tlas_outdated, created, current_frame, phase,
                     failures, built, tlas_contents, historyVars>>
  BY DEF FlushThrows
<1>3. failures # 0
  BY <1>1 DEF IInv, ObjectsInv, Accounted, Unfailed
<1>4. Typed'
  <2>1. FrameTyped'
    <3>1. global_frame_counter' \in 0 .. MaxFrames
      BY <1>2, BoundsAssumption DEF IInv, Typed, FrameTyped
    <3> QED
      BY <1>2, <3>1 DEF IInv, Typed, FrameTyped
  <2>2. ObjectsTyped' /\ DeviceTyped'
    BY <1>1, <1>2 DEF IInv, Typed, ObjectsTyped, DeviceTyped, historyVars, failureVars
  <2>3. BlasTyped' /\ InstanceTyped' /\ TlasTyped' /\ GivenTyped'
    BY <1>2 DEF IInv, Typed, BlasTyped, InstanceTyped, TlasTyped, GivenTyped, blasVars,
         instanceVars, tlasVars, historyVars
  <2> QED
    BY <2>1, <2>2, <2>3 DEF Typed
<1>5. HandlesInv' /\ BlasesInv'
  BY <1>2, HandlesKept, BlasesKept DEF IInv, blasVars, instanceVars, historyVars
<1>6. ObjectsInv'
  <2>1. Owned' = Owned
    BY <1>2, OwnedSame DEF blasVars, tlasVars
  <2>2. Accounted'
    BY <1>1, <1>2, <2>1, Flushed DEF IInv, ObjectsInv, historyVars
  <2>3. OwnedOnce'
    BY <1>2, OwnedOnceSame DEF IInv, ObjectsInv, blasVars, tlasVars
  <2>4. Numbered' /\ Unfailed'
    BY <1>1, <1>2 DEF IInv, ObjectsInv, Numbered, Unfailed, historyVars, failureVars
  <2> QED
    BY <2>2, <2>3, <2>4 DEF ObjectsInv
<1>7. UsesInv' /\ SceneInv'
  BY <1>2, <1>3 DEF UsesInv, SceneInv
<1>8. BuffersInv'
  <2>1. \A g \in FrameSlots : uses'[g] \subseteq uses[g]
    BY <1>2 DEF IInv, Typed, DeviceTyped, FrameTyped
  <2> QED
    BY <1>2, <2>1 DEF IInv, BuffersInv, tlasVars
<1> QED
  BY <1>4, <1>5, <1>6, <1>7, <1>8 DEF IInv

LEMMA EndFrameKeeps ==
  ASSUME IInv, UNCHANGED calls, EndFrame
  PROVE  IInv'
<1>1. /\ phase = "frame" /\ phase' = "outside" /\ current_frame' = NextSlot
      /\ UNCHANGED <<blasVars, instanceVars, tlasVars, tlas_outdated, created, live, pending,
                     global_frame_counter, failures, deviceVars, historyVars>>
  BY DEF EndFrame
<1>2. FrameTyped
  BY DEF IInv, Typed
<1>3. Typed'
  <2>1. FrameTyped'
    BY <1>1, <1>2, NextDistance DEF FrameTyped
  <2>2. /\ BlasTyped' /\ InstanceTyped' /\ TlasTyped' /\ ObjectsTyped' /\ DeviceTyped' /\ GivenTyped'
    BY <1>1 DEF IInv, Typed, BlasTyped, InstanceTyped, TlasTyped, ObjectsTyped, DeviceTyped,
         GivenTyped, blasVars, instanceVars, tlasVars, historyVars, failureVars, deviceVars
  <2> QED
    BY <2>1, <2>2 DEF Typed
<1>4. HandlesInv'
  BY <1>1, HandlesKept DEF IInv, blasVars, instanceVars, historyVars
<1>5. BlasesInv'
  BY <1>1, BlasesKept DEF IInv, historyVars
<1>6. ObjectsInv'
  BY <1>1, CreatedSame, ObjectsSame DEF IInv, Typed, blasVars, historyVars
<1>7. UsesInv'
  <2>1. ASSUME NEW f \in FrameSlots
        PROVE  Begun(f)' = Begun(f)
    <3>1. Begun(f) = IF f = current_frame THEN global_frame_counter ELSE global_frame_counter - Distance(f)
      BY <1>1 DEF Begun
    <3>2. Begun(f)' = global_frame_counter + 1 - Distance(f)'
      BY <1>1 DEF Begun
    <3>3. /\ Distance(f)' = IF f = current_frame THEN 1 ELSE Distance(f) + 1
          /\ Distance(f) \in Nat /\ global_frame_counter \in Nat
      BY <1>1, <1>2, NextDistance, SlotDistance
    <3> QED
      BY <3>1, <3>2, <3>3
  <2>2. pending' = pending \union Defer({}) /\ live \subseteq live' /\ UNCHANGED <<uses, misused, failures>>
    BY <1>1, DeferNothing DEF deviceVars, historyVars
  <2> QED
    BY <1>2, <2>1, <2>2, UsesKept DEF IInv
<1>8. BuffersInv'
  BY <1>1 DEF IInv, BuffersInv, tlasVars, deviceVars
<1>9. SceneInv'
  BY <1>1 DEF IInv, SceneInv, InUse, blasVars, instanceVars, tlasVars, deviceVars
<1> QED
  BY <1>3, <1>4, <1>5, <1>6, <1>7, <1>8, <1>9 DEF IInv

LEMMA DestructKeeps ==
  ASSUME IInv, UNCHANGED calls, Destruct
  PROVE  IInv'
<1>1. /\ phase = "outside"
      /\ pending' = pending \union Defer(Owned)
      /\ bottom_level_as' = <<>> /\ blas_generations' = <<>> /\ free_blas_indices' = <<>>
      /\ blas_update_indices' = {}
      /\ instances' = <<>> /\ instance_generations' = <<>> /\ free_instance_indices' = <<>>
      /\ instance_buffers' = [f \in FrameSlots |-> NoBuffer]
      /\ tlas' = NoTLAS /\ tlas_outdated' = FALSE /\ phase' = "destructed"
      /\ UNCHANGED <<created, live, global_frame_counter, current_frame, failures, deviceVars,
                     historyVars>>
  BY DEF Destruct
<1>2. /\ \A S : <<>> \in Seq(S)
      /\ DOMAIN <<>> = {}
  OBVIOUS
<1>3. NoBuffer = [buffer |-> None, count |-> 0] /\ NoTLAS = [handle |-> None, primitive_count |-> 0, ready |-> FALSE]
  BY DEF NoBuffer, NoTLAS, TLAS
<1>4. None \in Of("instances") /\ None \in Of("tlas")
  BY DEF Of
<1>5. None \notin Owned /\ Owned \subseteq Objects
  BY OwnedOf, OwnedParts DEF IInv, Typed, Objects
<1>6. Typed'
  <2>1. TlasTyped'
    BY <1>1, <1>3, <1>4 DEF TlasTyped
  <2>2. BlasTyped' /\ InstanceTyped'
    BY <1>1, <1>2 DEF BlasTyped, InstanceTyped
  <2>3. ObjectsTyped'
    <3>1. Defer(Owned) \subseteq Deferred
      BY <1>5, DeferTyped DEF IInv, Typed
    <3> QED
      BY <1>1, <3>1 DEF IInv, Typed, ObjectsTyped, historyVars, failureVars
  <2>4. FrameTyped' /\ DeviceTyped' /\ GivenTyped'
    BY <1>1 DEF IInv, Typed, FrameTyped, DeviceTyped, GivenTyped, deviceVars, historyVars
  <2> QED
    BY <2>1, <2>2, <2>3, <2>4 DEF Typed
<1>7. HandlesInv'
  <2>1. Current' = {}
    BY <1>1 DEF Current
  <2>2. \A kind : Slots(kind, {}, removed, {}, <<>>, <<>>)
    BY <1>2 DEF Slots, Reused
  <2>3. BlasSlots' /\ InstanceSlots'
    BY <1>1, <1>2, <2>1, <2>2 DEF BlasSlots, InstanceSlots, historyVars
  <2> QED
    BY <1>1, <2>3 DEF IInv, HandlesInv, Counted, historyVars
<1>8. DOMAIN bottom_level_as' = {}
  BY <1>1, <1>2
<1>9. BlasesInv'
  BY <1>1, <1>8 DEF BlasesInv, Current
<1>10. \A f \in FrameSlots : instance_buffers'[f].buffer = None
  BY <1>1, <1>3
<1>11. Owned' = {}
  <2>1. BlasesOwned' = {} /\ ScratchesOwned' = {}
    BY <1>8 DEF BlasesOwned, ScratchesOwned
  <2>2. BuffersOwned' \subseteq {None}
    BY <1>10 DEF BuffersOwned
  <2>3. tlas'.handle = None
    BY <1>1, <1>3
  <2> QED
    BY <2>1, <2>2, <2>3, OwnedParts
<1>12. ObjectsInv'
  <2>1. OwnedOnce'
    BY <1>8, <1>10 DEF OwnedOnce
  <2>2. Accounted'
    <3>1. /\ Owned' = (Owned \ (Owned \ {})) \union {}
          /\ ({} \union {}) \intersect (live \union kept) = {}
          /\ live' = live \union {} \union {}
          /\ kept' = kept \union ({} \ {None}) /\ lost' = lost \union {}
          /\ Owned \ {None} \subseteq Owned /\ {} \subseteq Owned
      BY <1>1, <1>11 DEF historyVars, failureVars
    <3> QED
      BY <1>1, <3>1, OwnersChange DEF IInv, ObjectsInv
  <2>3. Numbered' /\ Unfailed'
    BY <1>1 DEF IInv, ObjectsInv, Numbered, Unfailed, historyVars, failureVars
  <2> QED
    BY <2>1, <2>2, <2>3 DEF ObjectsInv
<1>13. UsesInv'
  <2>1. \A f \in FrameSlots : Begun(f)' = Begun(f)
    BY <1>1 DEF Begun, Distance
  <2>2. live \subseteq live' /\ UNCHANGED <<uses, misused, failures>>
    BY <1>1 DEF deviceVars, historyVars
  <2> QED
    BY <1>1, <2>1, <2>2, UsesKept DEF IInv, Typed
<1>14. BuffersInv'
  <2>1. uses' = uses /\ created' = created
    BY <1>1 DEF deviceVars
  <2>2. \A g \in FrameSlots : None \notin uses[g]
    BY NoneAssumption DEF IInv, Typed, DeviceTyped
  <2> QED
    BY <1>10, <2>1, <2>2 DEF IInv, BuffersInv
<1>15. SceneInv'
  BY <1>1 DEF SceneInv
<1> QED
  BY <1>6, <1>7, <1>9, <1>12, <1>13, <1>14, <1>15 DEF IInv

-----------------------------------------------------------------------------
(* Building.                                                                *)

(* What begin_frame does, however far it gets: w says whether the slot gets  *)
(* another buffer of instances, T is the new TLAS that it keeps, L the one   *)
(* that it loses, and K the buffer it gives away and keeps.                  *)
LetGo(w, K) == Scratched \union Replaced \union (IF w THEN {Slot.buffer} ELSE K)
Written(w) == IF w THEN {New("instances")} ELSE {}

Builds(w, T, L, K) ==
  /\ BuildBlases
  /\ T \union L \subseteq NewTlas /\ T \intersect L = {}
  /\ NeedsNewTlas => {tlas'.handle} \ {None} = T
  /\ ~NeedsNewTlas => tlas'.handle = tlas.handle
  /\ tlas' \in [handle : Of("tlas"), primitive_count : Nat, ready : BOOLEAN]
  /\ tlas_outdated' \in BOOLEAN
  /\ instance_buffers' =
       IF w THEN [instance_buffers EXCEPT ![current_frame] =
                    [buffer |-> New("instances"), count |-> Count]]
       ELSE instance_buffers
  /\ K \subseteq {Slot.buffer} \ {None} /\ (w => K = {})
  /\ created' \in [Kinds -> Nat]
  /\ \A k \in Kinds : created'[k] = IF (k = "tlas" /\ T \union L # {}) \/ (k = "instances" /\ w)
                                    THEN created[k] + 1 ELSE created[k]
  /\ live' = live \union (T \union Written(w)) \union L
  /\ pending' = pending \union Defer(LetGo(w, K))
  /\ kept' = kept \union K
  /\ lost' = lost \union L

LEMMA CountsOne ==
  \A e : Cardinality({e}) = 1 /\ Cardinality({}) = 0
BY FS_EmptySet, FS_Singleton

LEMMA NextTlasTyped ==
  ASSUME IInv
  PROVE  /\ NextTlas \in [handle : Of("tlas"), primitive_count : Nat, ready : BOOLEAN]
         /\ NeedsNewTlas => {NextTlas.handle} \ {None} = NewTlas
         /\ ~NeedsNewTlas => NextTlas = tlas
         /\ TLAS(None, Len(instances), FALSE) \in
              [handle : Of("tlas"), primitive_count : Nat, ready : BOOLEAN]
         /\ TLAS(New("tlas"), Len(instances), FALSE) \in
              [handle : Of("tlas"), primitive_count : Nat, ready : BOOLEAN]
         /\ TLAS(None, Len(instances), FALSE).handle = None
         /\ TLAS(New("tlas"), Len(instances), FALSE).handle = New("tlas")
<1>1. Len(instances) \in Nat
  BY DEF IInv, Typed, InstanceTyped
<1>2. New("tlas") \in Of("tlas") /\ New("tlas") # None /\ None \in Of("tlas")
  BY NewIsNew DEF IInv, Typed, ObjectsInv, Of
<1>3. tlas \in [handle : Of("tlas"), primitive_count : Nat, ready : BOOLEAN]
  BY DEF IInv, Typed, TlasTyped
<1> QED
  BY <1>1, <1>2, <1>3 DEF NextTlas, NewTlas, TLAS

LEMMA CreatedTyped ==
  ASSUME ObjectsTyped, NEW m \in Nat, NEW n \in Nat,
         created' = [created EXCEPT !["tlas"] = @ + m, !["instances"] = @ + n]
  PROVE  /\ created' \in [Kinds -> Nat]
         /\ \A k \in Kinds : created'[k] = IF k = "tlas" THEN created[k] + m
                                           ELSE IF k = "instances" THEN created[k] + n
                                           ELSE created[k]
<1>1. created \in [Kinds -> Nat] /\ "tlas" \in Kinds /\ "instances" \in Kinds
  BY DEF ObjectsTyped, Kinds
<1>2. created["tlas"] + m \in Nat /\ created["instances"] + n \in Nat
  BY <1>1
<1> QED
  BY <1>1, <1>2

LEMMA RecordBuilds ==
  ASSUME IInv, Record
  PROVE  Builds(~Fits, NewTlas, {}, {})
<1> DEFINE old == IF Fits THEN {} ELSE {Slot.buffer}
           new == IF Fits THEN {} ELSE {New("instances")}
<1>1. /\ BuildBlases /\ tlas' = NextTlas /\ tlas_outdated' = FALSE
      /\ instance_buffers' =
           IF Fits THEN instance_buffers
           ELSE [instance_buffers EXCEPT ![current_frame] =
                   [buffer |-> New("instances"), count |-> Count]]
      /\ created' = [created EXCEPT !["tlas"] = @ + Cardinality(NewTlas),
                                    !["instances"] = @ + Cardinality(new)]
      /\ live' = live \union NewTlas \union new
      /\ pending' = pending \union Defer(Scratched \union Replaced \union old)
      /\ UNCHANGED failureVars
  BY DEF Record
<1>2. /\ Cardinality(NewTlas) = IF NewTlas = {} THEN 0 ELSE 1
      /\ Cardinality(new) = IF Fits THEN 0 ELSE 1
  BY CountsOne DEF NewTlas
<1>3. /\ created' \in [Kinds -> Nat]
      /\ \A k \in Kinds :
           created'[k] = IF (k = "tlas" /\ NewTlas \union {} # {}) \/ (k = "instances" /\ ~Fits)
                         THEN created[k] + 1 ELSE created[k]
  <2> HIDE DEF new
  <2>1. Cardinality(NewTlas) \in Nat /\ Cardinality(new) \in Nat
    BY <1>2
  <2>2. /\ created' \in [Kinds -> Nat]
        /\ \A k \in Kinds : created'[k] = IF k = "tlas" THEN created[k] + Cardinality(NewTlas)
                                          ELSE IF k = "instances" THEN created[k] + Cardinality(new)
                                          ELSE created[k]
    BY <1>1, <2>1, CreatedTyped DEF IInv, Typed
  <2>3. \A k \in Kinds : created[k] \in Nat
    BY DEF IInv, Typed, ObjectsTyped
  <2> QED
    BY <1>2, <2>2, <2>3
<1>4. live' = live \union (NewTlas \union Written(~Fits)) \union {}
  BY <1>1 DEF Written
<1>5. pending' = pending \union Defer(LetGo(~Fits, {}))
  <2>1. Scratched \union Replaced \union old = LetGo(~Fits, {})
    BY DEF LetGo
  <2> QED
    BY <1>1, <2>1
<1> QED
  BY <1>1, <1>3, <1>4, <1>5, NextTlasTyped DEF Builds, failureVars

LEMMA CreateTlasThrowsBuilds ==
  ASSUME IInv, CreateTlasThrows
  PROVE  \E T, L : Builds(FALSE, T, L, {})
<1>1. /\ BuildBlases /\ NeedsNewTlas
      /\ pending' = pending \union Defer(Scratched \union Replaced)
      /\ UNCHANGED <<instance_buffers, tlas_outdated, kept>>
      /\ NewTlas = {New("tlas")} /\ New("tlas") # None
  <2>1. New("tlas") # None
    BY NewIsNew DEF IInv, Typed, ObjectsInv
  <2> QED
    BY <2>1 DEF CreateTlasThrows, NewTlas
<1>2. pending' = pending \union Defer(LetGo(FALSE, {}))
  <2>1. Scratched \union Replaced = LetGo(FALSE, {})
    BY DEF LetGo
  <2> QED
    BY <1>1, <2>1
<1>3. tlas_outdated' \in BOOLEAN
  BY <1>1 DEF IInv, Typed, TlasTyped
<1>4. CASE tlas' = TLAS(None, Len(instances), FALSE) /\ UNCHANGED <<created, live, lost>>
  <2>1. created' \in [Kinds -> Nat]
    BY <1>4 DEF IInv, Typed, ObjectsTyped
  <2>2. Builds(FALSE, {}, {}, {})
    BY <1>1, <1>2, <1>3, <1>4, <2>1, NextTlasTyped DEF Builds, Written
  <2> QED
    BY <2>2
<1>5. ASSUME created' = [created EXCEPT !["tlas"] = @ + 1], live' = live \union NewTlas
      PROVE  /\ created' \in [Kinds -> Nat]
             /\ \A k \in Kinds : created'[k] = IF k = "tlas" THEN created[k] + 1 ELSE created[k]
  <2>1. created \in [Kinds -> Nat] /\ created["tlas"] + 1 \in Nat
    BY DEF IInv, Typed, ObjectsTyped, Kinds
  <2> QED
    BY <1>5, <2>1
<1>6. CASE /\ created' = [created EXCEPT !["tlas"] = @ + 1]
           /\ live' = live \union NewTlas
           /\ tlas' = TLAS(None, Len(instances), FALSE) /\ lost' = lost \union NewTlas
  <2>1. Builds(FALSE, {}, NewTlas, {})
    BY <1>1, <1>2, <1>3, <1>5, <1>6, NextTlasTyped DEF Builds, Written
  <2> QED
    BY <2>1
<1>7. CASE /\ created' = [created EXCEPT !["tlas"] = @ + 1]
           /\ live' = live \union NewTlas
           /\ tlas' = TLAS(New("tlas"), Len(instances), FALSE) /\ UNCHANGED lost
  <2>1. Builds(FALSE, NewTlas, {}, {})
    BY <1>1, <1>2, <1>3, <1>5, <1>7, NextTlasTyped DEF Builds, Written
  <2> QED
    BY <2>1
<1> QED
  BY <1>4, <1>6, <1>7 DEF CreateTlasThrows

LEMMA WriteInstancesThrowsBuilds ==
  ASSUME IInv, WriteInstancesThrows
  PROVE  \E K : Builds(FALSE, NewTlas, {}, K)
<1> DEFINE old == IF Stale THEN {} ELSE {Slot.buffer}
           K == old \ {None}
<1>1. /\ BuildBlases /\ tlas' = NextTlas
      /\ created' = [created EXCEPT !["tlas"] = @ + Cardinality(NewTlas)]
      /\ live' = live \union NewTlas
      /\ pending' = pending \union Defer(Scratched \union Replaced \union old)
      /\ kept' = kept \union K
      /\ UNCHANGED <<instance_buffers, tlas_outdated, lost>>
  BY DEF WriteInstancesThrows
<1>2. Cardinality(NewTlas) = IF NewTlas = {} THEN 0 ELSE 1
  BY CountsOne DEF NewTlas
<1>3. /\ created' \in [Kinds -> Nat]
      /\ \A k \in Kinds : created'[k] = IF k = "tlas" /\ NewTlas # {} THEN created[k] + 1
                                        ELSE created[k]
  <2>1. created \in [Kinds -> Nat] /\ \A k \in Kinds : created[k] \in Nat
    BY DEF IInv, Typed, ObjectsTyped
  <2>2. created["tlas"] + Cardinality(NewTlas) \in Nat /\ "tlas" \in Kinds
    BY <1>2, <2>1 DEF Kinds
  <2>3. created' \in [Kinds -> Nat]
    BY <1>1, <2>1, <2>2
  <2>4. ASSUME NEW k \in Kinds
        PROVE  created'[k] = IF k = "tlas" /\ NewTlas # {} THEN created[k] + 1 ELSE created[k]
    <3>1. created'[k] = IF k = "tlas" THEN created[k] + Cardinality(NewTlas) ELSE created[k]
      BY <1>1, <2>1, <2>2
    <3>2. created[k] + 0 = created[k]
      BY <2>1
    <3> QED
      BY <1>2, <3>1, <3>2
  <2> QED
    BY <2>3, <2>4
<1>4. pending' = pending \union Defer(LetGo(FALSE, K))
  <2>1. \A D, E : D \ {None} = E \ {None} => Defer(D) = Defer(E)
    BY DEF Defer
  <2>2. (Scratched \union Replaced \union old) \ {None} = LetGo(FALSE, K) \ {None}
    BY DEF LetGo
  <2> DEFINE D == Scratched \union Replaced \union old
             E == LetGo(FALSE, K)
  <2>3. pending' = pending \union Defer(D) /\ D \ {None} = E \ {None}
    BY <1>1, <2>2
  <2> HIDE DEF D, E
  <2>4. Defer(D) = Defer(E)
    BY <2>1, <2>3
  <2> QED
    BY <2>3, <2>4 DEF E
<1>5. tlas_outdated' \in BOOLEAN
  BY <1>1 DEF IInv, Typed, TlasTyped
<1>6. K \subseteq {Slot.buffer} \ {None}
  OBVIOUS
<1> HIDE DEF K, old
<1>7. Builds(FALSE, NewTlas, {}, K)
  BY <1>1, <1>3, <1>4, <1>5, <1>6, NextTlasTyped DEF Builds, Written
<1> QED
  BY <1>7

LEMMA BuildsMean ==
  ASSUME IInv, NEW w \in BOOLEAN, NEW T, NEW L, NEW K, Builds(w, T, L, K)
  PROVE  /\ bottom_level_as' \in Seq(BLASes) /\ DOMAIN bottom_level_as' = DOMAIN bottom_level_as
         /\ \A i \in DOMAIN bottom_level_as :
              /\ bottom_level_as'[i].handle = bottom_level_as[i].handle
              /\ bottom_level_as'[i].scratch_address = bottom_level_as[i].scratch_address
              /\ bottom_level_as'[i].scratch_buffer =
                   IF i \in blas_update_indices /\ ~bottom_level_as[i].dynamic THEN None
                   ELSE bottom_level_as[i].scratch_buffer
              /\ bottom_level_as[i] = NoBLAS => bottom_level_as'[i] = NoBLAS
         /\ blas_update_indices' = {}
         /\ TlasTyped'
         /\ \A f \in FrameSlots : instance_buffers'[f].buffer =
              IF f = current_frame /\ w THEN New("instances") ELSE instance_buffers[f].buffer
         /\ created["instances"] \in Nat
         /\ created' \in [Kinds -> Nat] /\ \A k \in Kinds : created'[k] >= created[k]
         /\ phase = "begun"
<1>1. New("instances") \in Of("instances")
  BY NewIsNew DEF IInv, Typed, ObjectsInv
<1>2. current_frame \in FrameSlots
  BY DEF IInv, Typed, FrameTyped
<1>3. instance_buffers \in [FrameSlots -> [buffer : Of("instances"), count : Nat]]
  BY DEF IInv, Typed, TlasTyped
<1>5. Count \in Nat
  <2>1. Len(instances) \in Nat
    BY DEF IInv, Typed, InstanceTyped
  <2> QED
    BY <2>1 DEF Count
<1> DEFINE nb == [buffer |-> New("instances"), count |-> Count]
<1>6. instance_buffers' = IF w THEN [instance_buffers EXCEPT ![current_frame] = nb]
                          ELSE instance_buffers
  BY DEF Builds
<1>8. /\ instance_buffers' \in [FrameSlots -> [buffer : Of("instances"), count : Nat]]
      /\ \A f \in FrameSlots : instance_buffers'[f].buffer =
           IF f = current_frame /\ w THEN New("instances") ELSE instance_buffers[f].buffer
  BY <1>1, <1>2, <1>3, <1>5, <1>6
<1>9. TlasTyped'
  BY <1>8 DEF Builds, TlasTyped
<1>10. /\ bottom_level_as' = [i \in DOMAIN bottom_level_as |->
            IF i \in blas_update_indices THEN WithoutScratch(bottom_level_as[i])
            ELSE bottom_level_as[i]]
       /\ blas_update_indices' = {} /\ phase = "begun"
  BY DEF Builds, BuildBlases
<1>11. ASSUME NEW i \in DOMAIN bottom_level_as
       PROVE  /\ bottom_level_as'[i] \in BLASes
              /\ bottom_level_as'[i].handle = bottom_level_as[i].handle
              /\ bottom_level_as'[i].scratch_address = bottom_level_as[i].scratch_address
              /\ bottom_level_as'[i].scratch_buffer =
                   IF i \in blas_update_indices /\ ~bottom_level_as[i].dynamic THEN None
                   ELSE bottom_level_as[i].scratch_buffer
              /\ bottom_level_as[i] = NoBLAS => bottom_level_as'[i] = NoBLAS
  <2>1. bottom_level_as[i] \in BLASes
    BY DEF IInv, Typed, BlasTyped
  <2>2. bottom_level_as'[i] = IF i \in blas_update_indices THEN WithoutScratch(bottom_level_as[i])
                              ELSE bottom_level_as[i]
    BY <1>10
  <2>3. [bottom_level_as[i] EXCEPT !.scratch_buffer = None] \in BLASes
    BY <2>1 DEF BLASes, Of
  <2>4. bottom_level_as[i] = NoBLAS => [bottom_level_as[i] EXCEPT !.scratch_buffer = None] = NoBLAS
    <3>1. \A r, s \in BLASes : /\ r.handle = s.handle /\ r.scratch_buffer = s.scratch_buffer
                               /\ r.scratch_address = s.scratch_address /\ r.dynamic = s.dynamic
                               => r = s
      BY DEF BLASes
    <3>2. NoBLAS.scratch_buffer = None
      BY DEF NoBLAS, BLAS
    <3>3. LET r == [bottom_level_as[i] EXCEPT !.scratch_buffer = None]
          IN /\ r.handle = bottom_level_as[i].handle /\ r.scratch_buffer = None
             /\ r.scratch_address = bottom_level_as[i].scratch_address
             /\ r.dynamic = bottom_level_as[i].dynamic
      BY <2>1 DEF BLASes
    <3> QED
      BY <2>1, <2>3, <3>1, <3>2, <3>3
  <2> QED
    BY <2>1, <2>2, <2>3, <2>4 DEF WithoutScratch, BLASes
<1>12. bottom_level_as' \in Seq(BLASes) /\ DOMAIN bottom_level_as' = DOMAIN bottom_level_as
  <2>1. Len(bottom_level_as) \in Nat /\ DOMAIN bottom_level_as = 1 .. Len(bottom_level_as)
    BY DEF IInv, Typed, BlasTyped
  <2>2. bottom_level_as' \in [1 .. Len(bottom_level_as) -> BLASes]
    BY <1>10, <1>11, <2>1
  <2> QED
    BY <2>1, <2>2, SeqDef
<1>13. /\ created["instances"] \in Nat
       /\ created' \in [Kinds -> Nat] /\ \A k \in Kinds : created'[k] >= created[k]
  <2>1. \A k \in Kinds : created[k] \in Nat
    BY DEF IInv, Typed, ObjectsTyped
  <2>2. created' \in [Kinds -> Nat]
    BY DEF Builds
  <2>3. \A k \in Kinds : created'[k] = created[k] + 1 \/ created'[k] = created[k]
    BY DEF Builds
  <2> QED
    BY <2>1, <2>2, <2>3 DEF Kinds
<1> QED
  BY <1>8, <1>9, <1>10, <1>11, <1>12, <1>13

LEMMA BuildsOwn ==
  ASSUME IInv, NEW w \in BOOLEAN, NEW T, NEW L, NEW K, Builds(w, T, L, K)
  PROVE  /\ Owned' = (Owned \ (LetGo(w, K) \ K)) \union (T \union Written(w))
         /\ LetGo(w, K) \ {None} \subseteq Owned /\ K \subseteq LetGo(w, K)
         /\ (T \union Written(w) \union L) \intersect (live \union kept) = {}
         /\ (T \union Written(w)) \intersect L = {}
         /\ T \union Written(w) \union L \subseteq Objects
         /\ \A o \in T \union Written(w) \union L : o[2] <= created'[o[1]]
<1>1. /\ \A o \in BlasesOwned \ {None} : o[1] = "blas"
      /\ \A o \in ScratchesOwned \ {None} : o[1] = "scratch"
      /\ \A o \in BuffersOwned \ {None} : o[1] = "instances"
      /\ tlas.handle # None => tlas.handle[1] = "tlas"
  BY OwnedOf, KindsApart DEF IInv, Typed
<1>2. \A kind \in {"tlas", "instances"} :
        /\ New(kind) \in Objects /\ New(kind) # None /\ New(kind) \notin live \union kept
        /\ New(kind)[1] = kind /\ New(kind)[2] = created[kind] + 1
  BY NewIsNew DEF IInv, Typed, ObjectsInv
<1>3. BlasesOwned' = BlasesOwned
  BY BuildsMean DEF BlasesOwned
<1>4. Scratched \subseteq ScratchesOwned
  BY DEF Scratched, Updated, ScratchesOwned, IInv, Typed, BlasTyped
<1>5. ScratchesOwned' \ {None} = (ScratchesOwned \ Scratched) \ {None}
  <2>1. ASSUME NEW i \in DOMAIN bottom_level_as, bottom_level_as'[i].scratch_buffer # None
        PROVE  bottom_level_as'[i].scratch_buffer \in ScratchesOwned \ Scratched
    <3>1. /\ bottom_level_as'[i].scratch_buffer = bottom_level_as[i].scratch_buffer
          /\ ~(i \in blas_update_indices /\ ~bottom_level_as[i].dynamic)
      BY <2>1, BuildsMean
    <3>2. ASSUME bottom_level_as[i].scratch_buffer \in Scratched
          PROVE  FALSE
      <4>1. PICK j \in blas_update_indices :
              ~bottom_level_as[j].dynamic /\ bottom_level_as[i].scratch_buffer = bottom_level_as[j].scratch_buffer
        BY <3>2 DEF Scratched, Updated
      <4>2. i # j /\ j \in DOMAIN bottom_level_as
        BY <3>1, <4>1 DEF IInv, Typed, BlasTyped
      <4> QED
        BY <2>1, <3>1, <4>1, <4>2 DEF IInv, ObjectsInv, OwnedOnce
    <3> QED
      BY <3>1, <3>2 DEF ScratchesOwned
  <2>2. ASSUME NEW i \in DOMAIN bottom_level_as, bottom_level_as[i].scratch_buffer \notin Scratched
        PROVE  bottom_level_as[i].scratch_buffer \in ScratchesOwned'
    <3>1. ~(i \in blas_update_indices /\ ~bottom_level_as[i].dynamic)
      BY <2>2 DEF Scratched, Updated
    <3>2. bottom_level_as'[i].scratch_buffer = bottom_level_as[i].scratch_buffer
      BY <3>1, BuildsMean
    <3> QED
      BY <3>2, BuildsMean DEF ScratchesOwned
  <2>3. DOMAIN bottom_level_as' = DOMAIN bottom_level_as
    BY BuildsMean
  <2> QED
    BY <2>1, <2>2, <2>3 DEF ScratchesOwned
<1> DEFINE E == IF w THEN {Slot.buffer} ELSE {}
           N == Written(w)
<1>6. BuffersOwned' \ {None} = ((BuffersOwned \ E) \union N) \ {None}
  <2>1. \A f \in FrameSlots : instance_buffers'[f].buffer =
              IF f = current_frame /\ w THEN New("instances") ELSE instance_buffers[f].buffer
    BY BuildsMean
  <2>2. current_frame \in FrameSlots
    BY DEF IInv, Typed, FrameTyped
  <2>3. CASE w
    <3>1. \A f \in FrameSlots : f # current_frame =>
            instance_buffers[f].buffer = None \/ instance_buffers[f].buffer # instance_buffers[current_frame].buffer
      BY <2>2 DEF IInv, ObjectsInv, OwnedOnce
    <3> QED
      BY <2>1, <2>2, <2>3, <3>1 DEF BuffersOwned, Slot, Written
  <2>4. CASE ~w
    BY <2>1, <2>4 DEF BuffersOwned, Written
  <2> QED
    BY <2>3, <2>4
<1>7. /\ {tlas'.handle} \ {None} = (({tlas.handle} \ Replaced) \union T) \ {None}
      /\ Replaced \subseteq {tlas.handle}
  <2>1. T \subseteq NewTlas /\ (~NeedsNewTlas => NewTlas = {})
    BY DEF Builds, NewTlas
  <2>2. None \notin T
    BY <1>2, <2>1 DEF NewTlas
  <2> QED
    BY <2>1, <2>2 DEF Replaced, Builds
<1>8. Slot.buffer \in BuffersOwned
  BY DEF Slot, BuffersOwned, IInv, Typed, FrameTyped
<1>9. K \subseteq {Slot.buffer} \ {None} /\ (w => K = {})
  BY DEF Builds
<1>10. /\ T \union L \subseteq {New("tlas")} /\ T \intersect L = {} /\ N \subseteq {New("instances")}
       /\ None \notin T \union N
  BY <1>2 DEF Builds, NewTlas, Written
<1>11. LetGo(w, K) = Scratched \union Replaced \union E \union K /\ E \subseteq {Slot.buffer}
  BY <1>9 DEF LetGo
<1>12. LetGo(w, K) \ {None} \subseteq Owned /\ K \subseteq LetGo(w, K)
  BY <1>4, <1>7, <1>8, <1>9, <1>11, OwnedParts
<1> HIDE DEF E, N
<1>13. Owned' = (Owned \ (LetGo(w, K) \ K)) \union (T \union N)
  <2>1. \A o \in BlasesOwned \ {None} : o \notin LetGo(w, K)
    BY <1>1, <1>4, <1>7, <1>8, <1>9, <1>11
  <2>2. \A o \in ScratchesOwned \ {None} : o \in LetGo(w, K) \ K <=> o \in Scratched
    BY <1>1, <1>4, <1>7, <1>8, <1>9, <1>11
  <2>3. \A o \in BuffersOwned \ {None} : o \in LetGo(w, K) \ K <=> o \in E
    <3>1. w => K = {}
      BY <1>9
    <3>2. ~w => E = {}
      BY DEF E
    <3> QED
      BY <1>1, <1>4, <1>7, <1>8, <1>9, <1>11, <3>1, <3>2
  <2>4. tlas.handle # None => (tlas.handle \in LetGo(w, K) \ K <=> tlas.handle \in Replaced)
    BY <1>1, <1>4, <1>7, <1>8, <1>9, <1>11
  <2> QED
    BY <1>3, <1>5, <1>6, <1>7, <1>10, <2>1, <2>2, <2>3, <2>4, OwnedParts
<1>14. ASSUME NEW o \in T \union N \union L
       PROVE  o[2] <= created'[o[1]]
  <2>1. \A k \in {"tlas", "instances"} : created[k] \in Nat
    BY DEF IInv, Typed, ObjectsTyped, Kinds
  <2>2. CASE o \in T \union L
    <3>1. created'["tlas"] = created["tlas"] + 1
      BY <2>2 DEF Builds, Kinds
    <3> QED
      BY <1>2, <1>10, <2>1, <2>2, <3>1
  <2>3. CASE o \in N
    <3>1. created'["instances"] = created["instances"] + 1
      BY <2>3 DEF Builds, Kinds, N, Written
    <3> QED
      BY <1>2, <1>10, <2>1, <2>3, <3>1
  <2> QED
    BY <2>2, <2>3
<1>15. /\ (T \union N \union L) \intersect (live \union kept) = {}
       /\ (T \union N) \intersect L = {} /\ T \union N \union L \subseteq Objects
  BY <1>2, <1>10
<1> QED
  BY <1>12, <1>13, <1>14, <1>15 DEF N

LEMMA BuildsKeep ==
  ASSUME IInv, NEW w \in BOOLEAN, NEW T, NEW L, NEW K, Builds(w, T, L, K),
         phase' # "destructed", failures' = 0 => failures = 0 /\ K = {} /\ L = {}
  PROVE  /\ BlasTyped' /\ InstanceTyped' /\ TlasTyped' /\ ObjectsTyped' /\ GivenTyped'
         /\ HandlesInv' /\ BlasesInv' /\ ObjectsInv'
<1>1. UNCHANGED <<blas_generations, free_blas_indices, instanceVars, given, removed>>
  BY DEF Builds, BuildBlases
<1>2. BlasTyped' /\ TlasTyped'
  BY BuildsMean DEF BlasTyped
<1>3. InstanceTyped' /\ GivenTyped'
  BY <1>1 DEF IInv, Typed, InstanceTyped, GivenTyped, instanceVars
<1>4. LetGo(w, K) \ {None} \subseteq Objects
  <2>1. Owned \subseteq Objects
    BY LiveOrKept DEF IInv, Typed, ObjectsTyped, ObjectsInv
  <2> QED
    BY <2>1, BuildsOwn
<1>5. ObjectsTyped'
  <2>1. Defer(LetGo(w, K)) \subseteq Deferred
    BY <1>4, DeferTyped DEF IInv, Typed
  <2>2. /\ created' \in [Kinds -> Nat] /\ live' = live \union (T \union Written(w)) \union L
        /\ pending' = pending \union Defer(LetGo(w, K))
        /\ kept' = kept \union K /\ lost' = lost \union L
    BY DEF Builds
  <2>3. K \subseteq Objects /\ T \union Written(w) \union L \subseteq Objects
    <3>1. K \subseteq LetGo(w, K)
      BY BuildsOwn
    <3>2. None \notin K
      BY DEF Builds
    <3>3. T \union Written(w) \union L \subseteq Objects
      BY BuildsOwn
    <3> QED
      BY <1>4, <3>1, <3>2, <3>3
  <2> QED
    BY <2>1, <2>2, <2>3 DEF IInv, Typed, ObjectsTyped
<1>6. HandlesInv'
  <2>1. DOMAIN bottom_level_as' = DOMAIN bottom_level_as /\ phase = "begun"
    BY BuildsMean
  <2>2. created'["scratch"] = created["scratch"] /\ created'["instance"] = created["instance"]
    BY DEF Builds, Kinds
  <2> QED
    BY <1>1, <2>1, <2>2, HandlesKept DEF IInv, instanceVars
<1>7. BlasesInv'
  <2>1. \A i \in DOMAIN bottom_level_as :
          /\ Free(i)' <=> Free(i)
          /\ InUse(i)' <=> InUse(i)
          /\ Free(i) => bottom_level_as'[i] = NoBLAS
          /\ InUse(i) => bottom_level_as'[i].handle # None
          /\ bottom_level_as'[i].scratch_buffer \in {None, bottom_level_as'[i].scratch_address}
    BY <1>1, BuildsMean DEF IInv, BlasesInv, Free, InUse
  <2>2. ASSUME NEW h \in Current', h.kind = "blas", h.generation = blas_generations[h.id]
        PROVE  InUse(h.id)'
    <3>1. Current = given /\ Current' = given
      BY <1>1, BuildsMean DEF Current
    <3>2. h.id \in DOMAIN bottom_level_as /\ InUse(h.id)
      BY <2>2, <3>1 DEF IInv, BlasesInv, HandlesInv, BlasSlots, Slots
    <3> QED
      BY <2>1, <3>2
  <2>3. DOMAIN bottom_level_as' = DOMAIN bottom_level_as /\ blas_update_indices' = {}
    BY BuildsMean
  <2> QED
    BY <1>1, <2>1, <2>2, <2>3 DEF BlasesInv
<1>8. OwnedOnce'
  <2>1. ASSUME NEW i \in DOMAIN bottom_level_as, NEW j \in DOMAIN bottom_level_as, i # j
        PROVE  /\ bottom_level_as'[i].handle = None \/ bottom_level_as'[i].handle # bottom_level_as'[j].handle
               /\ \/ bottom_level_as'[i].scratch_buffer = None
                  \/ bottom_level_as'[i].scratch_buffer # bottom_level_as'[j].scratch_buffer
    <3>1. /\ bottom_level_as[i].handle = None \/ bottom_level_as[i].handle # bottom_level_as[j].handle
          /\ \/ bottom_level_as[i].scratch_buffer = None
             \/ bottom_level_as[i].scratch_buffer # bottom_level_as[j].scratch_buffer
      BY <2>1 DEF IInv, ObjectsInv, OwnedOnce
    <3>2. \A k \in {i, j} :
            /\ bottom_level_as'[k].handle = bottom_level_as[k].handle
            /\ bottom_level_as'[k].scratch_buffer \in {None, bottom_level_as[k].scratch_buffer}
      BY BuildsMean
    <3> QED
      BY <3>1, <3>2
  <2>2. ASSUME NEW f \in FrameSlots, NEW g \in FrameSlots, f # g
        PROVE  \/ instance_buffers'[f].buffer = None
               \/ instance_buffers'[f].buffer # instance_buffers'[g].buffer
    <3>1. \A s \in FrameSlots : instance_buffers'[s].buffer =
            IF s = current_frame /\ w THEN New("instances") ELSE instance_buffers[s].buffer
      BY BuildsMean
    <3>2. \A s \in FrameSlots : instance_buffers[s].buffer # New("instances")
      <4>1. \A s \in FrameSlots : instance_buffers[s].buffer \in Owned \union {None}
        BY Elements DEF IInv, Typed
      <4>2. New("instances") \notin live \union kept /\ New("instances") # None
        BY NewIsNew DEF IInv, Typed, ObjectsInv
      <4> QED
        BY <4>1, <4>2, LiveOrKept DEF IInv, ObjectsInv
    <3>3. \/ instance_buffers[f].buffer = None
          \/ instance_buffers[f].buffer # instance_buffers[g].buffer
      BY <2>2 DEF IInv, ObjectsInv, OwnedOnce
    <3> QED
      BY <2>2, <3>1, <3>2, <3>3
  <2>3. DOMAIN bottom_level_as' = DOMAIN bottom_level_as
    BY BuildsMean
  <2> QED
    BY <2>1, <2>2, <2>3 DEF OwnedOnce
<1>9. Accounted'
  <2>1. /\ live' = live \union (T \union Written(w)) \union L
        /\ pending' = pending \union Defer(LetGo(w, K))
        /\ kept' = kept \union (K \ {None}) /\ lost' = lost \union L
    BY DEF Builds
  <2>2. /\ Owned' = (Owned \ (LetGo(w, K) \ K)) \union (T \union Written(w))
        /\ LetGo(w, K) \ {None} \subseteq Owned /\ K \subseteq LetGo(w, K)
        /\ ((T \union Written(w)) \union L) \intersect (live \union kept) = {}
        /\ (T \union Written(w)) \intersect L = {}
    BY BuildsOwn
  <2> QED
    BY <2>1, <2>2, OwnersChange DEF IInv, ObjectsInv
<1>10. Numbered'
  <2>1. \A o \in T \union Written(w) \union L : o[2] <= created'[o[1]]
    BY BuildsOwn
  <2>2. K \subseteq live \union kept
    <3>1. K \subseteq LetGo(w, K) /\ LetGo(w, K) \ {None} \subseteq Owned
      BY BuildsOwn
    <3>2. None \notin K
      BY DEF Builds
    <3>3. Owned \subseteq live \union kept
      BY LiveOrKept DEF IInv, ObjectsInv
    <3> QED
      BY <3>1, <3>2, <3>3
  <2>3. live' \union kept' \subseteq live \union kept \union (T \union Written(w) \union L)
    BY <2>2 DEF Builds
  <2>4. created' \in [Kinds -> Nat] /\ \A k \in Kinds : created'[k] >= created[k]
    BY BuildsMean
  <2> QED
    BY <2>1, <2>3, <2>4, NumberedKept DEF IInv, Typed, ObjectsInv
<1>11. Unfailed'
  BY DEF Builds, IInv, ObjectsInv, Unfailed
<1>12. ObjectsInv'
  BY <1>8, <1>9, <1>10, <1>11 DEF ObjectsInv
<1> QED
  BY <1>2, <1>3, <1>5, <1>6, <1>7, <1>12

(* The frame of the current slot begins to use objects that are owned.       *)
LEMMA UsesEnter ==
  ASSUME IInv, ObjectsInv', phase = "begun", phase' = "frame",
         UNCHANGED <<failures, global_frame_counter, current_frame>>, live \subseteq live',
         NEW D, pending' = pending \union Defer(D),
         NEW X, uses' = [uses EXCEPT ![current_frame] = (@ \union X) \ {None}],
         misused \subseteq misused' \union {None},
         \A o \in (X \ misused') \ {None} : o \in Owned \union Owned'
  PROVE  UsesInv'
<1> SUFFICES ASSUME failures = 0, NEW f \in FrameSlots, NEW o \in uses'[f] \ misused'
             PROVE  /\ o \in live'
                    /\ \A p \in pending' : p.object = o => p.requested_at_frame >= Begun(f)'
  BY DEF UsesInv
<1>1. FrameTyped /\ current_frame \in FrameSlots /\ uses \in [FrameSlots -> SUBSET Objects]
  BY DEF IInv, Typed, FrameTyped, DeviceTyped
<1>2. Begun(f)' = Begun(f)
  BY DEF Begun, Distance
<1>3. Begun(f) \in Int /\ Begun(f) <= global_frame_counter /\ global_frame_counter \in Nat
  BY <1>1, BegunBefore, SlotDistance
<1>4. \A p \in Defer(D) : p.requested_at_frame = global_frame_counter
  BY DeferMeans
<1>5. CASE o \in uses[f]
  <2>1. o \notin misused
    BY <1>1, <1>5, NoneAssumption
  <2>2. o \in live /\ \A p \in pending : p.object = o => p.requested_at_frame >= Begun(f)
    BY <1>5, <2>1 DEF IInv, UsesInv
  <2> QED
    BY <1>2, <1>3, <1>4, <2>2
<1>6. CASE o \notin uses[f]
  <2>1. f = current_frame /\ o \in X /\ o # None
    BY <1>1, <1>6
  <2>2. o \in Owned \/ o \in Owned'
    BY <2>1
  <2>3. CASE o \in Owned'
    BY <2>3 DEF ObjectsInv, Accounted, Unfailed, PendingObjects
  <2>4. CASE o \in Owned
    <3>1. o \in live /\ \A p \in pending : p.object # o
      BY <2>4 DEF IInv, ObjectsInv, Accounted, Unfailed, PendingObjects
    <3> QED
      BY <1>2, <1>3, <1>4, <3>1
  <2> QED
    BY <2>2, <2>3, <2>4
<1> QED
  BY <1>5, <1>6

(* The only instance buffer among them is the slot's own.                    *)
LEMMA BuffersEnter ==
  ASSUME IInv, OwnedOnce', created' \in [Kinds -> Nat], created'["instances"] >= created["instances"],
         NEW X, uses' = [uses EXCEPT ![current_frame] = (@ \union X) \ {None}],
         \A o \in X \ {None} : o \in Objects
           /\ (o[1] = "instances" => o = instance_buffers'[current_frame].buffer
                                     /\ o[2] <= created'["instances"]),
         \A f \in FrameSlots : /\ instance_buffers'[f].buffer \in Of("instances")
                               /\ f # current_frame => instance_buffers'[f].buffer = instance_buffers[f].buffer,
         \/ instance_buffers'[current_frame].buffer = instance_buffers[current_frame].buffer
         \/ instance_buffers'[current_frame].buffer = New("instances")
  PROVE  BuffersInv'
<1>1. current_frame \in FrameSlots /\ uses \in [FrameSlots -> SUBSET Objects]
  BY DEF IInv, Typed, FrameTyped, DeviceTyped
<1>2. created["instances"] \in Nat /\ created'["instances"] \in Nat
  BY DEF IInv, Typed, ObjectsTyped, Kinds
<1>3. /\ \A f, g \in FrameSlots : f # g => instance_buffers[f].buffer \notin uses[g]
      /\ \A g \in FrameSlots : \A o \in uses[g] : o[1] = "instances" => o[2] <= created["instances"]
  BY DEF IInv, BuffersInv
<1>4. ASSUME NEW g \in FrameSlots, NEW o \in uses'[g], o[1] = "instances"
      PROVE  o[2] <= created'["instances"]
  <2>1. CASE o \in uses[g]
    <3>1. o \in Objects /\ o[2] <= created["instances"]
      BY <1>1, <1>3, <1>4, <2>1
    <3>2. o[2] \in Nat
      BY <3>1 DEF Objects
    <3> QED
      BY <1>2, <3>1, <3>2
  <2>2. CASE o \notin uses[g]
    BY <1>1, <1>4, <2>2
  <2> QED
    BY <2>1, <2>2
<1>5. ASSUME NEW f \in FrameSlots, NEW g \in FrameSlots, f # g, instance_buffers'[f].buffer \in uses'[g]
      PROVE  FALSE
  <2> DEFINE o == instance_buffers'[f].buffer
  <2>1. o # None
    <3>1. g = current_frame => o \in (uses[g] \union X) \ {None}
      BY <1>1, <1>5
    <3>2. g # current_frame => o \in Objects
      BY <1>1, <1>5
    <3> QED
      BY <3>1, <3>2, NoneAssumption
  <2>2. o \in {"instances"} \X Nat /\ o[1] = "instances"
    <3>1. o \in {"instances"} \X Nat
      BY <2>1 DEF Of
    <3> HIDE DEF o
    <3> QED
      BY <3>1, KindsApart
  <2>3. CASE o \in uses[g]
    <3>1. f = current_frame /\ o = New("instances")
      BY <1>3, <1>5, <2>3
    <3>2. o[2] = created["instances"] + 1
      BY <3>1 DEF New
    <3>3. o[2] <= created["instances"]
      BY <1>3, <2>2, <2>3
    <3> QED
      BY <1>2, <3>2, <3>3
  <2>4. CASE o \notin uses[g]
    <3>1. g = current_frame /\ o \in X
      BY <1>1, <1>5, <2>4
    <3>2. o = instance_buffers'[g].buffer
      BY <2>1, <2>2, <3>1
    <3> QED
      BY <1>5, <2>1, <3>2 DEF OwnedOnce
  <2> QED
    BY <2>3, <2>4
<1> QED
  BY <1>4, <1>5 DEF BuffersInv

LEMMA TracedTyped ==
  ASSUME DeviceTyped
  PROVE  Traced \subseteq Of("blas")
<1>1. tlas_contents.instances \in Seq(Instances)
  BY DEF DeviceTyped
<1>2. \A i \in DOMAIN tlas_contents.instances : tlas_contents.instances[i] \in Instances
  BY <1>1
<1> QED
  BY <1>2 DEF Traced, Instances

LEMMA NoFrameWorkKeeps ==
  ASSUME IInv, UNCHANGED calls, NoFrameWork
  PROVE  IInv'
<1> DEFINE X == {tlas.handle} \union Traced
<1>1. /\ phase = "begun" /\ phase' = "frame"
      /\ UNCHANGED <<blasVars, instanceVars, tlasVars, tlas_outdated, created, live, pending,
                     global_frame_counter, current_frame, failures, built, tlas_contents,
                     given, removed, failureVars>>
  BY DEF NoFrameWork, EnterFrame
<1>2. Traced' = Traced /\ BlasesOwned' = BlasesOwned /\ tlas' = tlas
  BY <1>1 DEF Traced, BlasesOwned, blasVars, tlasVars
<1>3. /\ uses' = [uses EXCEPT ![current_frame] = (@ \union X) \ {None}]
      /\ misused' = (misused \union (Traced \ BlasesOwned)) \ {None}
  BY <1>2 DEF NoFrameWork, EnterFrame
<1>4. current_frame \in FrameSlots /\ uses \in [FrameSlots -> SUBSET Objects]
  BY DEF IInv, Typed, FrameTyped, DeviceTyped
<1>5. \A o \in X \ {None} : o \in Objects /\ o[1] \in {"blas", "tlas"}
  <2>1. tlas.handle \in Of("tlas") /\ Traced \subseteq Of("blas")
    BY Elements, TracedTyped DEF IInv, Typed
  <2>2. /\ \A o \in Of("tlas") \ {None} : o \in Objects /\ o[1] = "tlas"
        /\ \A o \in Of("blas") \ {None} : o \in Objects /\ o[1] = "blas"
    BY DEF Of, Objects
  <2> QED
    BY <2>1, <2>2
<1> HIDE DEF X
<1>6. Typed'
  <2>1. FrameTyped'
    BY <1>1 DEF IInv, Typed, FrameTyped
  <2>2. uses' \in [FrameSlots -> SUBSET Objects]
    BY <1>3, <1>4, <1>5
  <2>3. DeviceTyped'
    BY <1>1, <2>2 DEF IInv, Typed, DeviceTyped
  <2>4. BlasTyped' /\ InstanceTyped' /\ TlasTyped' /\ ObjectsTyped' /\ GivenTyped'
    BY <1>1 DEF IInv, Typed, BlasTyped, InstanceTyped, TlasTyped, ObjectsTyped, GivenTyped,
         blasVars, instanceVars, tlasVars, failureVars
  <2> QED
    BY <2>1, <2>3, <2>4 DEF Typed
<1>7. HandlesInv'
  BY <1>1, HandlesKept DEF IInv, blasVars, instanceVars
<1>8. BlasesInv'
  BY <1>1, BlasesKept DEF IInv
<1>10. ObjectsInv'
  BY <1>1, CreatedSame, ObjectsSame DEF IInv, Typed, blasVars
<1>11. UsesInv'
  <2>1. \A o \in (X \ misused') \ {None} : o \in Owned \union Owned'
    <3>1. tlas.handle \in Owned \union {None}
      BY Elements DEF IInv, Typed
    <3>2. \A o \in Traced \ misused' : o \in BlasesOwned \union {None}
      BY <1>3
    <3> QED
      BY <3>1, <3>2, OwnedParts DEF X
  <2>2. pending' = pending \union Defer({}) /\ live \subseteq live'
    BY <1>1, DeferNothing
  <2>3. misused \subseteq misused' \union {None}
    BY <1>3
  <2> QED
    BY <1>1, <1>3, <1>10, <2>1, <2>2, <2>3, UsesEnter
<1>12. BuffersInv'
  <2>1. instance_buffers' = instance_buffers /\ created' = created
    BY <1>1 DEF tlasVars
  <2>2. \A f \in FrameSlots : instance_buffers[f].buffer \in Of("instances")
    BY DEF IInv, Typed, TlasTyped
  <2>3. created' \in [Kinds -> Nat] /\ created["instances"] \in Nat
    BY <2>1 DEF IInv, Typed, ObjectsTyped, Kinds
  <2>4. \A o \in X \ {None} : o \in Objects
           /\ (o[1] = "instances" => o = instance_buffers'[current_frame].buffer
                                     /\ o[2] <= created'["instances"])
    BY <1>5
  <2>5. created'["instances"] >= created["instances"]
    BY <2>1, <2>3
  <2>6. \A f \in FrameSlots :
          /\ instance_buffers'[f].buffer \in Of("instances")
          /\ f # current_frame => instance_buffers'[f].buffer = instance_buffers[f].buffer
    BY <2>1, <2>2
  <2>7. instance_buffers'[current_frame].buffer = instance_buffers[current_frame].buffer
    BY <2>1
  <2> QED
    BY <1>3, <1>10, <2>3, <2>4, <2>5, <2>6, <2>7, BuffersEnter DEF ObjectsInv
<1>13. SceneInv'
  BY <1>1 DEF IInv, SceneInv, InUse, blasVars, instanceVars, tlasVars
<1> QED
  BY <1>6, <1>7, <1>8, <1>10, <1>11, <1>12, <1>13 DEF IInv

LEMMA BuildKeeps ==
  ASSUME IInv, UNCHANGED calls, Build
  PROVE  IInv'
<1> DEFINE handles == {blas.handle : blas \in Updated}
           addresses == {blas.scratch_address : blas \in Updated}
           dangling == {blas.scratch_address : blas \in {b \in Updated : b.scratch_buffer = None}}
           buffer == instance_buffers'[current_frame].buffer
           X == handles \union addresses \union {buffer} \union {tlas'.handle} \union Traced'
<1>1. /\ Record /\ phase' = "frame" /\ failures' = failures
      /\ built' = built \union handles
      /\ tlas_contents' = IF tlas'.ready THEN [handle |-> tlas'.handle, instances |-> instances]
                          ELSE tlas_contents
  BY DEF Build, EnterFrame
<1>2. /\ uses' = [uses EXCEPT ![current_frame] = (@ \union X) \ {None}]
      /\ misused' = (misused \union dangling \union (Traced' \ BlasesOwned)) \ {None}
  <2>1. uses' = [uses EXCEPT ![current_frame] =
                (@ \union (handles \union addresses \union {buffer}) \union {tlas'.handle} \union Traced') \ {None}]
    BY DEF Build, EnterFrame
  <2>2. \A S : S \union (handles \union addresses \union {buffer}) \union {tlas'.handle} \union Traced'
                 = S \union X
    OBVIOUS
  <2>3. misused' = (misused \union dangling \union (Traced' \ BlasesOwned)) \ {None}
    BY DEF Build, EnterFrame
  <2> HIDE DEF X, handles, addresses, buffer
  <2> QED
    BY <2>1, <2>2, <2>3
<1>3. /\ BlasTyped' /\ InstanceTyped' /\ TlasTyped' /\ ObjectsTyped' /\ GivenTyped'
      /\ HandlesInv' /\ BlasesInv' /\ ObjectsInv'
  BY <1>1, RecordBuilds, BuildsKeep
<1>4. current_frame \in FrameSlots /\ uses \in [FrameSlots -> SUBSET Objects]
  BY DEF IInv, Typed, FrameTyped, DeviceTyped
<1>5. UNCHANGED <<instanceVars, global_frame_counter, current_frame>>
  BY <1>1 DEF Record, BuildBlases
<1>6. tlas_contents' \in [handle : Of("tlas"), instances : Seq(Instances)]
  BY <1>1, <1>3, <1>5 DEF TlasTyped, InstanceTyped, instanceVars, IInv, Typed, DeviceTyped
<1>7. Traced' \subseteq Of("blas")
  <2>1. tlas_contents'.instances \in Seq(Instances)
    BY <1>6
  <2>2. \A i \in DOMAIN tlas_contents'.instances : tlas_contents'.instances[i] \in Instances
    BY <2>1
  <2> QED
    BY <2>2 DEF Traced, Instances
<1>8. handles \subseteq Of("blas") /\ addresses \subseteq Of("scratch")
  <2>1. Updated \subseteq BLASes
    BY DEF Updated, IInv, Typed, BlasTyped
  <2> QED
    BY <2>1 DEF BLASes
<1>9. buffer \in Of("instances") /\ tlas'.handle \in Of("tlas")
  BY <1>3, <1>4 DEF TlasTyped
<1>10. \A o \in X \ {None} : o \in Objects /\ (o[1] = "instances" => o = buffer)
  <2>1. /\ \A o \in Of("tlas") \ {None} : o \in Objects /\ o[1] = "tlas"
        /\ \A o \in Of("blas") \ {None} : o \in Objects /\ o[1] = "blas"
        /\ \A o \in Of("scratch") \ {None} : o \in Objects /\ o[1] = "scratch"
        /\ \A o \in Of("instances") \ {None} : o \in Objects /\ o[1] = "instances"
    BY DEF Of, Objects
  <2> HIDE DEF handles, addresses, buffer
  <2> QED
    BY <1>7, <1>8, <1>9, <2>1
<1>11. Typed'
  <2>1. FrameTyped'
    BY <1>1, <1>5 DEF IInv, Typed, FrameTyped
  <2>2. uses' \in [FrameSlots -> SUBSET Objects]
    <3> HIDE DEF X
    <3> QED
      BY <1>2, <1>4, <1>10
  <2> QED
    BY <1>3, <1>6, <2>1, <2>2 DEF Typed, DeviceTyped
<1>12. /\ handles \subseteq BlasesOwned'
       /\ \A o \in addresses \ dangling : o \in ScratchesOwned
       /\ buffer \in BuffersOwned' /\ BlasesOwned' = BlasesOwned
  <2>1. handles \subseteq BlasesOwned
    BY DEF Updated, BlasesOwned, IInv, Typed, BlasTyped
  <2>2. BlasesOwned' = BlasesOwned
    BY <1>1, RecordBuilds, BuildsMean DEF BlasesOwned
  <2>3. ASSUME NEW i \in blas_update_indices, bottom_level_as[i].scratch_address \notin dangling
        PROVE  bottom_level_as[i].scratch_address \in ScratchesOwned
    <3>1. i \in DOMAIN bottom_level_as
      BY DEF IInv, Typed, BlasTyped
    <3>2. bottom_level_as[i].scratch_buffer # None
      BY <2>3 DEF Updated
    <3>3. bottom_level_as[i].scratch_buffer = bottom_level_as[i].scratch_address
      BY <3>1, <3>2 DEF IInv, BlasesInv
    <3> QED
      BY <3>1, <3>3 DEF ScratchesOwned
  <2>4. \A o \in addresses \ dangling : o \in ScratchesOwned
    BY <2>3 DEF Updated
  <2>5. buffer \in BuffersOwned'
    BY <1>4 DEF BuffersOwned
  <2> QED
    BY <2>1, <2>2, <2>4, <2>5
<1>13. UsesInv'
  <2> HIDE DEF handles, addresses, dangling, buffer
  <2>1. \A o \in (X \ misused') \ {None} : o \in Owned \union Owned'
    <3>1. \A o \in Traced' \ misused' : o \in BlasesOwned' \union {None}
      BY <1>2, <1>12
    <3>2. \A o \in addresses \ misused' : o \in ScratchesOwned \union {None}
      BY <1>2, <1>12
    <3> QED
      BY <1>12, <3>1, <3>2, OwnedParts
  <2>2. pending' = pending \union Defer(LetGo(~Fits, {})) /\ live \subseteq live' /\ phase = "begun"
    <3>1. Builds(~Fits, NewTlas, {}, {}) /\ phase = "begun"
      BY <1>1, RecordBuilds DEF Record, BuildBlases
    <3>2. live' = live \union (NewTlas \union Written(~Fits)) \union {}
      BY <3>1 DEF Builds
    <3>3. pending' = pending \union Defer(LetGo(~Fits, {}))
      BY <3>1 DEF Builds
    <3> QED
      BY <3>1, <3>2, <3>3
  <2>3. misused \subseteq misused' \union {None}
    BY <1>2
  <2> HIDE DEF X
  <2> QED
    BY <1>1, <1>2, <1>3, <1>5, <2>1, <2>2, <2>3, UsesEnter
<1>14. BuffersInv'
  <2>1. \A f \in FrameSlots : instance_buffers'[f].buffer =
          IF f = current_frame /\ ~Fits THEN New("instances") ELSE instance_buffers[f].buffer
    BY <1>1, RecordBuilds, BuildsMean
  <2>2. \A f \in FrameSlots : instance_buffers'[f].buffer \in Of("instances")
    BY <1>3 DEF TlasTyped
  <2>3. /\ created' \in [Kinds -> Nat] /\ created["instances"] \in Nat
        /\ created'["instances"] >= created["instances"]
    BY <1>1, RecordBuilds, BuildsMean DEF Kinds
  <2>4. buffer # None => buffer[2] <= created'["instances"]
    <3>1. buffer \in Owned' \union {None}
      BY <1>12, OwnedParts
    <3>2. buffer # None => buffer \in live' \union kept'
      BY <1>3, <3>1 DEF ObjectsInv, Accounted
    <3>3. buffer # None => buffer[1] = "instances"
      BY <1>9, KindsApart DEF Of
    <3> QED
      BY <1>3, <3>2, <3>3 DEF ObjectsInv, Numbered
  <2>5. \A o \in X \ {None} : o \in Objects
           /\ (o[1] = "instances" => o = buffer /\ o[2] <= created'["instances"])
    <3> HIDE DEF X, buffer
    <3> QED
      BY <1>10, <2>4
  <2> HIDE DEF X
  <2> QED
    BY <1>2, <1>3, <1>4, <2>1, <2>2, <2>3, <2>5, BuffersEnter DEF ObjectsInv
<1>15. SceneInv'
  <2>1. blas_update_indices' = {} /\ DOMAIN bottom_level_as' = DOMAIN bottom_level_as /\ phase = "begun"
    BY <1>1, RecordBuilds, BuildsMean
  <2>2. ASSUME failures = 0
        PROVE  /\ tlas'.ready
               /\ tlas_contents' = [handle |-> tlas'.handle, instances |-> instances']
    <3>1. tlas' = NextTlas
      BY <1>1 DEF Record
    <3>2. NextTlas.ready
      BY <2>1, <2>2 DEF NextTlas, TLAS, NeedsNewTlas, IInv, SceneInv
    <3> QED
      BY <1>1, <1>5, <3>1, <3>2 DEF instanceVars
  <2>3. ASSUME NEW i \in DOMAIN bottom_level_as, failures = 0, InUse(i)'
        PROVE  bottom_level_as'[i].handle \in built'
    <3>1. bottom_level_as'[i].handle = bottom_level_as[i].handle /\ InUse(i)
      BY <1>1, <2>3, RecordBuilds, BuildsMean DEF InUse
    <3>2. CASE i \in blas_update_indices
      BY <1>1, <3>1, <3>2 DEF Updated
    <3>3. CASE i \notin blas_update_indices
      <4>1. bottom_level_as[i].handle \in built
        BY <2>1, <2>3, <3>1, <3>3 DEF IInv, SceneInv
      <4> QED
        BY <1>1, <3>1, <4>1
    <3> QED
      BY <3>2, <3>3
  <2> QED
    BY <1>1, <2>1, <2>2, <2>3 DEF SceneInv
<1> QED
  BY <1>3, <1>11, <1>13, <1>14, <1>15 DEF IInv

(* begin_frame threw somewhere.                                              *)
LEMMA BuildsThrow ==
  ASSUME IInv, UNCHANGED calls, NEW w \in BOOLEAN, NEW T, NEW L, NEW K, Builds(w, T, L, K),
         failures' \in 1 .. MaxFailures, LeaveFrame
  PROVE  IInv'
<1>1. /\ phase' = "outside"
      /\ UNCHANGED <<built, tlas_contents, uses, misused>>
      /\ UNCHANGED <<instanceVars, global_frame_counter, current_frame>>
  BY DEF LeaveFrame, Builds, BuildBlases
<1>2. /\ BlasTyped' /\ InstanceTyped' /\ TlasTyped' /\ ObjectsTyped' /\ GivenTyped'
      /\ HandlesInv' /\ BlasesInv' /\ ObjectsInv'
  BY <1>1, BuildsKeep
<1>3. FrameTyped' /\ DeviceTyped'
  BY <1>1, BoundsAssumption DEF IInv, Typed, FrameTyped, DeviceTyped
<1>4. failures' # 0
  BY BoundsAssumption
<1>5. UsesInv' /\ SceneInv'
  BY <1>4 DEF UsesInv, SceneInv
<1>6. BuffersInv'
  <2>1. current_frame \in FrameSlots /\ uses \in [FrameSlots -> SUBSET Objects]
    BY DEF IInv, Typed, FrameTyped, DeviceTyped
  <2>2. uses' = [uses EXCEPT ![current_frame] = (@ \union {}) \ {None}]
    <3>1. \A g \in FrameSlots : None \notin uses[g]
      BY <2>1, NoneAssumption
    <3>2. (uses[current_frame] \union {}) \ {None} = uses[current_frame]
      BY <2>1, <3>1
    <3> QED
      BY <1>1, <2>1, <3>2
  <2>3. \A f \in FrameSlots : instance_buffers'[f].buffer =
          IF f = current_frame /\ w THEN New("instances") ELSE instance_buffers[f].buffer
    BY BuildsMean
  <2>4. \A f \in FrameSlots : instance_buffers'[f].buffer \in Of("instances")
    BY <1>2 DEF TlasTyped
  <2>5. /\ created' \in [Kinds -> Nat] /\ created'["instances"] >= created["instances"]
    BY BuildsMean DEF Kinds
  <2> QED
    BY <1>2, <2>1, <2>2, <2>3, <2>4, <2>5, BuffersEnter DEF ObjectsInv
<1> QED
  BY <1>2, <1>3, <1>5, <1>6 DEF IInv, Typed

LEMMA FailsOnce ==
  ASSUME IInv, Fails
  PROVE  failures' \in 1 .. MaxFailures
BY BoundsAssumption DEF Fails, IInv, Typed, FrameTyped

LEMMA BuildThrowsKeeps ==
  ASSUME IInv, UNCHANGED calls, BuildThrows
  PROVE  IInv'
BY RecordBuilds, FailsOnce, BuildsThrow DEF BuildThrows

LEMMA CreateTlasThrowsKeeps ==
  ASSUME IInv, UNCHANGED calls, CreateTlasThrows
  PROVE  IInv'
<1>1. PICK T, L : Builds(FALSE, T, L, {})
  BY CreateTlasThrowsBuilds
<1>2. Fails /\ LeaveFrame
  BY DEF CreateTlasThrows
<1> QED
  BY <1>1, <1>2, FailsOnce, BuildsThrow

(* A stale buffer is one that was kept when begin_frame failed before.       *)
LEMMA WriteInstancesThrowsKeeps ==
  ASSUME IInv, UNCHANGED calls, WriteInstancesThrows
  PROVE  IInv'
<1>1. PICK K : Builds(FALSE, NewTlas, {}, K)
  BY WriteInstancesThrowsBuilds
<1>2. LeaveFrame /\ IF Stale THEN UNCHANGED failures ELSE Fails
  BY DEF WriteInstancesThrows
<1>3. Stale => failures # 0
  <2>1. Slot.buffer \in Owned \union {None}
    BY Elements DEF Slot, IInv, Typed, FrameTyped
  <2> QED
    BY <2>1, LiveOrKept DEF Stale, IInv, ObjectsInv
<1>4. failures' \in 1 .. MaxFailures
  <2>1. failures \in 0 .. MaxFailures
    BY DEF IInv, Typed, FrameTyped
  <2> QED
    BY <1>2, <1>3, <2>1, FailsOnce, BoundsAssumption
<1> QED
  BY <1>1, <1>2, <1>4, BuildsThrow

-----------------------------------------------------------------------------
(* The specification.                                                       *)

LEMMA InitInv == Init => IInv
<1> SUFFICES ASSUME Init
             PROVE  IInv
  OBVIOUS
<1> USE DEF Init
<1>1. /\ \A S : <<>> \in Seq(S)
      /\ DOMAIN <<>> = {}
  OBVIOUS
<1>2. NoBuffer = [buffer |-> None, count |-> 0] /\ NoTLAS = [handle |-> None, primitive_count |-> 0, ready |-> FALSE]
  BY DEF NoBuffer, NoTLAS, TLAS
<1>3. None \in Of("instances") /\ None \in Of("tlas")
  BY DEF Of
<1>4. Typed
  <2>1. TlasTyped
    BY <1>2, <1>3 DEF TlasTyped
  <2>2. BlasTyped /\ InstanceTyped
    BY <1>1 DEF BlasTyped, InstanceTyped
  <2>3. ObjectsTyped /\ GivenTyped
    BY DEF ObjectsTyped, GivenTyped
  <2>4. FrameTyped
    BY FramesAssumption, BoundsAssumption DEF FrameTyped, FrameSlots
  <2>5. DeviceTyped
    BY <1>1, <1>3 DEF DeviceTyped
  <2> QED
    BY <2>1, <2>2, <2>3, <2>4, <2>5 DEF Typed
<1>5. HandlesInv
  <2>1. Current = {}
    BY DEF Current
  <2>2. \A kind : Slots(kind, {}, removed, {}, <<>>, <<>>)
    BY <1>1 DEF Slots, Reused
  <2>3. BlasSlots /\ InstanceSlots
    BY <1>1, <2>1, <2>2 DEF BlasSlots, InstanceSlots
  <2>4. Counted
    <3>1. created["scratch"] = 0 /\ created["instance"] = 0
      BY DEF Kinds
    <3> QED
      BY <3>1, FS_EmptySet DEF Counted
  <2> QED
    BY <2>3, <2>4 DEF HandlesInv
<1>6. DOMAIN bottom_level_as = {} /\ \A f \in FrameSlots : instance_buffers[f].buffer = None
  BY <1>1, <1>2
<1>7. BlasesInv
  <2>1. Current = {}
    BY DEF Current
  <2> QED
    BY <1>6, <2>1 DEF BlasesInv
<1>8. ObjectsInv
  <2>1. Owned = {}
    <3>1. BlasesOwned = {} /\ ScratchesOwned = {} /\ BuffersOwned \subseteq {None}
      BY <1>6 DEF BlasesOwned, ScratchesOwned, BuffersOwned
    <3>2. tlas.handle = None
      BY <1>2
    <3> QED
      BY <3>1, <3>2, OwnedParts
  <2>2. Accounted
    BY <2>1 DEF Accounted, PendingObjects
  <2>3. OwnedOnce /\ Numbered /\ Unfailed
    BY <1>6 DEF OwnedOnce, Numbered, Unfailed
  <2> QED
    BY <2>2, <2>3 DEF ObjectsInv
<1>9. UsesInv /\ BuffersInv
  BY <1>6 DEF UsesInv, BuffersInv
<1>10. SceneInv
  BY <1>2, <1>6 DEF SceneInv
<1> QED
  BY <1>4, <1>5, <1>7, <1>8, <1>9, <1>10 DEF IInv

LEMMA StutterKeeps ==
  ASSUME IInv, UNCHANGED vars
  PROVE  IInv'
<1>1. UNCHANGED <<blasVars, instanceVars, tlasVars, tlas_outdated, created, live, pending, frameVars,
                  deviceVars, historyVars, calls>>
  BY DEF vars
<1> USE DEF blasVars, instanceVars, tlasVars, frameVars, deviceVars, historyVars, failureVars
<1>2. Typed'
  BY <1>1 DEF IInv, Typed, BlasTyped, InstanceTyped, TlasTyped, ObjectsTyped, FrameTyped, DeviceTyped,
     GivenTyped
<1>3. HandlesInv'
  BY <1>1, HandlesKept DEF IInv
<1>4. BlasesInv'
  BY <1>1, BlasesKept DEF IInv
<1>6. ObjectsInv'
  BY <1>1, CreatedSame, ObjectsSame DEF IInv, Typed
<1>7. UsesInv'
  <2>1. \A f \in FrameSlots : Begun(f)' = Begun(f)
    BY <1>1, BegunSame
  <2>2. pending' = pending \union Defer({}) /\ live \subseteq live' /\ UNCHANGED <<uses, misused, failures>>
    BY <1>1, DeferNothing
  <2> QED
    BY <2>1, <2>2, UsesKept DEF IInv, Typed
<1>8. BuffersInv'
  BY <1>1 DEF IInv, BuffersInv
<1>9. SceneInv'
  BY <1>1 DEF IInv, SceneInv, InUse
<1> QED
  BY <1>2, <1>3, <1>4, <1>6, <1>7, <1>8, <1>9 DEF IInv

LEMMA StepInv == IInv /\ [Next]_vars => IInv'
<1> SUFFICES ASSUME IInv, [Next]_vars
             PROVE  IInv'
  OBVIOUS
<1>1. CASE Call
  <2>1. phase # "destructed"
    BY <1>1 DEF Call
  <2>2. calls' \in 0 .. MaxCalls
    BY <1>1, BoundsAssumption DEF Call, IInv, Typed, FrameTyped
  <2>3. ASSUME NEW dynamic \in BOOLEAN, AddBlas(dynamic)
        PROVE  IInv'
    BY <2>1, <2>2, <2>3, AddBlasKeeps
  <2>10. ASSUME NEW dynamic \in BOOLEAN, AddBlasThrows(dynamic)
         PROVE  IInv'
    BY <2>1, <2>2, <2>10, AddBlasThrowsKeeps
  <2>4. ASSUME NEW b \in BlasHandles, UpdateBlas(b)
        PROVE  IInv'
    BY <2>1, <2>2, <2>4, UpdateBlasKeeps
  <2>5. ASSUME NEW b \in BlasHandles, RemoveBlas(b)
        PROVE  IInv'
    BY <2>1, <2>2, <2>5, RemoveBlasKeeps
  <2>6. ASSUME NEW b \in BlasHandles, NEW transform \in Transforms, AddInstance(b, transform)
        PROVE  IInv'
    BY <2>1, <2>2, <2>6, AddInstanceKeeps
  <2>7. ASSUME NEW b \in BlasHandles, NEW h \in InstanceHandles, SetInstanceBlas(h, b)
        PROVE  IInv'
    BY <2>1, <2>2, <2>7, SetInstanceBlasKeeps
  <2>8. ASSUME NEW h \in InstanceHandles, NEW transform \in Transforms, UpdateInstance(h, transform)
        PROVE  IInv'
    BY <2>1, <2>2, <2>8, UpdateInstanceKeeps
  <2>9. ASSUME NEW h \in InstanceHandles, RemoveInstance(h)
        PROVE  IInv'
    BY <2>1, <2>2, <2>9, RemoveInstanceKeeps
  <2> QED
    BY <1>1, <2>3, <2>4, <2>5, <2>6, <2>7, <2>8, <2>9, <2>10 DEF Call
<1>2. CASE UNCHANGED calls /\ BeginFrame
  BY <1>2, BeginFrameKeeps
<1>3. CASE UNCHANGED calls /\ NoFrameWork
  BY <1>3, NoFrameWorkKeeps
<1>4. CASE UNCHANGED calls /\ Build
  BY <1>4, BuildKeeps
<1>5. CASE UNCHANGED calls /\ BuildThrows
  BY <1>5, BuildThrowsKeeps
<1>6. CASE UNCHANGED calls /\ EndFrame
  BY <1>6, EndFrameKeeps
<1>7. CASE UNCHANGED calls /\ Destruct
  BY <1>7, DestructKeeps
<1>8. CASE UNCHANGED vars
  BY <1>8, StutterKeeps
<1>9. CASE UNCHANGED calls /\ FlushThrows
  BY <1>9, FlushThrowsKeeps
<1>10. CASE UNCHANGED calls /\ CreateTlasThrows
  BY <1>10, CreateTlasThrowsKeeps
<1>11. CASE UNCHANGED calls /\ WriteInstancesThrows
  BY <1>11, WriteInstancesThrowsKeeps
<1> QED
  BY <1>1, <1>2, <1>3, <1>4, <1>5, <1>6, <1>7, <1>8, <1>9, <1>10, <1>11 DEF Next, Finished

LEMMA Inductive == Spec => []IInv
<1> QED
  BY InitInv, StepInv, PTL DEF Spec

(* Every variable keeps its type, whatever the bounds.                      *)
THEOREM TypeCorrect == Spec => []TypeOK
<1>1. IInv => TypeOK
  <2> SUFFICES ASSUME IInv
               PROVE  TypeOK
    OBVIOUS
  <2>1. \A i \in DOMAIN bottom_level_as :
          /\ {bottom_level_as[i].handle, bottom_level_as[i].scratch_buffer} \subseteq Objects \union {None}
          /\ bottom_level_as[i].dynamic \in BOOLEAN
    <3>1. \A i \in DOMAIN bottom_level_as : bottom_level_as[i] \in BLASes
      BY DEF IInv, Typed, BlasTyped
    <3>2. Of("blas") \subseteq Objects \union {None} /\ Of("scratch") \subseteq Objects \union {None}
      BY DEF Of, Objects
    <3> QED
      BY <3>1, <3>2 DEF BLASes
  <2>2. \A kind, dom, generations, free, V : \A vector \in Seq(V) :
          DOMAIN vector = dom /\ Slots(kind, Current, removed, dom, generations, free) =>
            /\ generations \in Seq(Nat) /\ Len(generations) = Len(vector)
            /\ \A i \in DOMAIN free : free[i] \in dom
    <3> SUFFICES ASSUME NEW kind, NEW dom, NEW generations, NEW free, NEW V, NEW vector \in Seq(V),
                        DOMAIN vector = dom, Slots(kind, Current, removed, dom, generations, free)
                 PROVE  /\ generations \in Seq(Nat) /\ Len(generations) = Len(vector)
                        /\ \A i \in DOMAIN free : free[i] \in dom
      OBVIOUS
    <3>1. generations \in Seq(Nat) /\ DOMAIN generations = DOMAIN vector /\ free \in Seq(dom)
      BY DEF Slots, Reused
    <3>2. /\ DOMAIN generations = 1 .. Len(generations) /\ Len(generations) \in Nat
          /\ DOMAIN vector = 1 .. Len(vector) /\ Len(vector) \in Nat
      BY <3>1
    <3>3. \A m, n \in Nat : 1 .. m = 1 .. n => m = n
      OBVIOUS
    <3>4. Len(generations) = Len(vector)
      BY <3>1, <3>2, <3>3
    <3>5. \A i \in DOMAIN free : free[i] \in dom
      BY <3>1
    <3> QED
      BY <3>1, <3>4, <3>5
  <2>3. /\ blas_generations \in Seq(Nat) /\ Len(blas_generations) = Len(bottom_level_as)
        /\ \A i \in DOMAIN free_blas_indices : free_blas_indices[i] \in DOMAIN bottom_level_as
    BY <2>2 DEF IInv, HandlesInv, BlasSlots, Typed, BlasTyped
  <2>4. /\ instance_generations \in Seq(Nat) /\ Len(instance_generations) = Len(instances)
        /\ \A i \in DOMAIN free_instance_indices : free_instance_indices[i] \in DOMAIN instances
    BY <2>2 DEF IInv, HandlesInv, InstanceSlots, Typed, InstanceTyped
  <2>5. \A i \in DOMAIN instances : /\ instances[i].blas \in Objects \union {None}
                                    /\ instances[i].transform \in Transforms \union {None}
    <3>1. \A i \in DOMAIN instances : instances[i] \in Instances
      BY DEF IInv, Typed, InstanceTyped
    <3>2. Of("blas") \subseteq Objects \union {None}
      BY DEF Of, Objects
    <3> QED
      BY <3>1, <3>2 DEF Instances
  <2>6. /\ \A f \in FrameSlots : /\ instance_buffers[f].buffer \in Objects \union {None}
                                 /\ instance_buffers[f].count \in Nat
        /\ tlas.handle \in Objects \union {None} /\ tlas.primitive_count \in Nat
        /\ tlas.ready \in BOOLEAN
        /\ tlas_outdated \in BOOLEAN
    <3>1. Of("instances") \subseteq Objects \union {None} /\ Of("tlas") \subseteq Objects \union {None}
      BY DEF Of, Objects
    <3> QED
      BY <3>1 DEF IInv, Typed, TlasTyped
  <2>7. blas_update_indices \subseteq DOMAIN bottom_level_as
    BY DEF IInv, Typed, BlasTyped
  <2> QED
    BY <2>1, <2>3, <2>4, <2>5, <2>6, <2>7
    DEF TypeOK, IInv, Typed, ObjectsTyped, Deferred, FrameTyped, DeviceTyped, GivenTyped
<1> QED
  BY <1>1, Inductive, PTL

(* A handle resolves until it is given back, whatever its index is reused    *)
(* for, and no two calls return the same one.                                *)
THEOREM HandlesAlwaysResolve == Spec => []HandlesResolve
<1>1. IInv => HandlesResolve
  <2> SUFFICES ASSUME IInv, phase # "destructed"
               PROVE  /\ BlasHandles \union InstanceHandles = given \ removed
                      /\ Cardinality(given) = created["scratch"] + created["instance"]
    BY DEF HandlesResolve
  <2>1. Current = given /\ given \subseteq Handles
    BY DEF Current, IInv, Typed, GivenTyped
  <2>2. \A h \in given : h.kind = "blas" => (h \notin removed <=> Resolves(blas_generations, h))
    <3> SUFFICES ASSUME NEW h \in given, h.kind = "blas"
                 PROVE  h \notin removed <=> Resolves(blas_generations, h)
      OBVIOUS
    <3>1. /\ h.id \in DOMAIN blas_generations
          /\ h \notin removed <=> h.generation = blas_generations[h.id]
          /\ blas_generations \in Seq(Nat)
      BY <2>1 DEF IInv, HandlesInv, BlasSlots, Slots, Reused
    <3>2. h.id <= Len(blas_generations)
      BY <3>1
    <3> QED
      BY <3>1, <3>2 DEF Resolves
  <2>3. \A h \in given : h.kind = "instance" => (h \notin removed <=> Resolves(instance_generations, h))
    <3> SUFFICES ASSUME NEW h \in given, h.kind = "instance"
                 PROVE  h \notin removed <=> Resolves(instance_generations, h)
      OBVIOUS
    <3>1. /\ h.id \in DOMAIN instance_generations
          /\ h \notin removed <=> h.generation = instance_generations[h.id]
          /\ instance_generations \in Seq(Nat)
      BY <2>1 DEF IInv, HandlesInv, InstanceSlots, Slots, Reused
    <3>2. h.id <= Len(instance_generations)
      BY <3>1
    <3> QED
      BY <3>1, <3>2 DEF Resolves
  <2>4. \A h \in given : h.kind \in {"blas", "instance"}
    BY <2>1 DEF Handles
  <2> QED
    BY <2>2, <2>3, <2>4 DEF BlasHandles, InstanceHandles, IInv, HandlesInv, Counted
<1> QED
  BY <1>1, Inductive, PTL

(* Nothing leaks, nothing is asked to be destroyed twice, and the builder    *)
(* keeps no handle of what is to be destroyed, whichever calls threw, except *)
(* for a TLAS whose acceleration structure could not be created for its      *)
(* buffer, which leaks, and a buffer of instances that could not be replaced.*)
THEOREM DestroysOnce == Spec => []DestroyedOnce
<1>1. IInv => DestroyedOnce
  BY DEF IInv, ObjectsInv, Accounted, DestroyedOnce
<1> QED
  BY <1>1, Inductive, PTL

(* As long as no begin_frame threw, what is removed or replaced stays alive  *)
(* while a frame in flight can use it, unless the application's own calls    *)
(* left it dangling: an instance of a removed BLAS, or the update of one     *)
(* that is not dynamic.  The host never writes a buffer of instances that    *)
(* another frame in flight may read.                                         *)
THEOREM FramesAlwaysUseLive == Spec => []FramesUseLive
<1>1. IInv => FramesUseLive
  <2> SUFFICES ASSUME IInv
               PROVE  FramesUseLive
    OBVIOUS
  <2>1. failures = 0 => \A f \in FrameSlots : uses[f] \ misused \subseteq live
    BY DEF IInv, UsesInv
  <2>2. \A f, g \in FrameSlots : f # g => instance_buffers[f].buffer \notin uses[g]
    BY DEF IInv, BuffersInv
  <2>3. \A i \in blas_update_indices : bottom_level_as[i].handle # None
    BY DEF IInv, BlasesInv, Typed, BlasTyped
  <2> QED
    BY <2>1, <2>2, <2>3 DEF FramesUseLive
<1> QED
  BY <1>1, Inductive, PTL

(* A frame traces the instances as they are when it begins, and every BLAS   *)
(* is built with its last changes, unless a begin_frame threw.               *)
THEOREM ChangesGetBuilt == Spec => ChangesAreBuilt
<1>1. IInv /\ IInv' /\ [Next]_vars => [phase = "begun" /\ phase' = "frame" /\ failures = 0 => SceneBuilt']_vars
  <2> SUFFICES ASSUME IInv, IInv', Next, phase = "begun", phase' = "frame", failures = 0
               PROVE  SceneBuilt'
    OBVIOUS
  <2>1. failures' = 0 /\ ~tlas_outdated' /\ blas_update_indices' = {}
    <3>1. /\ ~Call /\ ~BeginFrame /\ ~FlushThrows /\ ~EndFrame /\ ~Destruct /\ ~Finished
          /\ ~BuildThrows /\ ~CreateTlasThrows /\ ~WriteInstancesThrows
      <4>1. ~Call
        BY DEF Call
      <4> QED
        BY <4>1 DEF BeginFrame, FlushThrows, EndFrame, Destruct, Finished, BuildThrows,
                    CreateTlasThrows, WriteInstancesThrows, LeaveFrame
    <3>2. CASE NoFrameWork
      BY <3>2 DEF NoFrameWork, has_frame_work, blasVars, IInv, Typed, TlasTyped
    <3>3. CASE Build
      BY <3>3 DEF Build, Record, BuildBlases
    <3> QED
      BY <3>1, <3>2, <3>3 DEF Next
  <2>2. /\ tlas_contents' = [handle |-> tlas'.handle, instances |-> instances']
        /\ \A i \in DOMAIN bottom_level_as' : InUse(i)' => bottom_level_as'[i].handle \in built'
    BY <2>1 DEF IInv, SceneInv
  <2>3. \A h \in BlasHandles' : h.id \in DOMAIN bottom_level_as' /\ InUse(h.id)'
    <3> SUFFICES ASSUME NEW h \in BlasHandles'
                 PROVE  h.id \in DOMAIN bottom_level_as' /\ InUse(h.id)'
      OBVIOUS
    <3>1. h \in given' /\ h.kind = "blas" /\ h.generation = blas_generations'[h.id]
      BY DEF BlasHandles, Resolves
    <3>2. Current' = given'
      BY DEF Current
    <3> QED
      BY <3>1, <3>2 DEF IInv, HandlesInv, BlasSlots, Slots, BlasesInv
  <2> QED
    BY <2>2, <2>3 DEF SceneBuilt
<1> QED
  BY <1>1, Inductive, StepInv, PTL DEF Spec, ChangesAreBuilt
=============================================================================
