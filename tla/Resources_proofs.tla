-------------------------- MODULE Resources_proofs --------------------------
(***************************************************************************)
(* Proofs about Storage, about Swapchain on it, and about the descriptors    *)
(* that are declared beside, for any number of resources, failures and       *)
(* resizes, images, refresh interval and any bounds.                         *)
(*                                                                           *)
(* Storage keeps the promise of ResourceStore: a new handle was never given  *)
(* before because the generation of a slot only grows, every handle given    *)
(* for a slot has at most its generation, and less than that while the slot  *)
(* is empty.  This needs free slots to be empty and free once: a slot that   *)
(* is free twice is overwritten under its handle.  The swapchain and the     *)
(* declarations use the storage only through its operations, so what is      *)
(* proved of it holds in their composition too.                              *)
(***************************************************************************)
EXTENDS Resources, SequenceTheorems, TLAPS

-----------------------------------------------------------------------------
(* The inductive invariant.                                                 *)

FreeInRange ==
  \A k \in Kinds : \A i \in DOMAIN free_slots[k] : free_slots[k][i] < Len(elements[k])

(* A slot was freed no more often than resources were created.               *)
Generations ==
  \A k \in Kinds : \A n \in DOMAIN elements[k] :
    /\ elements[k][n].generation <= created
    /\ elements[k][n].value # Empty => elements[k][n].generation < created

(* What a handle given before says about its slot.                           *)
GivenBefore ==
  ~cleared => \A h \in DOMAIN given :
    /\ InRange(h)
    /\ h.generation <= At(h.kind, h.id).generation
    /\ At(h.kind, h.id).value = Empty => h.generation < At(h.kind, h.id).generation

SInv == TypeOK /\ FreeSlotsEmpty /\ FreeInRange /\ Generations /\ GivenBefore

-----------------------------------------------------------------------------
(* Writing one element of a vector.                                         *)

LEMMA WriteElement ==
  ASSUME elements \in [Kinds -> Seq(Element)], NEW k \in Kinds, NEW n \in DOMAIN elements[k],
         NEW e \in Element,
         elements' = [elements EXCEPT ![k] = [elements[k] EXCEPT ![n] = e]]
  PROVE  /\ elements' \in [Kinds -> Seq(Element)]
         /\ elements'[k][n] = e
         /\ \A m \in Kinds : /\ Len(elements'[m]) = Len(elements[m])
                             /\ DOMAIN elements'[m] = DOMAIN elements[m]
         /\ \A m \in Kinds : \A i \in DOMAIN elements[m] :
              m # k \/ i # n => elements'[m][i] = elements[m][i]
<1>1. elements[k] \in Seq(Element)
  OBVIOUS
<1>2. [elements[k] EXCEPT ![n] = e] \in Seq(Element)
  BY <1>1
<1>3. elements'[k] = [elements[k] EXCEPT ![n] = e]
  OBVIOUS
<1>4. \A m \in Kinds \ {k} : elements'[m] = elements[m]
  OBVIOUS
<1>5. /\ Len(elements'[k]) = Len(elements[k])
      /\ DOMAIN elements'[k] = DOMAIN elements[k]
      /\ elements'[k][n] = e
      /\ \A i \in DOMAIN elements[k] \ {n} : elements'[k][i] = elements[k][i]
  BY <1>1, <1>3
<1> QED
  BY <1>2, <1>4, <1>5

(* Where the handles lead: what ResourceStore calls the store.               *)
Leads == [h \in LiveHandles |-> At(h.kind, h.id).value]

LEMMA LiveMeans ==
  ASSUME TypeOK, NEW h \in DOMAIN given
  PROVE  h \in LiveHandles <=> /\ InRange(h)
                               /\ h.generation = At(h.kind, h.id).generation
                               /\ At(h.kind, h.id).value # Empty
BY DEF LiveHandles, Get

(* The position of a given handle's slot in its vector.                      *)
LEMMA SlotOfHandle ==
  ASSUME TypeOK, NEW h \in DOMAIN given, InRange(h)
  PROVE  h.kind \in Kinds /\ h.id + 1 \in DOMAIN elements[h.kind]
BY DEF TypeOK, Handles, InRange

LEMMA SameHandle ==
  ASSUME NEW g \in Handles, NEW h \in Handles,
         g.kind = h.kind, g.id = h.id, g.generation = h.generation
  PROVE  g = h
BY DEF Handles

-----------------------------------------------------------------------------
(* What taking a slot from a free list leaves.                              *)

LEMMA ButLast ==
  ASSUME NEW S, NEW s \in Seq(S), s # <<>>
  PROVE  /\ Len(s) \in DOMAIN s /\ Last(s) = s[Len(s)] /\ Last(s) \in S
         /\ SubSeq(s, 1, Len(s) - 1) \in Seq(S)
         /\ \A i \in DOMAIN SubSeq(s, 1, Len(s) - 1) :
              i \in DOMAIN s /\ SubSeq(s, 1, Len(s) - 1)[i] = s[i] /\ i # Len(s)
<1>1. Len(s) \in Nat \ {0}
  OBVIOUS
<1>2. /\ SubSeq(s, 1, Len(s) - 1) \in Seq(S)
      /\ Len(SubSeq(s, 1, Len(s) - 1)) = Len(s) - 1
      /\ \A i \in 1 .. Len(s) - 1 : SubSeq(s, 1, Len(s) - 1)[i] = s[i]
  <2> DEFINE n == Len(s) - 1
  <2>1. n \in Nat /\ \A i \in 1 .. n : s[i] \in S
    BY <1>1
  <2>2. /\ SubSeq(s, 1, n) \in Seq(S)
        /\ Len(SubSeq(s, 1, n)) = IF 1 <= n THEN n - 1 + 1 ELSE 0
        /\ \A i \in 1 .. n - 1 + 1 : SubSeq(s, 1, n)[i] = s[1 + i - 1]
    <3> HIDE DEF n
    <3> QED
      BY <2>1, SubSeqProperties
  <2> HIDE DEF n
  <2>3. /\ Len(SubSeq(s, 1, n)) = n
        /\ \A i \in 1 .. n : SubSeq(s, 1, n)[i] = s[i]
    BY <2>1, <2>2
  <2> QED
    BY <2>2, <2>3 DEF n
<1> QED
  BY <1>1, <1>2 DEF Last

LEMMA PoppedFree ==
  ASSUME SInv, NEW k \in Kinds, free_slots[k] # <<>>,
         free_slots' = [free_slots EXCEPT ![k] = SubSeq(free_slots[k], 1, Len(free_slots[k]) - 1)]
  PROVE  /\ free_slots' \in [Kinds -> Seq(0 .. MaxSlots - 1)]
         /\ \A m \in Kinds : \A i \in DOMAIN free_slots'[m] :
              /\ i \in DOMAIN free_slots[m]
              /\ free_slots'[m][i] = free_slots[m][i]
              /\ m = k => free_slots'[m][i] # Last(free_slots[k])
         /\ Last(free_slots[k]) \in 0 .. MaxSlots - 1
         /\ Last(free_slots[k]) + 1 \in DOMAIN elements[k]
         /\ elements[k][Last(free_slots[k]) + 1].value = Empty
<1> DEFINE s == free_slots[k]
<1>1. s \in Seq(0 .. MaxSlots - 1)
  BY DEF SInv, TypeOK
<1>2. /\ Len(s) \in DOMAIN s /\ Last(s) = s[Len(s)] /\ Last(s) \in 0 .. MaxSlots - 1
      /\ SubSeq(s, 1, Len(s) - 1) \in Seq(0 .. MaxSlots - 1)
      /\ \A i \in DOMAIN SubSeq(s, 1, Len(s) - 1) :
           i \in DOMAIN s /\ SubSeq(s, 1, Len(s) - 1)[i] = s[i] /\ i # Len(s)
  <2> HIDE DEF s
  <2> QED
    BY <1>1, ButLast DEF s
<1>3. free_slots' \in [Kinds -> Seq(0 .. MaxSlots - 1)]
  BY <1>2 DEF SInv, TypeOK
<1>4. /\ free_slots'[k] = SubSeq(s, 1, Len(s) - 1)
      /\ \A m \in Kinds \ {k} : free_slots'[m] = free_slots[m]
  BY DEF SInv, TypeOK
<1>5. \A i \in DOMAIN free_slots'[k] :
        i \in DOMAIN s /\ free_slots'[k][i] = s[i] /\ i # Len(s)
  BY <1>2, <1>4
<1>6. \A i \in DOMAIN free_slots'[k] : s[i] # Last(s)
  BY <1>2, <1>5 DEF SInv, FreeSlotsEmpty
<1>7. /\ Last(s) \in 0 .. MaxSlots - 1
      /\ Last(s) + 1 \in DOMAIN elements[k]
  <2>1. Last(s) < Len(elements[k]) /\ elements[k] \in Seq(Element)
    BY <1>2 DEF SInv, TypeOK, FreeInRange
  <2> QED
    BY <1>2, <2>1, BoundsAssumption
<1>8. elements[k][Last(s) + 1].value = Empty
  BY <1>2 DEF SInv, FreeSlotsEmpty, At
<1> QED
  BY <1>3, <1>4, <1>5, <1>6, <1>7, <1>8

-----------------------------------------------------------------------------
(* Adding a resource, in a reused slot or in a new one.                     *)

(* The slot of g is as before, or was empty and now has a resource.          *)
KeptOrFilled(g) ==
  /\ InRange(g)'
  /\ \/ At(g.kind, g.id)' = At(g.kind, g.id)
     \/ /\ At(g.kind, g.id).value = Empty
        /\ At(g.kind, g.id)'.generation = At(g.kind, g.id).generation
        /\ At(g.kind, g.id)'.value # Empty

LEMMA AddedIsFound ==
  ASSUME TypeOK, GivenBefore, ~cleared, TypeOK', cleared' = cleared,
         NEW h \in Handles, h \notin DOMAIN given, Give(h), InRange(h)',
         At(h.kind, h.id)'.generation = h.generation,
         At(h.kind, h.id)'.value = created', created' \in 1 .. MaxCreated,
         \A g \in DOMAIN given : KeptOrFilled(g)
  PROVE  GivenBefore' /\ Store!Add(h, created')
<1>1. DOMAIN given' = DOMAIN given \union {h}
  BY DEF Give
<1>2. created' # Empty
  BY EmptyAssumption
<1>3. ASSUME NEW g \in DOMAIN given
      PROVE  /\ InRange(g)'
             /\ g.generation <= At(g.kind, g.id)'.generation
             /\ At(g.kind, g.id)'.value = Empty => g.generation < At(g.kind, g.id)'.generation
  BY <1>3 DEF GivenBefore, KeptOrFilled
<1>4. GivenBefore'
  <2> SUFFICES ASSUME NEW g \in DOMAIN given'
               PROVE  /\ InRange(g)'
                      /\ g.generation <= At(g.kind, g.id)'.generation
                      /\ At(g.kind, g.id)'.value = Empty => g.generation < At(g.kind, g.id)'.generation
    BY DEF GivenBefore
  <2>1. CASE g = h
    BY <1>2, <2>1 DEF Handles
  <2> QED
    BY <1>1, <1>3, <2>1
<1>5. h \in LiveHandles'
  BY <1>1, <1>2 DEF LiveHandles, Get
<1>6. ASSUME NEW g \in DOMAIN given
      PROVE  /\ g \in LiveHandles' <=> g \in LiveHandles
             /\ g \in LiveHandles => At(g.kind, g.id)' = At(g.kind, g.id)
  <2>1. KeptOrFilled(g) /\ g \in DOMAIN given' /\ InRange(g) /\ g \in Handles
    BY <1>1 DEF GivenBefore, TypeOK
  <2>2. CASE At(g.kind, g.id)' = At(g.kind, g.id)
    BY <2>1, <2>2 DEF LiveHandles, Get, KeptOrFilled
  <2>3. CASE /\ At(g.kind, g.id).value = Empty
             /\ At(g.kind, g.id)'.generation = At(g.kind, g.id).generation
    <3>1. g.generation < At(g.kind, g.id).generation
      BY <2>3 DEF GivenBefore
    <3>2. g.generation # At(g.kind, g.id).generation
      BY <2>1, <3>1 DEF Handles
    <3>3. g \notin LiveHandles /\ g \notin LiveHandles'
      BY <2>3, <3>2 DEF LiveHandles, Get
    <3> QED
      BY <3>3
  <2> QED
    BY <2>1, <2>2, <2>3 DEF KeptOrFilled
<1>7. h \notin LiveHandles /\ LiveHandles' = LiveHandles \union {h}
  BY <1>1, <1>5, <1>6 DEF LiveHandles
<1>8. Leads' = [g \in LiveHandles \union {h} |-> IF g = h THEN created' ELSE Leads[g]]
  BY <1>6, <1>7 DEF Leads, LiveHandles
<1> QED
  BY <1>1, <1>4, <1>8 DEF Store!Add, Leads

LEMMA SlotFacts ==
  ASSUME SInv, NEW k \in Kinds, NEW n \in DOMAIN elements[k]
  PROVE  /\ elements[k][n] \in Element
         /\ elements[k][n].generation \in Nat
         /\ elements[k][n].generation <= created
         /\ elements[k][n].value # Empty => elements[k][n].generation < created
<1>1. elements[k] \in Seq(Element)
  BY DEF SInv, TypeOK
<1>2. elements[k][n] \in Element
  BY <1>1
<1> QED
  BY <1>2 DEF SInv, Element, Generations

LEMMA FreeFacts ==
  ASSUME SInv, NEW k \in Kinds, NEW i \in DOMAIN free_slots[k]
  PROVE  /\ free_slots[k][i] \in 0 .. MaxSlots - 1
         /\ free_slots[k][i] \in Nat
         /\ free_slots[k][i] + 1 \in DOMAIN elements[k]
         /\ elements[k][free_slots[k][i] + 1].value = Empty
<1>1. free_slots[k] \in Seq(0 .. MaxSlots - 1) /\ elements[k] \in Seq(Element)
  BY DEF SInv, TypeOK
<1>2. free_slots[k][i] \in 0 .. MaxSlots - 1
  <2> DEFINE S == 0 .. MaxSlots - 1
  <2>1. free_slots[k] \in Seq(S) /\ i \in DOMAIN free_slots[k]
    BY <1>1
  <2> HIDE DEF S
  <2>2. free_slots[k][i] \in S
    BY <2>1
  <2> QED
    BY <2>2 DEF S
<1>3. free_slots[k][i] < Len(elements[k])
  BY DEF SInv, FreeInRange
<1>4. elements[k][free_slots[k][i] + 1].value = Empty
  BY DEF SInv, FreeSlotsEmpty, At
<1> QED
  BY <1>1, <1>2, <1>3, <1>4, BoundsAssumption

LEMMA ReuseAdds ==
  ASSUME SInv, NEW k \in Kinds, Reuse(k)
  PROVE  SInv' /\ \E h \in Handles : Store!Add(h, created')
<1> DEFINE id == Last(free_slots[k])
           n == id + 1
           old == elements[k][n]
           new == [value |-> created', generation |-> old.generation]
<1>1. /\ ~cleared /\ created < MaxCreated
      /\ created' = created + 1
      /\ free_slots' = [free_slots EXCEPT ![k] = SubSeq(free_slots[k], 1, Len(free_slots[k]) - 1)]
      /\ Give(HandleOf(k, id))
      /\ UNCHANGED <<failures, cleared>>
  BY DEF Reuse
<1>2. created' \in 1 .. MaxCreated /\ created \in Nat /\ created' # Empty
  BY <1>1, BoundsAssumption, EmptyAssumption DEF SInv, TypeOK
<1>3. /\ free_slots' \in [Kinds -> Seq(0 .. MaxSlots - 1)]
      /\ \A m \in Kinds : \A i \in DOMAIN free_slots'[m] :
           /\ i \in DOMAIN free_slots[m]
           /\ free_slots'[m][i] = free_slots[m][i]
           /\ m = k => free_slots'[m][i] # id
      /\ id \in 0 .. MaxSlots - 1 /\ n \in DOMAIN elements[k] /\ old.value = Empty
  BY <1>1, PoppedFree DEF Reuse
<1>4. old \in Element /\ old.generation \in Nat /\ old.generation <= created
  <2> HIDE DEF n
  <2> QED
    BY <1>3, SlotFacts DEF old
<1>5. new \in Element
  BY <1>2, <1>4 DEF Element
<1>6. elements' = [elements EXCEPT ![k] = [elements[k] EXCEPT ![n] = new]]
  <2>1. [old EXCEPT !.value = created'] = new
    BY <1>4 DEF Element
  <2> QED
    BY <2>1, <1>3 DEF Reuse, SInv, TypeOK
<1>7. /\ elements' \in [Kinds -> Seq(Element)]
      /\ elements'[k][n] = new
      /\ \A m \in Kinds : /\ Len(elements'[m]) = Len(elements[m])
                          /\ DOMAIN elements'[m] = DOMAIN elements[m]
      /\ \A m \in Kinds : \A i \in DOMAIN elements[m] :
           m # k \/ i # n => elements'[m][i] = elements[m][i]
  <2> HIDE DEF n, new
  <2> QED
    BY <1>3, <1>5, <1>6, WriteElement DEF SInv, TypeOK
<1>8. PICK h \in Handles : /\ h = HandleOf(k, id)
                           /\ h.kind = k /\ h.id = id /\ h.generation = old.generation
  <2>1. old.generation \in 0 .. MaxCreated
    BY <1>1, <1>2, <1>4, BoundsAssumption
  <2>2. /\ HandleOf(k, id).kind = k /\ HandleOf(k, id).id = id
        /\ HandleOf(k, id).generation = old.generation
        /\ HandleOf(k, id) \in Handles
    BY <1>3, <2>1 DEF HandleOf, At, Handles
  <2> QED
    BY <2>2
<1> HIDE DEF id, n, old, new
<1>9. TypeOK'
  <2>1. DOMAIN given' \subseteq Handles
    BY <1>1, <1>8 DEF Give, SInv, TypeOK
  <2>2. created' \in 0 .. MaxCreated
    BY <1>2
  <2> QED
    BY <1>1, <1>3, <1>7, <2>1, <2>2 DEF SInv, TypeOK
<1>10. FreeInRange'
  BY <1>3, <1>7 DEF SInv, FreeInRange
<1>11. FreeSlotsEmpty'
  <2> SUFFICES ASSUME NEW m \in Kinds, NEW i \in DOMAIN free_slots'[m],
                      NEW j \in DOMAIN free_slots'[m]
               PROVE  /\ elements'[m][free_slots'[m][i] + 1].value = Empty
                      /\ i # j => free_slots'[m][i] # free_slots'[m][j]
    BY DEF FreeSlotsEmpty, At
  <2>1. /\ elements[m][free_slots'[m][i] + 1].value = Empty
        /\ i # j => free_slots'[m][i] # free_slots'[m][j]
    BY <1>3 DEF SInv, FreeSlotsEmpty, At
  <2>2. free_slots'[m][i] \in Nat
    BY <1>3, FreeFacts
  <2>3. free_slots'[m][i] + 1 \in DOMAIN elements[m]
    BY <1>3, FreeFacts
  <2>4. m # k \/ free_slots'[m][i] + 1 # n
    BY <1>3, <2>2, BoundsAssumption DEF n
  <2> QED
    BY <1>7, <2>1, <2>3, <2>4
<1>12. Generations'
  <2> SUFFICES ASSUME NEW m \in Kinds, NEW i \in DOMAIN elements[m]
               PROVE  /\ elements'[m][i].generation <= created'
                      /\ elements'[m][i].value # Empty => elements'[m][i].generation < created'
    BY <1>7 DEF Generations
  <2>1. CASE m = k /\ i = n
    BY <1>1, <1>2, <1>4, <1>7, <2>1 DEF new
  <2>2. CASE m # k \/ i # n
    <3>1. elements'[m][i] = elements[m][i]
      BY <1>7, <2>2
    <3> QED
      BY <1>1, <1>2, <3>1, SlotFacts
  <2> QED
    BY <2>1, <2>2
<1>13. h \notin DOMAIN given
  BY <1>1, <1>3, <1>4, <1>8 DEF SInv, GivenBefore, At, n, old
<1>14. ASSUME NEW g \in DOMAIN given
       PROVE  KeptOrFilled(g)
  <2>1. g \in Handles /\ InRange(g) /\ g.kind \in Kinds /\ g.id + 1 \in DOMAIN elements[g.kind]
    BY <1>1, SlotOfHandle DEF SInv, TypeOK, GivenBefore
  <2>2. InRange(g)'
    BY <1>7, <2>1 DEF InRange
  <2>3. CASE g.kind = k /\ g.id + 1 = n
    BY <1>2, <1>3, <1>7, <2>2, <2>3 DEF KeptOrFilled, At, new, old
  <2>4. CASE g.kind # k \/ g.id + 1 # n
    BY <1>7, <2>1, <2>2, <2>4 DEF KeptOrFilled, At
  <2> QED
    BY <2>3, <2>4
<1>15. /\ InRange(h)'
       /\ At(h.kind, h.id)'.generation = h.generation
       /\ At(h.kind, h.id)'.value = created'
  <2>1. elements'[h.kind][h.id + 1] = new
    BY <1>7, <1>8 DEF n
  <2>2. InRange(h)'
    <3>1. id \in Nat /\ Len(elements[k]) \in Nat /\ DOMAIN elements[k] = 1 .. Len(elements[k])
      BY <1>3, BoundsAssumption DEF SInv, TypeOK
    <3>2. id < Len(elements[k])
      BY <1>3, <3>1 DEF n
    <3> QED
      BY <1>7, <1>8, <3>2 DEF InRange
  <2> QED
    BY <1>8, <2>1, <2>2 DEF At, new
<1>16. GivenBefore' /\ Store!Add(h, created')
  BY <1>1, <1>2, <1>8, <1>9, <1>13, <1>14, <1>15, AddedIsFound DEF SInv
<1> QED
  BY <1>8, <1>9, <1>10, <1>11, <1>12, <1>16 DEF SInv

LEMMA PushAdds ==
  ASSUME SInv, NEW k \in Kinds, Push(k)
  PROVE  SInv' /\ \E h \in Handles : Store!Add(h, created')
<1> DEFINE new == [value |-> created', generation |-> 0]
           length == Len(elements[k])
<1>1. /\ ~cleared /\ created < MaxCreated
      /\ length < MaxSlots
      /\ created' = created + 1
      /\ elements' = [elements EXCEPT ![k] = Append(elements[k], new)]
      /\ Give([kind |-> k, id |-> length, generation |-> 0])
      /\ UNCHANGED <<free_slots, failures, cleared>>
  BY DEF Push
<1>2. created' \in 1 .. MaxCreated /\ created \in Nat /\ created' # Empty
  BY <1>1, BoundsAssumption, EmptyAssumption DEF SInv, TypeOK
<1>3. new \in Element
  BY <1>2 DEF Element
<1>4. /\ elements[k] \in Seq(Element) /\ length \in Nat /\ DOMAIN elements[k] = 1 .. length
      /\ Append(elements[k], new) \in Seq(Element)
  BY <1>3 DEF SInv, TypeOK
<1>5. /\ elements' \in [Kinds -> Seq(Element)]
      /\ DOMAIN elements'[k] = DOMAIN elements[k] \union {length + 1}
      /\ Len(elements'[k]) = length + 1
      /\ elements'[k][length + 1] = new
      /\ \A i \in DOMAIN elements[k] : elements'[k][i] = elements[k][i]
      /\ \A m \in Kinds \ {k} : elements'[m] = elements[m]
  BY <1>1, <1>4 DEF SInv, TypeOK
<1>6. PICK h \in Handles : h = [kind |-> k, id |-> length, generation |-> 0]
  BY <1>1, <1>4, BoundsAssumption DEF Handles
<1> HIDE DEF new
<1>7. TypeOK'
  <2>1. DOMAIN given' \subseteq Handles
    BY <1>1, <1>6 DEF Give, SInv, TypeOK
  <2>2. created' \in 0 .. MaxCreated
    BY <1>2
  <2> QED
    BY <1>1, <1>5, <2>1, <2>2 DEF SInv, TypeOK
<1>8. \A m \in Kinds : \A i \in DOMAIN elements[m] :
        i \in DOMAIN elements'[m] /\ elements'[m][i] = elements[m][i]
  BY <1>5
<1>9. FreeInRange'
  <2> SUFFICES ASSUME NEW m \in Kinds, NEW i \in DOMAIN free_slots[m]
               PROVE  free_slots[m][i] < Len(elements'[m])
    BY <1>1 DEF FreeInRange
  <2>1. free_slots[m][i] < Len(elements[m]) /\ free_slots[m][i] \in Nat
    BY FreeFacts DEF SInv, FreeInRange
  <2>2. CASE m = k
    BY <1>4, <1>5, <2>1, <2>2
  <2>3. CASE m # k
    BY <1>5, <2>1, <2>3
  <2> QED
    BY <2>2, <2>3
<1>10. FreeSlotsEmpty'
  <2> SUFFICES ASSUME NEW m \in Kinds, NEW i \in DOMAIN free_slots'[m],
                      NEW j \in DOMAIN free_slots'[m]
               PROVE  /\ elements'[m][free_slots'[m][i] + 1].value = Empty
                      /\ i # j => free_slots'[m][i] # free_slots'[m][j]
    BY DEF FreeSlotsEmpty, At
  <2>1. free_slots' = free_slots
    BY <1>1
  <2>2. i # j => free_slots'[m][i] # free_slots'[m][j]
    BY <2>1 DEF SInv, FreeSlotsEmpty
  <2> QED
    BY <1>8, <2>1, <2>2, FreeFacts
<1>11. Generations'
  <2> SUFFICES ASSUME NEW m \in Kinds, NEW i \in DOMAIN elements'[m]
               PROVE  /\ elements'[m][i].generation <= created'
                      /\ elements'[m][i].value # Empty => elements'[m][i].generation < created'
    BY DEF Generations
  <2>1. CASE m = k /\ i = length + 1
    BY <1>1, <1>2, <1>5, <2>1 DEF new
  <2>2. CASE i \in DOMAIN elements[m]
    BY <1>1, <1>2, <1>8, <2>2, SlotFacts
  <2> QED
    BY <1>5, <2>1, <2>2
<1>12. h \notin DOMAIN given
  BY <1>1, <1>4, <1>6 DEF SInv, GivenBefore, InRange
<1>13. ASSUME NEW g \in DOMAIN given
       PROVE  KeptOrFilled(g)
  <2>1. /\ g \in Handles /\ InRange(g) /\ g.kind \in Kinds
        /\ g.id + 1 \in DOMAIN elements[g.kind]
    BY <1>1, SlotOfHandle DEF SInv, TypeOK, GivenBefore
  <2>2. InRange(g)'
    <3>1. g.id \in Nat
      BY <2>1 DEF Handles
    <3>2. CASE g.kind = k
      BY <1>4, <1>5, <2>1, <3>1, <3>2 DEF InRange
    <3>3. CASE g.kind # k
      BY <1>5, <2>1, <3>3 DEF InRange
    <3> QED
      BY <3>2, <3>3
  <2> QED
    BY <1>8, <2>1, <2>2 DEF KeptOrFilled, At
<1>14. /\ InRange(h)'
       /\ At(h.kind, h.id)'.generation = h.generation
       /\ At(h.kind, h.id)'.value = created'
  BY <1>4, <1>5, <1>6 DEF InRange, At, new
<1>15. GivenBefore' /\ Store!Add(h, created')
  BY <1>1, <1>2, <1>6, <1>7, <1>12, <1>13, <1>14, AddedIsFound DEF SInv
<1> QED
  BY <1>6, <1>7, <1>9, <1>10, <1>11, <1>15 DEF SInv

-----------------------------------------------------------------------------
(* The other steps.                                                         *)

LEMMA ReuseThrowsStutters ==
  ASSUME SInv, NEW k \in Kinds, ReuseThrows(k)
  PROVE  SInv' /\ UNCHANGED <<Leads, DOMAIN given>>
<1>1. /\ failures < MaxFailures
      /\ failures' = failures + 1
      /\ free_slots' = [free_slots EXCEPT ![k] = SubSeq(free_slots[k], 1, Len(free_slots[k]) - 1)]
      /\ UNCHANGED <<elements, created, cleared, given>>
  BY DEF ReuseThrows
<1>2. /\ free_slots' \in [Kinds -> Seq(0 .. MaxSlots - 1)]
      /\ \A m \in Kinds : \A i \in DOMAIN free_slots'[m] :
           i \in DOMAIN free_slots[m] /\ free_slots'[m][i] = free_slots[m][i]
  BY <1>1, PoppedFree DEF ReuseThrows
<1>3. TypeOK'
  BY <1>1, <1>2, BoundsAssumption DEF SInv, TypeOK
<1>4. FreeSlotsEmpty' /\ FreeInRange'
  BY <1>1, <1>2 DEF SInv, FreeSlotsEmpty, FreeInRange, At
<1>5. Generations' /\ GivenBefore'
  BY <1>1 DEF SInv, Generations, GivenBefore, InRange, At
<1>6. UNCHANGED <<Leads, DOMAIN given>>
  BY <1>1 DEF Leads, LiveHandles, Get, InRange, At
<1> QED
  BY <1>3, <1>4, <1>5, <1>6 DEF SInv

LEMMA DestroyDestroys ==
  ASSUME SInv, NEW h \in DOMAIN given, Destroy(h)
  PROVE  SInv' /\ h \in Handles /\ Store!Destroy(h)
<1> DEFINE k == h.kind
           n == h.id + 1
           old == elements[k][n]
           new == Freed(old)
<1>1. /\ ~cleared
      /\ elements' = [elements EXCEPT ![k] = [elements[k] EXCEPT ![n] = new]]
      /\ free_slots' = [free_slots EXCEPT ![k] = Append(free_slots[k], h.id)]
      /\ UNCHANGED <<created, failures, cleared, given>>
  BY DEF Destroy
<1>2. /\ h \in LiveHandles /\ InRange(h)
      /\ h.generation = old.generation /\ old.value # Empty
      /\ k \in Kinds /\ n \in DOMAIN elements[k]
      /\ h \in Handles /\ h.id \in 0 .. MaxSlots - 1 /\ h.id \in Nat
  <2>1. h \in LiveHandles
    BY DEF Destroy, LiveHandles
  <2>2. h \in Handles /\ h.id \in 0 .. MaxSlots - 1 /\ h.id \in Nat
    BY BoundsAssumption DEF SInv, TypeOK, Handles
  <2> QED
    BY <2>1, <2>2, LiveMeans, SlotOfHandle DEF SInv, At
<1>3. /\ old.generation \in Nat /\ old.generation < created /\ created \in Nat
  <2>1. created \in Nat
    BY BoundsAssumption DEF SInv, TypeOK
  <2> HIDE DEF k, n
  <2> QED
    BY <1>2, <2>1, SlotFacts DEF old
<1>4. new \in Element /\ new.value = Empty /\ new.generation = old.generation + 1
  BY <1>3 DEF Freed, Element
<1>5. /\ elements' \in [Kinds -> Seq(Element)]
      /\ elements'[k][n] = new
      /\ \A m \in Kinds : /\ Len(elements'[m]) = Len(elements[m])
                          /\ DOMAIN elements'[m] = DOMAIN elements[m]
      /\ \A m \in Kinds : \A i \in DOMAIN elements[m] :
           m # k \/ i # n => elements'[m][i] = elements[m][i]
  <2> HIDE DEF k, n, new
  <2> QED
    BY <1>1, <1>2, <1>4, WriteElement DEF SInv, TypeOK
<1> HIDE DEF old, new
<1>6. /\ free_slots' \in [Kinds -> Seq(0 .. MaxSlots - 1)]
      /\ DOMAIN free_slots'[k] = DOMAIN free_slots[k] \union {Len(free_slots[k]) + 1}
      /\ free_slots'[k][Len(free_slots[k]) + 1] = h.id
      /\ \A i \in DOMAIN free_slots[k] : free_slots'[k][i] = free_slots[k][i]
      /\ \A m \in Kinds \ {k} : free_slots'[m] = free_slots[m]
  <2> DEFINE S == 0 .. MaxSlots - 1
  <2> HIDE DEF S, k
  <2>1. free_slots \in [Kinds -> Seq(S)] /\ h.id \in S
    BY <1>2 DEF SInv, TypeOK, S
  <2>2. Append(free_slots[k], h.id) \in Seq(S)
    BY <1>2, <2>1
  <2> QED
    BY <1>1, <1>2, <2>1, <2>2 DEF S
<1>7. TypeOK'
  BY <1>1, <1>5, <1>6 DEF SInv, TypeOK
<1>8. FreeInRange'
  <2> SUFFICES ASSUME NEW m \in Kinds, NEW i \in DOMAIN free_slots'[m]
               PROVE  free_slots'[m][i] < Len(elements[m])
    BY <1>5 DEF FreeInRange
  <2>1. CASE m = k /\ i = Len(free_slots[k]) + 1
    BY <1>2, <1>6, <2>1 DEF InRange
  <2>2. CASE i \in DOMAIN free_slots[m]
    BY <1>6, <2>2 DEF SInv, FreeInRange
  <2> QED
    BY <1>6, <2>1, <2>2
<1>9. \A i \in DOMAIN free_slots[k] : free_slots[k][i] # h.id
  BY <1>2, FreeFacts DEF old
<1>10. FreeSlotsEmpty'
  <2> SUFFICES ASSUME NEW m \in Kinds, NEW i \in DOMAIN free_slots'[m],
                      NEW j \in DOMAIN free_slots'[m]
               PROVE  /\ elements'[m][free_slots'[m][i] + 1].value = Empty
                      /\ i # j => free_slots'[m][i] # free_slots'[m][j]
    BY DEF FreeSlotsEmpty, At
  <2>1. elements'[m][free_slots'[m][i] + 1].value = Empty
    <3>1. CASE m = k /\ i = Len(free_slots[k]) + 1
      BY <1>4, <1>5, <1>6, <3>1
    <3>2. CASE i \in DOMAIN free_slots[m]
      <4>1. /\ free_slots'[m][i] = free_slots[m][i]
            /\ free_slots[m][i] + 1 \in DOMAIN elements[m]
            /\ elements[m][free_slots[m][i] + 1].value = Empty
        BY <1>6, <3>2, FreeFacts
      <4> QED
        BY <1>4, <1>5, <4>1
    <3> QED
      BY <1>6, <3>1, <3>2
  <2>2. i # j => free_slots'[m][i] # free_slots'[m][j]
    BY <1>6, <1>9 DEF SInv, FreeSlotsEmpty
  <2> QED
    BY <2>1, <2>2
<1>11. Generations'
  <2> SUFFICES ASSUME NEW m \in Kinds, NEW i \in DOMAIN elements[m]
               PROVE  /\ elements'[m][i].generation <= created
                      /\ elements'[m][i].value # Empty => elements'[m][i].generation < created
    BY <1>1, <1>5 DEF Generations
  <2>1. CASE m = k /\ i = n
    BY <1>3, <1>4, <1>5, <2>1
  <2>2. CASE m # k \/ i # n
    BY <1>5, <2>2, SlotFacts
  <2> QED
    BY <2>1, <2>2
<1>12. ASSUME NEW g \in DOMAIN given
       PROVE  /\ InRange(g)' <=> InRange(g)
              /\ g.kind = k /\ g.id + 1 = n => /\ g.generation < At(g.kind, g.id)'.generation
                                               /\ At(g.kind, g.id)'.value = Empty
              /\ g.kind # k \/ g.id + 1 # n => At(g.kind, g.id)' = At(g.kind, g.id)
  <2>1. /\ g \in Handles /\ InRange(g) /\ g.kind \in Kinds
        /\ g.id + 1 \in DOMAIN elements[g.kind] /\ g.generation \in Nat
        /\ g.generation <= At(g.kind, g.id).generation
    BY <1>1, SlotOfHandle DEF SInv, TypeOK, GivenBefore, Handles
  <2>2. InRange(g)' <=> InRange(g)
    BY <1>5, <2>1 DEF InRange
  <2>3. g.kind = k /\ g.id + 1 = n => /\ g.generation < At(g.kind, g.id)'.generation
                                      /\ At(g.kind, g.id)'.value = Empty
    <3> SUFFICES ASSUME g.kind = k, g.id + 1 = n
                 PROVE  /\ g.generation < At(g.kind, g.id)'.generation
                        /\ At(g.kind, g.id)'.value = Empty
      OBVIOUS
    <3>1. At(g.kind, g.id)' = new /\ At(g.kind, g.id) = old
      BY <1>5 DEF At, old
    <3>2. g.generation <= old.generation
      BY <2>1, <3>1
    <3>3. g.generation < old.generation + 1
      BY <1>3, <2>1, <3>2
    <3> QED
      BY <1>4, <3>1, <3>3
  <2>4. g.kind # k \/ g.id + 1 # n => At(g.kind, g.id)' = At(g.kind, g.id)
    BY <1>5, <2>1 DEF At
  <2> QED
    BY <2>2, <2>3, <2>4
<1>13. GivenBefore'
  <2> SUFFICES ASSUME NEW g \in DOMAIN given
               PROVE  /\ InRange(g)'
                      /\ g.generation <= At(g.kind, g.id)'.generation
                      /\ At(g.kind, g.id)'.value = Empty => g.generation < At(g.kind, g.id)'.generation
    BY <1>1 DEF GivenBefore
  <2>1. CASE g.kind = k /\ g.id + 1 = n
    <3>1. g.generation \in Nat /\ At(g.kind, g.id)'.generation \in Nat
      BY <1>2, <1>3, <1>4, <1>5, <2>1 DEF SInv, TypeOK, Handles, At
    <3> QED
      BY <1>1, <1>12, <2>1, <3>1 DEF SInv, GivenBefore
  <2>2. CASE g.kind # k \/ g.id + 1 # n
    BY <1>1, <1>12, <2>2 DEF SInv, GivenBefore
  <2> QED
    BY <2>1, <2>2
<1>14. ASSUME NEW g \in DOMAIN given
       PROVE  /\ g \in LiveHandles' <=> g \in LiveHandles /\ g # h
              /\ g \in LiveHandles' => At(g.kind, g.id)' = At(g.kind, g.id)
  <2>1. g \in Handles /\ g \in DOMAIN given' /\ g.id \in Nat /\ g.generation \in Nat
    BY <1>1 DEF SInv, TypeOK, Handles
  <2>2. CASE g.kind = k /\ g.id + 1 = n
    <3>1. g \notin LiveHandles'
      BY <1>12, <2>1, <2>2 DEF LiveHandles, Get
    <3>2. g \in LiveHandles => g = h
      <4>1. g.id = h.id
        BY <1>2, <2>1, <2>2
      <4>2. g \in LiveHandles => g.generation = h.generation
        BY <1>2, <2>2, <4>1, LiveMeans DEF SInv, At, old
      <4> QED
        BY <1>2, <2>1, <2>2, <4>1, <4>2, SameHandle
    <3> QED
      BY <3>1, <3>2
  <2>3. CASE g.kind # k \/ g.id + 1 # n
    <3>1. g \in LiveHandles' <=> g \in LiveHandles
      BY <1>1, <1>12, <2>1, <2>3 DEF LiveHandles, Get
    <3> QED
      BY <1>12, <2>3, <3>1
  <2> QED
    BY <2>2, <2>3
<1>15. LiveHandles' = LiveHandles \ {h}
  BY <1>1, <1>14 DEF LiveHandles
<1>16. Leads' = [g \in LiveHandles \ {h} |-> Leads[g]]
  BY <1>14, <1>15 DEF Leads, LiveHandles
<1>17. Store!Destroy(h)
  BY <1>1, <1>2, <1>16 DEF Store!Destroy, Leads
<1> QED
  BY <1>2, <1>7, <1>8, <1>10, <1>11, <1>13, <1>17 DEF SInv

LEMMA ClearClears ==
  ASSUME SInv, Clear
  PROVE  SInv' /\ Store!Clear
<1>1. /\ elements' = [k \in Kinds |-> <<>>]
      /\ free_slots' = [k \in Kinds |-> <<>>]
      /\ cleared' = TRUE
      /\ UNCHANGED <<created, failures, given>>
  BY DEF Clear
<1>2. TypeOK'
  BY <1>1 DEF SInv, TypeOK
<1>3. FreeSlotsEmpty' /\ FreeInRange' /\ Generations' /\ GivenBefore'
  BY <1>1 DEF FreeSlotsEmpty, FreeInRange, Generations, GivenBefore
<1>4. \A h \in DOMAIN given : ~InRange(h)'
  BY <1>1 DEF SInv, TypeOK, Handles, InRange
<1>5. LiveHandles' = {}
  BY <1>1, <1>4 DEF LiveHandles, Get
<1>6. Leads' = [h \in {} |-> {}]
  BY <1>5 DEF Leads
<1> QED
  BY <1>1, <1>2, <1>3, <1>6 DEF SInv, Store!Clear, Leads

-----------------------------------------------------------------------------
(* The invariant and the refinement.                                        *)

LEMMA StoreInit == Init => SInv /\ Store!Init
<1> SUFFICES ASSUME Init
             PROVE  SInv /\ Store!Init
  OBVIOUS
<1>1. TypeOK
  <2>1. created \in 0 .. MaxCreated /\ failures \in 0 .. MaxFailures
    BY BoundsAssumption DEF Init
  <2>2. elements \in [Kinds -> Seq(Element)] /\ free_slots \in [Kinds -> Seq(0 .. MaxSlots - 1)]
    BY DEF Init
  <2>3. cleared \in BOOLEAN /\ DOMAIN given \subseteq Handles
    BY DEF Init
  <2> QED
    BY <2>1, <2>2, <2>3 DEF TypeOK
<1>2. FreeSlotsEmpty /\ FreeInRange /\ Generations /\ GivenBefore
  BY DEF Init, FreeSlotsEmpty, FreeInRange, Generations, GivenBefore
<1>3. LiveHandles = {}
  BY DEF Init, LiveHandles
<1>4. Leads = [h \in {} |-> {}]
  BY <1>3 DEF Leads
<1> QED
  BY <1>1, <1>2, <1>4 DEF SInv, Init, Store!Init, Leads

LEMMA StoreStep ==
  ASSUME SInv, [Next]_vars
  PROVE  SInv' /\ [Store!Next]_<<Leads, DOMAIN given>>
<1>1. CASE UNCHANGED vars
  BY <1>1 DEF vars, SInv, TypeOK, FreeSlotsEmpty, FreeInRange, Generations, GivenBefore, InRange,
     At, Leads, LiveHandles, Get
<1>2. ASSUME NEW k \in Kinds, Reuse(k) \/ Push(k)
      PROVE  SInv' /\ Store!Next
  <2>1. SInv' /\ \E h \in Handles : Store!Add(h, created')
    BY <1>2, ReuseAdds, PushAdds
  <2>2. created' \in 1 .. MaxCreated
    BY <1>2, BoundsAssumption DEF Reuse, Push, SInv, TypeOK
  <2> QED
    BY <2>1, <2>2 DEF Store!Next
<1>3. ASSUME NEW k \in Kinds, ReuseThrows(k)
      PROVE  SInv' /\ UNCHANGED <<Leads, DOMAIN given>>
  BY <1>3, ReuseThrowsStutters
<1>4. ASSUME NEW h \in DOMAIN given, Destroy(h)
      PROVE  SInv' /\ Store!Next
  BY <1>4, DestroyDestroys DEF Store!Next
<1>5. CASE Clear
  BY <1>5, ClearClears DEF Store!Next
<1> QED
  BY <1>1, <1>2, <1>3, <1>4, <1>5 DEF Next, Cleared

(* A slot is free at most once and empty then: Storage never reuses a slot   *)
(* under a handle that still leads to it (add_buffer, destroy_buffer).       *)
THEOREM FreeSlotsStayEmpty == Spec => []FreeSlotsEmpty
<1>1. SInv => FreeSlotsEmpty
  BY DEF SInv
<1> QED
  BY <1>1, StoreInit, StoreStep, PTL DEF Spec

(* A handle was never given before, leads to its resource until that is      *)
(* destroyed through it, and to nothing afterwards, however often slots are  *)
(* reused and constructors throw (Storage, Handle).                          *)
THEOREM StorageIsImplemented == Spec => RefinesResourceStore
<1>1. SInv /\ [Next]_vars => [Store!Next]_Store!vars
  <2> SUFFICES ASSUME SInv, [Next]_vars
               PROVE  [Store!Next]_Store!vars
    OBVIOUS
  <2> QED
    BY StoreStep DEF Store!vars, Leads
<1> QED
  BY <1>1, StoreInit, StoreStep, PTL DEF Spec, Store!Spec, RefinesResourceStore

-----------------------------------------------------------------------------
(* What the calls of Storage do to the handles that lead somewhere.          *)

LEMMA Adds ==
  ASSUME SInv, NEW k \in Kinds, Reuse(k) \/ Push(k)
  PROVE  /\ SInv'
         /\ NewHandle(k) \notin DOMAIN given
         /\ DOMAIN given' = DOMAIN given \union {NewHandle(k)}
         /\ LiveHandles' = LiveHandles \union {NewHandle(k)}
         /\ UNCHANGED <<failures, cleared>>
<1>1. SInv' /\ \E h \in Handles : Store!Add(h, created')
  BY ReuseAdds, PushAdds
<1> PICK h \in Handles : Store!Add(h, created')
  BY <1>1
<1>2. h \notin DOMAIN given /\ DOMAIN given' = DOMAIN given \union {h}
  BY DEF Store!Add
<1>3. LiveHandles' = LiveHandles \union {h}
  BY DEF Store!Add
<1>4. DOMAIN given' = DOMAIN given \union {NewHandle(k)}
  <2>1. CASE Reuse(k)
    BY <2>1 DEF Reuse, Give, NewHandle
  <2>2. CASE Push(k)
    BY <2>2 DEF Push, Give, NewHandle
  <2> QED
    BY <2>1, <2>2
<1>5. h = NewHandle(k)
  BY <1>2, <1>4
<1>6. UNCHANGED <<failures, cleared>>
  BY DEF Reuse, Push
<1> QED
  BY <1>1, <1>2, <1>3, <1>5, <1>6

LEMMA Destroys ==
  ASSUME SInv, NEW h \in DOMAIN given, Destroy(h)
  PROVE  /\ SInv'
         /\ h \in LiveHandles
         /\ LiveHandles' = LiveHandles \ {h}
         /\ UNCHANGED <<given, failures, cleared>>
<1>1. SInv' /\ Store!Destroy(h)
  BY DestroyDestroys
<1>2. LiveHandles' = LiveHandles \ {h}
  BY <1>1 DEF Store!Destroy
<1> QED
  BY <1>1, <1>2 DEF Destroy, LiveHandles

LEMMA Fails ==
  ASSUME SInv, CallFails \/ \E k \in Kinds : ReuseThrows(k)
  PROVE  SInv' /\ LiveHandles' = LiveHandles /\ UNCHANGED <<given, cleared>>
<1>1. CASE CallFails
  <2>1. failures' \in 0 .. MaxFailures
    BY <1>1, BoundsAssumption DEF CallFails, SInv, TypeOK
  <2>2. UNCHANGED <<elements, free_slots, created, cleared, given>>
    BY <1>1 DEF CallFails
  <2> QED
    BY <2>1, <2>2 DEF SInv, TypeOK, FreeSlotsEmpty, FreeInRange, Generations, GivenBefore,
         InRange, At, LiveHandles, Get
<1>2. ASSUME NEW k \in Kinds, ReuseThrows(k)
      PROVE  SInv' /\ LiveHandles' = LiveHandles /\ UNCHANGED <<given, cleared>>
  <2>1. SInv'
    BY <1>2, ReuseThrowsStutters
  <2>2. UNCHANGED <<elements, given, cleared>>
    BY <1>2 DEF ReuseThrows
  <2> QED
    BY <2>1, <2>2 DEF LiveHandles, Get, InRange, At
<1> QED
  BY <1>1, <1>2

LEMMA Keeps ==
  ASSUME SInv, UNCHANGED vars
  PROVE  SInv' /\ LiveHandles' = LiveHandles /\ UNCHANGED <<given, cleared>>
BY DEF vars, SInv, TypeOK, FreeSlotsEmpty, FreeInRange, Generations, GivenBefore, InRange, At,
       LiveHandles, Get

-----------------------------------------------------------------------------
(* Resizes.                                                                 *)

Constructs == step \in {"create", "depth buffer", "transition", "views"}

(* There is at most one swapchain and one depth buffer, and a depth buffer   *)
(* only with its swapchain: when a resize failed before there was a depth    *)
(* buffer, its old handle leads nowhere and the next resize destroys nothing.*)
WholeInv ==
  /\ SInv
  /\ swapchain \in Nat
  /\ step \in {"idle", "create", "depth buffer", "transition", "views", "no engine",
              "destroyed", "terminated"}
  /\ ~destroyed_twice
  /\ swapchains \subseteq {swapchain}
  /\ step = "idle" => ~constructing /\ ~cleared
  /\ ~window => swapchains = {} /\ image_views = <<>> /\ ~complete /\ ~Constructs
  /\ window /\ ~constructing => depth_buffer \in DOMAIN given \intersect depth_buffers
  /\ Constructs => ~cleared /\ image_views = <<>> /\ ~complete
  /\ step = "create" => swapchains = {}
  /\ step \in {"create", "depth buffer"} => depth_buffer \notin LiveHandles
  /\ step \in {"depth buffer", "transition", "views"} => swapchains = {swapchain}
  /\ step \in {"transition", "views"} => depth_buffer \in LiveHandles \intersect depth_buffers
  /\ step = "views" => depth_layout = "depth attachment"
  /\ step = "idle" /\ window /\ depth_buffer \in LiveHandles => swapchains = {swapchain}
  /\ SwapchainWhole

LEMMA WholeStarts == SwapchainInit => WholeInv
<1> SUFFICES ASSUME SwapchainInit
             PROVE  WholeInv
  OBVIOUS
<1>1. Init /\ SInv
  BY StoreInit DEF SwapchainInit
<1>2. LiveHandles = {} /\ cleared = FALSE
  BY <1>1 DEF Init, LiveHandles
<1> QED
  BY <1>1, <1>2 DEF SwapchainInit, WholeInv, Constructs, SwapchainWhole

(* Constructions that go on.                                                 *)
LEMMA CreateSwapchainWhole ==
  ASSUME WholeInv, CreateSwapchain
  PROVE  WholeInv' /\ OwnResources \subseteq OwnResources'
<1>1. /\ step = "create" /\ swapchain' = swapchain + 1
      /\ swapchains' = swapchains \union {swapchain'} /\ step' = "depth buffer"
      /\ UNCHANGED <<vars, window, constructing, complete, depth_buffer, depth_buffers,
                     depth_layout, image_views, destroyed_twice>>
  BY DEF CreateSwapchain
<1>2. SInv' /\ LiveHandles' = LiveHandles /\ UNCHANGED <<given, cleared>>
  BY <1>1, Keeps DEF WholeInv
<1>3. OwnResources \subseteq OwnResources'
  BY <1>1, <1>2 DEF OwnResources
<1>4. /\ window /\ ~cleared /\ ~complete /\ image_views = <<>> /\ swapchains' = {swapchain'}
      /\ ~destroyed_twice /\ swapchain' \in Nat /\ depth_buffer' \notin LiveHandles'
  <2>1. /\ swapchains = {} /\ depth_buffer \notin LiveHandles /\ swapchain \in Nat
        /\ window /\ ~cleared /\ ~complete /\ image_views = <<>> /\ ~destroyed_twice
    BY <1>1 DEF WholeInv, Constructs
  <2>2. swapchains' = {swapchain'}
    BY <1>1, <2>1
  <2>3. swapchain' \in Nat
    <3>1. swapchain' = swapchain + 1
      BY <1>1
    <3> QED
      BY <2>1, <3>1
  <2>4. depth_buffer' \notin LiveHandles'
    BY <1>1, <1>2, <2>1
  <2> QED
    BY <2>1, <2>2, <2>3, <2>4
<1>5. window /\ ~constructing => depth_buffer \in DOMAIN given \intersect depth_buffers
  BY DEF WholeInv
<1>6. WholeInv'
  BY <1>1, <1>2, <1>4, <1>5 DEF WholeInv, Constructs, SwapchainWhole
<1> QED
  BY <1>3, <1>6

LEMMA AddDepthBufferWhole ==
  ASSUME WholeInv, AddDepthBuffer
  PROVE  WholeInv' /\ OwnResources \subseteq OwnResources'
<1>1. /\ step = "depth buffer" /\ depth_buffer' = NewHandle("image")
      /\ depth_buffers' = depth_buffers \union {depth_buffer'} /\ step' = "transition"
      /\ UNCHANGED <<window, constructing, complete, swapchain, swapchains, image_views,
                     destroyed_twice>>
  BY DEF AddDepthBuffer
<1>2. /\ SInv' /\ depth_buffer' \notin DOMAIN given
      /\ DOMAIN given' = DOMAIN given \union {depth_buffer'}
      /\ LiveHandles' = LiveHandles \union {depth_buffer'}
      /\ UNCHANGED cleared
  BY <1>1, Adds, SwapchainAssumption DEF AddDepthBuffer, WholeInv
<1>3. OwnResources \subseteq OwnResources'
  BY <1>1, <1>2 DEF OwnResources, LiveHandles
<1>4. /\ depth_buffer' \in LiveHandles' \intersect depth_buffers'
      /\ depth_buffer' \in DOMAIN given'
  BY <1>1, <1>2
<1>5. /\ window /\ ~cleared /\ ~complete /\ image_views = <<>> /\ swapchains = {swapchain}
      /\ ~destroyed_twice /\ swapchain \in Nat
  BY <1>1 DEF WholeInv, Constructs
<1>6. WholeInv'
  BY <1>1, <1>2, <1>4, <1>5 DEF WholeInv, Constructs, SwapchainWhole
<1> QED
  BY <1>3, <1>6

LEMMA ConstructionWhole ==
  ASSUME WholeInv, TransitionDepthBuffer \/ CreateImages
  PROVE  WholeInv' /\ OwnResources \subseteq OwnResources'
<1>1. UNCHANGED <<vars, window, swapchain, swapchains, depth_buffer, depth_buffers,
                  destroyed_twice>>
  BY DEF TransitionDepthBuffer, CreateImages
<1>2. SInv' /\ LiveHandles' = LiveHandles /\ UNCHANGED <<given, cleared>>
  BY <1>1, Keeps DEF WholeInv
<1>3. OwnResources \subseteq OwnResources'
  BY <1>1, <1>2 DEF OwnResources
<1>4. CASE TransitionDepthBuffer
  <2>1. /\ step = "transition" /\ step' = "views" /\ depth_layout' = "depth attachment"
        /\ UNCHANGED <<constructing, complete, image_views>>
    BY <1>4 DEF TransitionDepthBuffer
  <2> QED
    BY <1>1, <1>2, <1>3, <2>1 DEF WholeInv, Constructs, SwapchainWhole
<1>5. CASE CreateImages
  <2>1. /\ step = "views" /\ step' = "idle" /\ constructing' = FALSE /\ complete' = TRUE
        /\ image_views' = image_views \o [n \in 1 .. ImageCount |-> swapchain]
        /\ UNCHANGED depth_layout
    BY <1>5 DEF CreateImages
  <2>2. image_views' = [n \in 1 .. ImageCount |-> swapchain]
    <3>1. image_views = <<>> /\ swapchain \in Nat
      BY <2>1 DEF WholeInv, Constructs
    <3>2. [n \in 1 .. ImageCount |-> swapchain] \in Seq(Nat)
      BY <3>1, SwapchainAssumption
    <3> QED
      BY <2>1, <3>1, <3>2
  <2>3. window /\ depth_buffer \in LiveHandles \intersect depth_buffers
        /\ depth_layout = "depth attachment" /\ swapchains = {swapchain} /\ ~cleared
    BY <2>1 DEF WholeInv, Constructs
  <2>4. SwapchainWhole'
    <3>1. Get(depth_buffer)' = "found"
      BY <1>1, <1>2, <2>3 DEF LiveHandles
    <3> QED
      BY <1>1, <2>1, <2>2, <2>3, <3>1 DEF SwapchainWhole
  <2>5. depth_buffer \in DOMAIN given
    BY <2>3 DEF LiveHandles
  <2> QED
    BY <1>1, <1>2, <1>3, <2>1, <2>3, <2>4, <2>5 DEF WholeInv, Constructs
<1> QED
  BY <1>4, <1>5

(* Constructions that end with an exception, of the Engine's constructor or  *)
(* of a resize.                                                              *)
LEMMA ConstructionThrowsWhole ==
  ASSUME WholeInv,
         \/ CreateSwapchainThrows \/ AddDepthBufferThrows
         \/ TransitionDepthBufferThrows \/ CreateImagesThrows
  PROVE  WholeInv' /\ OwnResources \subseteq OwnResources'
<1>1. /\ Constructs /\ Throws
      /\ UNCHANGED <<window, constructing, complete, swapchain, swapchains, depth_buffer,
                     depth_buffers, depth_layout, destroyed_twice>>
  BY DEF CreateSwapchainThrows, AddDepthBufferThrows, TransitionDepthBufferThrows,
         CreateImagesThrows, surfaceVars, Constructs
<1>2. SInv' /\ LiveHandles' = LiveHandles /\ UNCHANGED <<given, cleared>>
  <2>1. CallFails \/ \E k \in Kinds : ReuseThrows(k)
    BY SwapchainAssumption DEF CreateSwapchainThrows, AddDepthBufferThrows,
       TransitionDepthBufferThrows, CreateImagesThrows
  <2> QED
    BY <2>1, Fails DEF WholeInv
<1>3. OwnResources \subseteq OwnResources'
  BY <1>1, <1>2 DEF OwnResources
<1>4. window /\ ~complete /\ ~cleared /\ step' \in {"idle", "no engine"}
      /\ (step' = "idle" => ~constructing)
  BY <1>1 DEF WholeInv, Throws
<1>5. depth_buffer \in LiveHandles => swapchains = {swapchain}
  BY <1>1 DEF WholeInv, Constructs
<1>6. WholeInv'
  BY <1>1, <1>2, <1>4, <1>5 DEF WholeInv, Constructs, SwapchainWhole
<1> QED
  BY <1>3, <1>6

(* A resize destroys a depth buffer and its swapchain, or throws.            *)
LEMMA ResizeWhole ==
  ASSUME WholeInv, Resize
  PROVE  WholeInv' /\ OwnResources \subseteq OwnResources'
<1>1. /\ step = "idle" /\ window /\ Destroy(depth_buffer) /\ image_views' = <<>>
      /\ swapchains' = swapchains \ {swapchain}
      /\ destroyed_twice' = (destroyed_twice \/ swapchain \notin swapchains)
      /\ complete' = FALSE /\ step' = "create"
      /\ UNCHANGED <<window, constructing, swapchain, depth_buffer, depth_buffers,
                     depth_layout>>
  BY DEF Resize, DestroyDepthBuffer, DestroySwapchain
<1>2. depth_buffer \in DOMAIN given \intersect depth_buffers
  BY <1>1 DEF WholeInv
<1>3. /\ SInv' /\ depth_buffer \in LiveHandles /\ LiveHandles' = LiveHandles \ {depth_buffer}
      /\ UNCHANGED <<given, cleared>>
  BY <1>1, <1>2, Destroys DEF WholeInv
<1>4. OwnResources \subseteq OwnResources'
  BY <1>1, <1>2, <1>3 DEF OwnResources
<1>5. swapchains = {swapchain}
  BY <1>1, <1>3 DEF WholeInv
<1>6. ~destroyed_twice'
  <2>1. swapchain \in swapchains /\ ~destroyed_twice
    BY <1>5 DEF WholeInv
  <2> QED
    BY <1>1, <2>1, Zenon
<1>7. WholeInv'
  BY <1>1, <1>2, <1>3, <1>5, <1>6 DEF WholeInv, Constructs, SwapchainWhole
<1> QED
  BY <1>4, <1>7

LEMMA ResizeThrowsWhole ==
  ASSUME WholeInv, ResizeThrows
  PROVE  WholeInv' /\ OwnResources \subseteq OwnResources'
<1>1. /\ step = "idle" /\ image_views' = <<>> /\ complete' = FALSE
      /\ UNCHANGED <<vars, window, step, constructing, swapchain, swapchains, depth_buffer,
                     depth_buffers, depth_layout, destroyed_twice>>
  BY DEF ResizeThrows
<1>2. SInv' /\ LiveHandles' = LiveHandles /\ UNCHANGED <<given, cleared>>
  BY <1>1, Keeps DEF WholeInv
<1>3. OwnResources \subseteq OwnResources'
  BY <1>1, <1>2 DEF OwnResources
<1>4. WholeInv'
  BY <1>1, <1>2 DEF WholeInv, Constructs, SwapchainWhole
<1> QED
  BY <1>3, <1>4

(* ~Engine destroys the swapchain unless it terminates.                      *)
LEMMA EngineDestroyedWhole ==
  ASSUME WholeInv, DestroyEngine \/ DestroyEngineTerminates
  PROVE  /\ WholeInv'
         /\ step' # "destroyed" => OwnResources \subseteq OwnResources'
<1>1. CASE DestroyEngine
  <2>1. /\ step = "idle" /\ Clear /\ step' = "destroyed"
        /\ window => Get(depth_buffer) = "found"
        /\ UNCHANGED <<window, constructing, complete, swapchain, depth_buffer, depth_buffers,
                       depth_layout>>
    BY <1>1 DEF DestroyEngine, DepthBufferIsStale
  <2>2. SInv' /\ cleared' /\ UNCHANGED given
    BY <2>1, ClearClears DEF WholeInv, Clear
  <2>3. swapchains' = {} /\ image_views' = <<>> /\ ~destroyed_twice'
    <3>1. CASE window
      <4>1. depth_buffer \in LiveHandles
        BY <2>1, <3>1 DEF WholeInv, LiveHandles
      <4>2. swapchains = {swapchain} /\ ~destroyed_twice
        BY <2>1, <3>1, <4>1 DEF WholeInv
      <4>3. DestroySwapchain
        BY <1>1, <3>1 DEF DestroyEngine
      <4>4. ~destroyed_twice'
        BY <4>2, <4>3, Zenon DEF DestroySwapchain
      <4> QED
        BY <4>2, <4>3, <4>4 DEF DestroySwapchain
    <3>2. CASE ~window
      BY <1>1, <3>2 DEF DestroyEngine, WholeInv
    <3> QED
      BY <3>1, <3>2
  <2> QED
    BY <2>1, <2>2, <2>3 DEF WholeInv, Constructs, SwapchainWhole
<1>2. CASE DestroyEngineTerminates
  <2>1. /\ step = "idle" /\ step' = "terminated" /\ image_views' = <<>>
        /\ UNCHANGED <<vars, window, constructing, complete, swapchain, swapchains,
                       depth_buffer, depth_buffers, depth_layout, destroyed_twice>>
    BY <1>2 DEF DestroyEngineTerminates
  <2>2. SInv' /\ LiveHandles' = LiveHandles /\ UNCHANGED <<given, cleared>>
    BY <2>1, Keeps DEF WholeInv
  <2> QED
    BY <2>1, <2>2 DEF WholeInv, Constructs, SwapchainWhole, OwnResources
<1> QED
  BY <1>1, <1>2

(* The application's own resources, presents, and what has ended.            *)
LEMMA OthersWhole ==
  ASSUME WholeInv,
         \/ \E k \in Kinds : AddResource(k)
         \/ \E h \in DOMAIN given : DestroyResource(h)
         \/ Present \/ Tick \/ UNCHANGED allVars
  PROVE  WholeInv' /\ UNCHANGED <<step, image_views>>
<1>1. UNCHANGED <<step, window, constructing, complete, swapchain, swapchains, depth_buffer,
                  depth_buffers, depth_layout, image_views, destroyed_twice>>
  BY DEF AddResource, DestroyResource, Present, Tick, allVars, surfaceVars
<1> DEFINE Kept ==
             /\ SInv' /\ UNCHANGED cleared
             /\ DOMAIN given \subseteq DOMAIN given'
             /\ window /\ depth_buffer \in DOMAIN given =>
                  (depth_buffer \in LiveHandles' <=> depth_buffer \in LiveHandles)
             /\ step = "idle" \/ LiveHandles' = LiveHandles
<1>2. Kept
  <2>1. ASSUME NEW k \in Kinds, AddResource(k)
        PROVE  Kept
    <3>1. CASE Reuse(k) \/ Push(k)
      BY <2>1, <3>1, Adds DEF WholeInv, AddResource
    <3>2. CASE ReuseThrows(k)
      BY <2>1, <3>2, Fails DEF WholeInv
    <3> QED
      BY <2>1, <3>1, <3>2 DEF AddResource
  <2>2. ASSUME NEW h \in DOMAIN given, DestroyResource(h)
        PROVE  Kept
    <3>1. step = "idle" /\ h \notin depth_buffers /\ Destroy(h)
      BY <2>2 DEF DestroyResource
    <3>2. SInv' /\ LiveHandles' = LiveHandles \ {h} /\ UNCHANGED <<given, cleared>>
      BY <3>1, Destroys DEF WholeInv
    <3>3. window => depth_buffer # h
      BY <3>1 DEF WholeInv
    <3> QED
      BY <3>1, <3>2, <3>3
  <2>3. CASE Present \/ Tick \/ UNCHANGED allVars
    <3>1. UNCHANGED vars
      BY <2>3 DEF Present, Tick, allVars
    <3> QED
      BY <3>1, Keeps DEF WholeInv
  <2> QED
    BY <2>1, <2>2, <2>3
<1>3. CASE step = "idle"
  <2>1. window => depth_buffer \in DOMAIN given \intersect depth_buffers
    BY <1>3 DEF WholeInv
  <2>2. ~cleared' /\ ~constructing /\ SInv'
    BY <1>2, <1>3 DEF WholeInv
  <2>3. window /\ depth_buffer \in LiveHandles' => swapchains = {swapchain}
    BY <1>2, <1>3, <2>1 DEF WholeInv
  <2>4. SwapchainWhole'
    <3>1. complete => window /\ Get(depth_buffer) = "found"
      BY <1>3 DEF WholeInv, SwapchainWhole
    <3>2. complete => depth_buffer \in LiveHandles'
      BY <1>2, <2>1, <3>1 DEF LiveHandles
    <3>3. complete => Get(depth_buffer)' = "found"
      BY <1>1, <3>2 DEF LiveHandles
    <3> QED
      BY <1>1, <1>3, <3>3 DEF WholeInv, SwapchainWhole
  <2> QED
    BY <1>1, <1>2, <1>3, <2>1, <2>2, <2>3, <2>4 DEF WholeInv, Constructs
<1>4. CASE step # "idle"
  BY <1>1, <1>2, <1>4 DEF WholeInv, Constructs, SwapchainWhole
<1> QED
  BY <1>1, <1>3, <1>4

LEMMA WholeStep ==
  ASSUME WholeInv, [SwapchainNext]_allVars
  PROVE  /\ WholeInv'
         /\ step' # step \/ image_views' # image_views =>
              (step' # "destroyed" => OwnResources \subseteq OwnResources')
<1>1. CASE CreateSwapchain \/ AddDepthBuffer \/ TransitionDepthBuffer \/ CreateImages
  BY <1>1, CreateSwapchainWhole, AddDepthBufferWhole, ConstructionWhole
<1>2. CASE \/ CreateSwapchainThrows \/ AddDepthBufferThrows
           \/ TransitionDepthBufferThrows \/ CreateImagesThrows
  BY <1>2, ConstructionThrowsWhole
<1>3. CASE Resize \/ ResizeThrows
  BY <1>3, ResizeWhole, ResizeThrowsWhole
<1>4. CASE DestroyEngine \/ DestroyEngineTerminates
  BY <1>4, EngineDestroyedWhole
<1>5. CASE \/ \E k \in Kinds : AddResource(k)
           \/ \E h \in DOMAIN given : DestroyResource(h)
           \/ Present \/ Tick \/ UNCHANGED allVars
  BY <1>5, OthersWhole
<1>6. CASE Ended
  BY <1>6, OthersWhole DEF Ended
<1> QED
  BY <1>1, <1>2, <1>3, <1>4, <1>5, <1>6 DEF SwapchainNext

(* After a construction that came to its end there is one swapchain with its *)
(* views and its depth buffer, also if resizes before it threw; ~Engine      *)
(* leaves none unless it terminates.                                         *)
THEOREM SwapchainsAreWhole == SwapchainSpec => []SwapchainWhole
<1>1. WholeInv => SwapchainWhole
  BY DEF WholeInv
<1>2. WholeInv /\ [SwapchainNext]_allVars => WholeInv'
  BY WholeStep
<1> QED
  BY <1>1, <1>2, WholeStarts, PTL DEF SwapchainSpec

(* Engine::resize and ~Engine never destroy a swapchain twice, and no resize *)
(* destroys a resource of the application, however the ones before failed.   *)
THEOREM ResizesKeepResources == SwapchainSpec => ResizeKeepsResources
<1>1. WholeInv /\ [SwapchainNext]_allVars => WholeInv'
  BY WholeStep
<1>2. WholeInv /\ [SwapchainNext]_allVars =>
        [step' # step \/ image_views' # image_views =>
           /\ ~destroyed_twice'
           /\ step' # "destroyed" => OwnResources \subseteq OwnResources']_allVars
  BY WholeStep DEF WholeInv
<1> QED
  BY <1>1, <1>2, WholeStarts, PTL DEF SwapchainSpec, ResizeKeepsResources

-----------------------------------------------------------------------------
(* The composition.                                                         *)

(* A step of the swapchain is a step of the storage, which the failures of   *)
(* other calls leave alone.                                                  *)
LEMMA StorageIsUsed ==
  ASSUME WholeInv, [SwapchainNext]_allVars
  PROVE  [Next]_vars \/ CallFails
<1>1. CASE \/ CreateSwapchain \/ TransitionDepthBuffer \/ CreateImages \/ ResizeThrows
           \/ DestroyEngineTerminates \/ Present \/ Tick \/ Ended \/ UNCHANGED allVars
  BY <1>1 DEF CreateSwapchain, TransitionDepthBuffer, CreateImages, ResizeThrows,
     DestroyEngineTerminates, Present, Tick, Ended, allVars
<1>2. CASE CreateSwapchainThrows \/ TransitionDepthBufferThrows \/ CreateImagesThrows
  BY <1>2 DEF CreateSwapchainThrows, TransitionDepthBufferThrows, CreateImagesThrows
<1>3. CASE AddDepthBuffer \/ AddDepthBufferThrows
  BY <1>3, SwapchainAssumption DEF AddDepthBuffer, AddDepthBufferThrows, Next
<1>4. CASE Resize
  <2>1. Destroy(depth_buffer) /\ step = "idle" /\ window
    BY <1>4 DEF Resize, DestroyDepthBuffer
  <2>2. depth_buffer \in DOMAIN given
    BY <2>1 DEF WholeInv
  <2> QED
    BY <2>1, <2>2 DEF Next
<1>5. CASE DestroyEngine
  BY <1>5 DEF DestroyEngine, Next
<1>6. CASE \/ \E k \in Kinds : AddResource(k)
           \/ \E h \in DOMAIN given : DestroyResource(h)
  BY <1>6 DEF AddResource, DestroyResource, Next
<1> QED
  BY <1>1, <1>2, <1>3, <1>4, <1>5, <1>6 DEF SwapchainNext

LEMMA StoreIsUsed ==
  ASSUME WholeInv, [SwapchainNext]_allVars
  PROVE  [Store!Next]_Store!vars
<1>1. CASE [Next]_vars
  BY <1>1, StoreStep DEF WholeInv, Store!vars, Leads
<1>2. CASE CallFails
  <2>1. UNCHANGED <<elements, given>>
    BY <1>2 DEF CallFails
  <2> QED
    BY <2>1 DEF Store!vars, LiveHandles, Get, InRange, At
<1> QED
  BY <1>1, <1>2, StorageIsUsed

(* Declaring and writing descriptors changes no resource.                    *)
LEMMA SwapchainIsLeftAlone == ResourcesSpec => SwapchainSpec
<1>1. ResourcesInit => SwapchainInit
  BY DEF ResourcesInit
<1>2. [ResourcesNext]_<<allVars, declarationVars>> => [SwapchainNext]_allVars
  BY DEF ResourcesNext
<1> QED
  BY <1>1, <1>2, PTL DEF ResourcesSpec, SwapchainSpec

(* Handles of the application and of depth buffers are never given twice and *)
(* lead to their resource until it is destroyed, also when resizes throw.    *)
THEOREM HandlesAreKept == ResourcesSpec => RefinesResourceStore
<1>1. SwapchainInit => WholeInv /\ Store!Init
  BY WholeStarts, StoreInit DEF SwapchainInit
<1>2. WholeInv /\ [SwapchainNext]_allVars => WholeInv'
  BY WholeStep
<1>3. WholeInv /\ [SwapchainNext]_allVars => [Store!Next]_Store!vars
  BY StoreIsUsed
<1> QED
  BY <1>1, <1>2, <1>3, SwapchainIsLeftAlone, PTL DEF SwapchainSpec, RefinesResourceStore,
     Store!Spec

(* What is proved of Swapchain alone holds beside declarations.              *)
THEOREM SwapchainIsKept ==
  ResourcesSpec => []SwapchainWhole /\ ResizeKeepsResources
BY SwapchainIsLeftAlone, SwapchainsAreWhole, ResizesKeepResources

-----------------------------------------------------------------------------
(* What handles lead to, and what declarations of descriptors mean.         *)

LeadsAsGiven == \A h \in LiveHandles : At(h.kind, h.id).value = given[h]
GivenMore == \A h \in DOMAIN given : h \in DOMAIN given' /\ given'[h] = given[h]

LEMMA AddedAsGiven ==
  ASSUME LeadsAsGiven, NEW x, Give(x), NEW h, Store!Add(h, created')
  PROVE  LeadsAsGiven' /\ GivenMore
<1>1. /\ h \notin DOMAIN given /\ DOMAIN given' = DOMAIN given \union {h}
      /\ Leads' = [g \in DOMAIN Leads \union {h} |-> IF g = h THEN created' ELSE Leads[g]]
  BY DEF Store!Add, Leads
<1>2. given' = [g \in DOMAIN given \union {x} |-> IF g = x THEN created' ELSE given[g]]
  BY DEF Give
<1>3. x = h
  <2>1. DOMAIN given \union {x} = DOMAIN given \union {h}
    BY <1>1, <1>2
  <2> QED
    BY <1>1, <2>1
<1>4. GivenMore
  BY <1>1, <1>2, <1>3 DEF GivenMore
<1>5. DOMAIN Leads = LiveHandles /\ DOMAIN Leads' = LiveHandles'
  BY DEF Leads
<1>6. ASSUME NEW g \in LiveHandles'
      PROVE  At(g.kind, g.id)'.value = given'[g]
  <2>1. At(g.kind, g.id)'.value = Leads'[g]
    BY DEF Leads
  <2>2. CASE g = h
    BY <1>1, <1>2, <1>3, <2>1, <2>2
  <2>3. CASE g # h
    <3>1. g \in LiveHandles
      BY <1>1, <1>5, <2>3
    <3>2. Leads'[g] = Leads[g] /\ g \in DOMAIN given
      BY <1>1, <1>5, <2>3, <3>1 DEF LiveHandles
    <3>3. Leads[g] = given[g]
      BY <3>1 DEF LeadsAsGiven, Leads
    <3> QED
      BY <1>4, <2>1, <3>2, <3>3 DEF GivenMore
  <2> QED
    BY <2>2, <2>3
<1> QED
  BY <1>4, <1>6 DEF LeadsAsGiven

LEMMA LeadsStep ==
  ASSUME WholeInv, LeadsAsGiven, [SwapchainNext]_allVars
  PROVE  LeadsAsGiven' /\ GivenMore
<1>1. SInv
  BY DEF WholeInv
<1>2. ASSUME UNCHANGED <<elements, given>>
      PROVE  LeadsAsGiven' /\ GivenMore
  BY <1>2 DEF LeadsAsGiven, GivenMore, LiveHandles, Get, InRange, At
<1>3. ASSUME NEW k \in Kinds, Reuse(k)
      PROVE  LeadsAsGiven' /\ GivenMore
  <2>1. PICK h \in Handles : Store!Add(h, created')
    BY <1>1, <1>3, ReuseAdds
  <2>2. Give(HandleOf(k, Last(free_slots[k])))
    BY <1>3 DEF Reuse
  <2> QED
    BY <2>1, <2>2, AddedAsGiven
<1>4. ASSUME NEW k \in Kinds, Push(k)
      PROVE  LeadsAsGiven' /\ GivenMore
  <2>1. PICK h \in Handles : Store!Add(h, created')
    BY <1>1, <1>4, PushAdds
  <2>2. Give([kind |-> k, id |-> Len(elements[k]), generation |-> 0])
    BY <1>4 DEF Push
  <2> QED
    BY <2>1, <2>2, AddedAsGiven
<1>5. ASSUME NEW h \in DOMAIN given, Destroy(h)
      PROVE  LeadsAsGiven' /\ GivenMore
  <2>1. Store!Destroy(h) /\ given' = given
    BY <1>1, <1>5, DestroyDestroys DEF Destroy
  <2>2. Leads' = [g \in DOMAIN Leads \ {h} |-> Leads[g]] /\ DOMAIN Leads = LiveHandles /\ DOMAIN Leads' = LiveHandles'
    BY <2>1 DEF Store!Destroy, Leads
  <2>3. ASSUME NEW g \in LiveHandles'
        PROVE  At(g.kind, g.id)'.value = given[g]
    <3>1. At(g.kind, g.id)'.value = Leads'[g]
      BY DEF Leads
    <3>2. g \in LiveHandles /\ Leads'[g] = Leads[g]
      BY <2>2
    <3> QED
      BY <3>1, <3>2 DEF LeadsAsGiven, Leads
  <2> QED
    BY <2>1, <2>3 DEF LeadsAsGiven, GivenMore
<1>6. CASE Clear
  <2>1. Store!Clear /\ given' = given
    BY <1>1, <1>6, ClearClears DEF Clear
  <2>2. DOMAIN Leads' = {} /\ DOMAIN Leads' = LiveHandles'
    BY <2>1 DEF Store!Clear, Leads
  <2> QED
    BY <2>1, <2>2 DEF LeadsAsGiven, GivenMore
<1>7. CASE [Next]_vars
  <2>1. ASSUME NEW k \in Kinds, ReuseThrows(k)
        PROVE  LeadsAsGiven' /\ GivenMore
    BY <1>2, <2>1 DEF ReuseThrows
  <2>2. CASE UNCHANGED vars
    BY <1>2, <2>2 DEF vars
  <2> QED
    BY <1>3, <1>4, <1>5, <1>6, <1>7, <2>1, <2>2 DEF Next, Cleared
<1>8. CASE CallFails
  BY <1>2, <1>8 DEF CallFails
<1> QED
  BY <1>7, <1>8, StorageIsUsed

Descriptors == [binding : Bindings, set : Nat, resources : Seq(Handles) \ {<<>>}]
DescriptorSets ==
  [layout : Nat, set_count : Nat, descriptors : Seq({NoDescriptor} \union Descriptors)]

DeclarationsTyped ==
  /\ sets \in Seq(DescriptorSets)
  /\ built = "no" => /\ layouts \in Seq(Seq(Bindings))
                     /\ \A s \in DOMAIN sets : sets[s].layout \in DOMAIN layouts

Entry(s, n) ==
  [sets |-> s, set |-> sets[s].descriptors[n].set, binding |-> sets[s].descriptors[n].binding,
   resources |-> sets[s].descriptors[n].resources]

(* A descriptor was declared if and only if it has a slot.                   *)
SlotsAsDeclared ==
  /\ \A s \in DOMAIN sets : \A n \in Added(sets[s]) : Entry(s, n) \in declared
  /\ \A d \in declared : \E s \in DOMAIN sets : \E n \in Added(sets[s]) : d = Entry(s, n)

DeclaredGiven == \A d \in declared : \A i \in DOMAIN d.resources : d.resources[i] \in DOMAIN given

DInv == DeclarationsTyped /\ SlotsAsDeclared /\ DeclaredGiven /\ WritesAsDeclared /\ SlotsSuffice

LEMMA ResourcesOnly ==
  ASSUME DInv, GivenMore, UNCHANGED declarationVars
  PROVE  DInv'
<1>1. UNCHANGED <<layouts, sets, declared, built, writes, overrun>>
  BY DEF declarationVars
<1>2. DeclarationsTyped' /\ SlotsAsDeclared' /\ SlotsSuffice'
  BY <1>1 DEF DInv, DeclarationsTyped, SlotsAsDeclared, SlotsSuffice, Added, Entry
<1>3. DeclaredGiven'
  BY <1>1 DEF DInv, DeclaredGiven, GivenMore
<1>4. WritesAsDeclared'
  <2>1. ASSUME NEW d \in declared
        PROVE  [n \in DOMAIN d.resources |-> given[d.resources[n]]] =
                 [n \in DOMAIN d.resources |-> given'[d.resources[n]]]
    BY DEF DInv, DeclaredGiven, GivenMore
  <2>2. {[sets |-> d.sets, set |-> d.set, binding |-> d.binding,
          contents |-> [n \in DOMAIN d.resources |-> given[d.resources[n]]]] : d \in declared} =
        {[sets |-> d.sets, set |-> d.set, binding |-> d.binding,
          contents |-> [n \in DOMAIN d.resources |-> given'[d.resources[n]]]] : d \in declared}
    BY <2>1
  <2> QED
    BY <1>1, <2>2 DEF DInv, WritesAsDeclared
<1> QED
  BY <1>2, <1>3, <1>4 DEF DInv

LEMMA LayoutsOnly ==
  ASSUME DInv, Declaring, UNCHANGED <<sets, declared, built, writes, overrun, given>>,
         layouts' \in Seq(Seq(Bindings)), DOMAIN layouts \subseteq DOMAIN layouts'
  PROVE  DInv'
<1>1. ~overrun /\ built = "no"
  BY DEF Declaring
<1>2. DeclarationsTyped'
  BY <1>1 DEF DInv, DeclarationsTyped
<1>3. SlotsAsDeclared'
  <2>1. sets' = sets /\ declared' = declared /\ \A s, n : Entry(s, n)' = Entry(s, n)
    BY DEF Entry
  <2>2. SlotsAsDeclared
    BY DEF DInv
  <2> HIDE DEF Entry
  <2> QED
    BY <2>1, <2>2 DEF SlotsAsDeclared, Added
<1>4. DeclaredGiven' /\ WritesAsDeclared' /\ SlotsSuffice'
  BY <1>1 DEF DInv, DeclaredGiven, WritesAsDeclared, SlotsSuffice
<1> QED
  BY <1>2, <1>3, <1>4 DEF DInv

LEMMA AddDescriptorSetLayoutDeclares ==
  ASSUME DInv, AddDescriptorSetLayout, UNCHANGED given
  PROVE  DInv'
<1>1. /\ Declaring /\ layouts' = Append(layouts, <<>>)
      /\ UNCHANGED <<sets, declared, built, writes, overrun>>
  BY DEF AddDescriptorSetLayout
<1>2. layouts \in Seq(Seq(Bindings)) /\ <<>> \in Seq(Bindings)
  BY <1>1 DEF Declaring, DInv, DeclarationsTyped
<1>3. layouts' \in Seq(Seq(Bindings)) /\ DOMAIN layouts \subseteq DOMAIN layouts'
  <2> DEFINE S == Seq(Bindings)
  <2>1. layouts \in Seq(S) /\ <<>> \in S
    BY <1>2
  <2> HIDE DEF S
  <2>2. layouts' \in Seq(S) /\ DOMAIN layouts \subseteq DOMAIN layouts'
    BY <1>1, <2>1
  <2> QED
    BY <2>2 DEF S
<1> QED
  BY <1>1, <1>3, LayoutsOnly

LEMMA AddBindingDeclares ==
  ASSUME DInv, NEW l \in DOMAIN layouts, NEW b \in Bindings, AddBinding(l, b), UNCHANGED given
  PROVE  DInv'
<1>1. /\ Declaring /\ layouts' = [layouts EXCEPT ![l] = Append(layouts[l], b)]
      /\ UNCHANGED <<sets, declared, built, writes, overrun>>
  BY DEF AddBinding
<1>2. layouts \in Seq(Seq(Bindings))
  BY <1>1 DEF Declaring, DInv, DeclarationsTyped
<1>3. layouts[l] \in Seq(Bindings)
  BY <1>2
<1>4. Append(layouts[l], b) \in Seq(Bindings)
  BY <1>3
<1>5. layouts' \in Seq(Seq(Bindings)) /\ DOMAIN layouts' = DOMAIN layouts
  <2> DEFINE S == Seq(Bindings)
             e == Append(layouts[l], b)
  <2>1. layouts \in Seq(S) /\ e \in S /\ layouts' = [layouts EXCEPT ![l] = e]
    BY <1>1, <1>2, <1>4
  <2> HIDE DEF S, e
  <2>2. layouts' \in Seq(S) /\ DOMAIN layouts' = DOMAIN layouts
    BY <2>1
  <2> QED
    BY <2>2 DEF S
<1> QED
  BY <1>1, <1>5, LayoutsOnly

LEMMA AddDescriptorSetsDeclares ==
  ASSUME DInv, NEW l \in DOMAIN layouts, NEW c \in 1 .. MaxSetCount, AddDescriptorSets(l, c),
         UNCHANGED given
  PROVE  DInv'
<1> DEFINE size == Len(layouts[l]) * c
           slots == [n \in 1 .. size |-> NoDescriptor]
           e == [layout |-> l, set_count |-> c, descriptors |-> slots]
<1>1. /\ Declaring /\ sets' = Append(sets, e)
      /\ UNCHANGED <<layouts, declared, built, writes, overrun>>
  BY DEF AddDescriptorSets
<1>2. layouts \in Seq(Seq(Bindings)) /\ sets \in Seq(DescriptorSets)
  BY <1>1 DEF Declaring, DInv, DeclarationsTyped
<1>3. l \in Nat /\ Len(layouts[l]) \in Nat /\ c \in Nat /\ size \in Nat
  <2>1. layouts[l] \in Seq(Bindings) /\ l \in Nat
    BY <1>2
  <2>2. Len(layouts[l]) \in Nat /\ c \in Nat
    BY <2>1, DeclarationsAssumption
  <2> QED
    BY <2>1, <2>2
<1>4. slots \in Seq({NoDescriptor} \union Descriptors)
  <2> HIDE DEF size
  <2>1. slots \in [1 .. size -> {NoDescriptor} \union Descriptors]
    OBVIOUS
  <2> QED
    BY <1>3, <2>1, SeqDef
<1>5. e \in DescriptorSets /\ Added(e) = {}
  BY <1>3, <1>4 DEF DescriptorSets, Added
<1> HIDE DEF e
<1>6. /\ sets' \in Seq(DescriptorSets)
      /\ DOMAIN sets' = DOMAIN sets \union {Len(sets) + 1} /\ sets'[Len(sets) + 1] = e
      /\ \A s \in DOMAIN sets : sets'[s] = sets[s]
  <2> HIDE DEF DescriptorSets
  <2> QED
    BY <1>1, <1>2, <1>5
<1>7. DeclarationsTyped'
  <2>1. e.layout = l
    BY DEF e
  <2>2. \A s \in DOMAIN sets' : sets'[s].layout \in DOMAIN layouts
    BY <1>1, <1>6, <2>1 DEF Declaring, DInv, DeclarationsTyped
  <2> QED
    BY <1>1, <1>2, <1>6, <2>2 DEF DeclarationsTyped
<1>8. SlotsAsDeclared'
  <2>1. ASSUME NEW s \in DOMAIN sets', NEW n \in Added(sets'[s])
        PROVE  Entry(s, n)' \in declared
    <3>1. s \in DOMAIN sets /\ sets'[s] = sets[s]
      BY <1>5, <1>6, <2>1
    <3>2. Entry(s, n)' = Entry(s, n)
      BY <3>1 DEF Entry
    <3> QED
      BY <3>1, <3>2 DEF DInv, SlotsAsDeclared
  <2>2. ASSUME NEW d \in declared
        PROVE  \E s \in DOMAIN sets' : \E n \in Added(sets'[s]) : d = Entry(s, n)'
    <3>1. PICK s \in DOMAIN sets : \E n \in Added(sets[s]) : d = Entry(s, n)
      BY DEF DInv, SlotsAsDeclared
    <3>2. \A n : Entry(s, n)' = Entry(s, n)
      BY <1>6 DEF Entry
    <3> QED
      BY <1>6, <3>1, <3>2
  <2> QED
    BY <1>1, <2>1, <2>2 DEF SlotsAsDeclared, Added
<1>9. DeclaredGiven' /\ WritesAsDeclared' /\ SlotsSuffice'
  BY <1>1 DEF DInv, DeclaredGiven, WritesAsDeclared, SlotsSuffice, Declaring
<1> QED
  BY <1>7, <1>8, <1>9 DEF DInv

(* A slot is one of the layout's bindings times the number of sets.          *)
LEMMA SlotBelow ==
  ASSUME NEW i \in Nat, NEW length \in Nat, NEW count \in Nat, NEW set \in Nat,
         i < length, set < count
  PROVE  i * count + set \in Nat /\ i * count + set + 1 <= length * count
<1>1. PICK d \in Nat : length = i + 1 + d
  <2>1. length - i - 1 \in Nat /\ length = i + 1 + (length - i - 1)
    OBVIOUS
  <2> QED
    BY <2>1
<1>2. d * count \in Nat /\ i * count \in Nat /\ length * count = i * count + count + d * count
  BY <1>1
<1> QED
  BY <1>2

LEMMA IndexOfBinding ==
  ASSUME NEW l, layouts[l] \in Seq(Bindings), NEW b \in ToSet(layouts[l])
  PROVE  BindingIndex(l, b) \in 0 .. Len(layouts[l]) - 1
<1>1. PICK n \in DOMAIN layouts[l] : layouts[l][n] = b
  BY DEF ToSet
<1>2. n \in 1 .. Len(layouts[l]) /\ Len(layouts[l]) \in Nat
  OBVIOUS
<1>3. n - 1 \in 0 .. Len(layouts[l]) - 1 /\ layouts[l][n - 1 + 1] = b
  BY <1>1, <1>2
<1>4. \E i \in 0 .. Len(layouts[l]) - 1 : layouts[l][i + 1] = b
  BY <1>3
<1> QED
  BY <1>4 DEF BindingIndex

LEMMA AddDescriptorDeclares ==
  ASSUME DInv, NEW s \in DOMAIN sets, NEW set \in 0 .. MaxSetCount - 1, NEW b \in Bindings,
         NEW h \in DOMAIN given, h \in Handles, AddDescriptor(s, set, b, <<h>>), UNCHANGED given
  PROVE  DInv'
<1> DEFINE entry == sets[s]
           slot == Slot(entry, set, b) + 1
           new == [binding |-> b, set |-> set, resources |-> <<h>>]
<1>1. /\ Declaring /\ set < entry.set_count /\ b \in ToSet(layouts[entry.layout])
      /\ UNCHANGED <<layouts, built, writes>>
  BY DEF AddDescriptor
<1>2. /\ layouts[entry.layout] \in Seq(Bindings) /\ entry \in DescriptorSets
      /\ sets \in Seq(DescriptorSets)
      /\ entry.set_count \in Nat /\ set \in Nat
      /\ entry.descriptors \in Seq({NoDescriptor} \union Descriptors)
  <2>1. sets \in Seq(DescriptorSets) /\ layouts \in Seq(Seq(Bindings)) /\ entry.layout \in DOMAIN layouts
    BY <1>1 DEF Declaring, DInv, DeclarationsTyped
  <2>2. entry \in DescriptorSets /\ layouts[entry.layout] \in Seq(Bindings)
    BY <2>1
  <2> QED
    BY <2>1, <2>2, DeclarationsAssumption DEF DescriptorSets
<1>3. /\ slot \in Nat \ {0}
      /\ slot <= Len(layouts[entry.layout]) * entry.set_count
      /\ Len(layouts[entry.layout]) \in Nat
  <2>1. /\ BindingIndex(entry.layout, b) \in Nat /\ Len(layouts[entry.layout]) \in Nat
        /\ BindingIndex(entry.layout, b) < Len(layouts[entry.layout])
    <3>1. BindingIndex(entry.layout, b) \in 0 .. Len(layouts[entry.layout]) - 1
      BY <1>1, <1>2, IndexOfBinding
    <3>2. Len(layouts[entry.layout]) \in Nat
      BY <1>2
    <3> QED
      BY <3>1, <3>2
  <2>2. slot = BindingIndex(entry.layout, b) * entry.set_count + set + 1
    BY DEF Slot
  <2> HIDE DEF slot, entry
  <2>3. /\ BindingIndex(entry.layout, b) * entry.set_count + set \in Nat
        /\ BindingIndex(entry.layout, b) * entry.set_count + set + 1
             <= Len(layouts[entry.layout]) * entry.set_count
    BY <1>1, <1>2, <2>1, SlotBelow
  <2> QED
    BY <2>2, <2>3
<1>4. CASE slot > Len(entry.descriptors)
  <2>1. overrun' = TRUE /\ UNCHANGED <<sets, declared>>
    BY <1>4 DEF AddDescriptor
  <2>2. Len(sets[s].descriptors) < Len(layouts[sets[s].layout]) * sets[s].set_count
    <3>1. Len(entry.descriptors) \in Nat /\ Len(layouts[entry.layout]) * entry.set_count \in Nat
      BY <1>2, <1>3
    <3> HIDE DEF slot
    <3> QED
      BY <1>3, <1>4, <3>1
  <2>3. SlotsSuffice'
    BY <1>1, <2>1, <2>2 DEF SlotsSuffice
  <2> QED
    BY <1>1, <2>1, <2>3 DEF DInv, DeclarationsTyped, SlotsAsDeclared, DeclaredGiven, WritesAsDeclared,
       Declaring, Added, Entry
<1>5. CASE ~(slot > Len(entry.descriptors))
  <2> DEFINE item == [sets |-> s, set |-> set, binding |-> b, resources |-> <<h>>]
  <2>1. /\ entry.descriptors[slot] = NoDescriptor
        /\ sets' = [sets EXCEPT ![s].descriptors[slot] = new]
        /\ declared' = declared \union {item}
        /\ UNCHANGED overrun
    BY <1>5 DEF AddDescriptor
  <2>2. slot \in DOMAIN entry.descriptors
    <3>1. Len(entry.descriptors) \in Nat /\ DOMAIN entry.descriptors = 1 .. Len(entry.descriptors)
      BY <1>2
    <3> HIDE DEF slot
    <3> QED
      BY <1>3, <1>5, <3>1
  <2>3. new \in Descriptors /\ new # NoDescriptor
    <3>1. <<h>> \in Seq(Handles) /\ <<h>> # <<>>
      OBVIOUS
    <3>2. new.resources # NoDescriptor.resources
      BY <3>1 DEF NoDescriptor
    <3> QED
      BY <1>2, <3>1, <3>2 DEF Descriptors
  <2> DEFINE slots == [entry.descriptors EXCEPT ![slot] = new]
             changed == [entry EXCEPT !.descriptors = slots]
  <2> HIDE DEF slot, new
  <2>4. /\ slots \in Seq({NoDescriptor} \union Descriptors) /\ DOMAIN slots = DOMAIN entry.descriptors
        /\ \A n \in DOMAIN slots : slots[n] = IF n = slot THEN new ELSE entry.descriptors[n]
    <3> DEFINE S == {NoDescriptor} \union Descriptors
    <3>1. entry.descriptors \in Seq(S) /\ new \in S
      BY <1>2, <2>3
    <3> HIDE DEF S
    <3>2. slots \in Seq(S)
      BY <2>2, <3>1
    <3>3. /\ DOMAIN slots = DOMAIN entry.descriptors
          /\ \A n \in DOMAIN slots : slots[n] = IF n = slot THEN new ELSE entry.descriptors[n]
      BY <2>2, <3>1
    <3> QED
      BY <3>2, <3>3 DEF S
  <2>5. sets' = [sets EXCEPT ![s] = changed]
    BY <2>1, <1>2
  <2> HIDE DEF slots
  <2>6. changed \in DescriptorSets /\ changed.descriptors = slots /\ changed.layout = entry.layout
    BY <1>2, <2>4 DEF DescriptorSets
  <2> HIDE DEF changed
  <2>7. /\ sets' \in Seq(DescriptorSets) /\ DOMAIN sets' = DOMAIN sets
        /\ sets'[s] = changed /\ \A t \in DOMAIN sets : t # s => sets'[t] = sets[t]
    <3> HIDE DEF DescriptorSets
    <3> QED
      BY <1>2, <2>5, <2>6
  <2>8. Added(sets'[s]) = Added(sets[s]) \union {slot}
    <3>1. Added(sets'[s]) = {n \in DOMAIN slots : slots[n] # NoDescriptor}
      BY <2>6, <2>7 DEF Added
    <3>2. Added(sets[s]) = {n \in DOMAIN entry.descriptors : entry.descriptors[n] # NoDescriptor}
      BY DEF Added
    <3> HIDE DEF entry
    <3> QED
      BY <2>2, <2>3, <2>4, <3>1, <3>2
  <2>9. \A n : n = slot => Entry(s, n)' = item
    <3>1. slots[slot] = new /\ sets'[s].descriptors = slots
      BY <2>2, <2>4, <2>6, <2>7
    <3> QED
      BY <3>1 DEF Entry, new
  <2>10. \A n \in Added(sets[s]) : n # slot /\ Entry(s, n)' = Entry(s, n)
    BY <2>1, <2>4, <2>6, <2>7 DEF Entry, Added
  <2>11. \A t \in DOMAIN sets : t # s => Added(sets'[t]) = Added(sets[t]) /\ \A n : Entry(t, n)' = Entry(t, n)
    BY <2>7 DEF Entry
  <2>12. DeclarationsTyped'
    <3>1. \A t \in DOMAIN sets : sets'[t].layout = sets[t].layout
      BY <2>6, <2>7
    <3> QED
      BY <1>1, <2>7, <3>1 DEF DInv, DeclarationsTyped
  <2>13. SlotsAsDeclared'
    <3>1. ASSUME NEW t \in DOMAIN sets', NEW n \in Added(sets'[t])
          PROVE  Entry(t, n)' \in declared'
      <4>1. CASE t = s /\ n = slot
        BY <2>1, <2>9, <4>1
      <4>2. CASE t = s /\ n # slot
        BY <2>1, <2>8, <2>10, <3>1, <4>2 DEF DInv, SlotsAsDeclared
      <4>3. CASE t # s
        BY <2>1, <2>7, <2>11, <3>1, <4>3 DEF DInv, SlotsAsDeclared
      <4> QED
        BY <4>1, <4>2, <4>3
    <3>2. ASSUME NEW d \in declared'
          PROVE  \E t \in DOMAIN sets' : \E n \in Added(sets'[t]) : d = Entry(t, n)'
      <4>1. CASE d = item
        BY <2>7, <2>8, <2>9, <4>1
      <4>2. CASE d \in declared
        <5>1. PICK t \in DOMAIN sets : \E n \in Added(sets[t]) : d = Entry(t, n)
          BY <4>2 DEF DInv, SlotsAsDeclared
        <5>2. PICK n \in Added(sets[t]) : d = Entry(t, n)
          BY <5>1
        <5> QED
          BY <2>7, <2>8, <2>10, <2>11, <5>1, <5>2
      <4> QED
        BY <2>1, <4>1, <4>2
    <3> QED
      BY <3>1, <3>2 DEF SlotsAsDeclared, Added
  <2>14. DeclaredGiven'
    <3>1. \A i \in DOMAIN item.resources : item.resources[i] \in DOMAIN given
      OBVIOUS
    <3> HIDE DEF item
    <3> QED
      BY <2>1, <3>1 DEF DInv, DeclaredGiven
  <2>15. WritesAsDeclared' /\ SlotsSuffice'
    BY <1>1, <2>1 DEF WritesAsDeclared, SlotsSuffice, Declaring
  <2> QED
    BY <2>12, <2>13, <2>14, <2>15 DEF DInv
<1> QED
  BY <1>4, <1>5

LEMMA BuildDeclares ==
  ASSUME DInv, LeadsAsGiven, UNCHANGED given,
         BuildDescriptorSetLayouts \/ BuildDescriptorSets \/ BuildDescriptorSetsThrows
  PROVE  DInv'
<1>1. CASE BuildDescriptorSetLayouts
  <2>1. /\ ~overrun /\ ~overrun' /\ built' = "layouts"
        /\ UNCHANGED <<sets, declared, writes, overrun>>
    BY <1>1 DEF BuildDescriptorSetLayouts, Declaring
  <2> QED
    BY <2>1 DEF DInv, DeclarationsTyped, SlotsAsDeclared, DeclaredGiven, WritesAsDeclared, SlotsSuffice,
       Added, Entry
<1>2. CASE BuildDescriptorSetsThrows
  <2>1. built' = "threw" /\ UNCHANGED <<layouts, sets, declared, writes, overrun>>
    BY <1>2 DEF BuildDescriptorSetsThrows
  <2> QED
    BY <2>1 DEF DInv, DeclarationsTyped, SlotsAsDeclared, DeclaredGiven, WritesAsDeclared, SlotsSuffice,
       Added, Entry
<1>3. CASE BuildDescriptorSets
  <2> DEFINE As(d) == [sets |-> d.sets, set |-> d.set, binding |-> d.binding,
                       contents |-> [n \in DOMAIN d.resources |-> given[d.resources[n]]]]
  <2>1. /\ AllResolve /\ built' = "sets"
        /\ writes' = UNION {{Written(s, n) : n \in Added(sets[s])} : s \in DOMAIN sets}
        /\ UNCHANGED <<layouts, sets, declared, overrun>>
    BY <1>3 DEF BuildDescriptorSets
  <2>2. ASSUME NEW s \in DOMAIN sets, NEW n \in Added(sets[s])
        PROVE  Written(s, n) = As(Entry(s, n))
    <3> DEFINE resources == sets[s].descriptors[n].resources
    <3>1. Entry(s, n) \in declared
      BY DEF DInv, SlotsAsDeclared
    <3>2. \A i \in DOMAIN resources : resources[i] \in DOMAIN given /\ Get(resources[i]) = "found"
      BY <2>1, <3>1 DEF DInv, DeclaredGiven, AllResolve, Entry, ToSet
    <3>3. \A i \in DOMAIN resources : At(resources[i].kind, resources[i].id).value = given[resources[i]]
      BY <3>2 DEF LeadsAsGiven, LiveHandles
    <3>4. Contents(resources) = [i \in DOMAIN resources |-> given[resources[i]]]
      BY <3>3 DEF Contents
    <3> QED
      BY <3>4 DEF Written, Entry
  <2>3. writes' = {As(d) : d \in declared}
    <3> HIDE DEF As
    <3>1. ASSUME NEW w \in writes'
          PROVE  w \in {As(d) : d \in declared}
      <4>1. PICK s \in DOMAIN sets : \E n \in Added(sets[s]) : w = Written(s, n)
        BY <2>1
      <4>2. PICK n \in Added(sets[s]) : w = Written(s, n)
        BY <4>1
      <4>3. Entry(s, n) \in declared
        BY DEF DInv, SlotsAsDeclared
      <4> QED
        BY <2>2, <4>2, <4>3
    <3>2. ASSUME NEW d \in declared
          PROVE  As(d) \in writes'
      <4>1. PICK s \in DOMAIN sets : \E n \in Added(sets[s]) : d = Entry(s, n)
        BY DEF DInv, SlotsAsDeclared
      <4>2. PICK n \in Added(sets[s]) : d = Entry(s, n)
        BY <4>1
      <4>3. As(d) = Written(s, n)
        BY <2>2, <4>2
      <4> QED
        BY <2>1, <4>3
    <3> QED
      BY <3>1, <3>2
  <2>4. WritesAsDeclared'
    BY <2>1, <2>3 DEF WritesAsDeclared
  <2> QED
    BY <2>1, <2>4 DEF DInv, DeclarationsTyped, SlotsAsDeclared, DeclaredGiven, SlotsSuffice,
       Added, Entry
<1> QED
  BY <1>1, <1>2, <1>3

LEMMA DeclarationsStep ==
  ASSUME WholeInv, LeadsAsGiven, DInv, [ResourcesNext]_<<allVars, declarationVars>>
  PROVE  LeadsAsGiven' /\ DInv'
<1>1. CASE [SwapchainNext]_allVars /\ UNCHANGED declarationVars
  BY <1>1, LeadsStep, ResourcesOnly
<1>2. CASE Declares /\ UNCHANGED allVars
  <2>1. UNCHANGED <<elements, given>>
    BY <1>2 DEF allVars, vars
  <2>2. LeadsAsGiven'
    BY <2>1 DEF LeadsAsGiven, LiveHandles, Get, InRange, At
  <2>3. ASSUME NEW s \in DOMAIN sets, NEW set \in 0 .. MaxSetCount - 1, NEW b \in Bindings,
               NEW h \in LiveHandles, AddDescriptor(s, set, b, <<h>>)
        PROVE  DInv'
    <3>1. h \in DOMAIN given /\ h \in Handles
      BY DEF LiveHandles, WholeInv, SInv, TypeOK
    <3> QED
      BY <2>1, <2>3, <3>1, AddDescriptorDeclares
  <2>4. CASE AddDescriptorSetLayout
    BY <2>1, <2>2, <2>4, AddDescriptorSetLayoutDeclares
  <2>5. ASSUME NEW l \in DOMAIN layouts, NEW b \in Bindings, AddBinding(l, b)
        PROVE  DInv'
    BY <2>1, <2>5, AddBindingDeclares
  <2>6. ASSUME NEW l \in DOMAIN layouts, NEW c \in 1 .. MaxSetCount, AddDescriptorSets(l, c)
        PROVE  DInv'
    BY <2>1, <2>6, AddDescriptorSetsDeclares
  <2>7. CASE BuildDescriptorSetLayouts \/ BuildDescriptorSets \/ BuildDescriptorSetsThrows
    BY <2>1, <2>2, <2>7, BuildDeclares
  <2> QED
    BY <1>2, <2>2, <2>3, <2>4, <2>5, <2>6, <2>7 DEF Declares
<1> QED
  BY <1>1, <1>2 DEF ResourcesNext

LEMMA DeclarationsStart == ResourcesInit => LeadsAsGiven /\ DInv
<1> SUFFICES ASSUME ResourcesInit
             PROVE  LeadsAsGiven /\ DInv
  OBVIOUS
<1>1. /\ layouts = <<>> /\ sets = <<>> /\ declared = {} /\ built = "no" /\ ~overrun
      /\ DOMAIN given = {}
  BY DEF ResourcesInit, DeclarationsInit, SwapchainInit, Init
<1>2. DOMAIN sets = {} /\ sets \in Seq(DescriptorSets) /\ layouts \in Seq(Seq(Bindings))
  BY <1>1
<1>3. LeadsAsGiven
  BY <1>1 DEF LeadsAsGiven, LiveHandles
<1> QED
  BY <1>1, <1>2, <1>3 DEF DInv, DeclarationsTyped, SlotsAsDeclared, DeclaredGiven, WritesAsDeclared,
     SlotsSuffice

LEMMA DeclarationsHold == ResourcesSpec => [](WholeInv /\ LeadsAsGiven /\ DInv)
<1>1. ResourcesInit => WholeInv
  BY WholeStarts DEF ResourcesInit
<1>2. WholeInv /\ [ResourcesNext]_<<allVars, declarationVars>> => WholeInv'
  <2>1. [ResourcesNext]_<<allVars, declarationVars>> => [SwapchainNext]_allVars
    BY DEF ResourcesNext
  <2> QED
    BY <2>1, WholeStep
<1> QED
  BY <1>1, <1>2, DeclarationsStart, DeclarationsStep, PTL DEF ResourcesSpec

(* build_descriptor_sets writes each declared descriptor into its own        *)
(* binding and set, with the resource its handle was returned for.           *)
THEOREM DescriptorsAreWritten == ResourcesSpec => []WritesAsDeclared
<1>1. DInv => WritesAsDeclared
  BY DEF DInv
<1> QED
  BY <1>1, DeclarationsHold, PTL

(* Slots suffice unless a layout got bindings after its sets were declared.  *)
THEOREM SlotsAreEnough == ResourcesSpec => []SlotsSuffice
<1>1. DInv => SlotsSuffice
  BY DEF DInv
<1> QED
  BY <1>1, DeclarationsHold, PTL
=============================================================================
