------------------------ MODULE MemoryManager_proofs ------------------------
(***************************************************************************)
(* Proofs about MemoryManager for any capacities, frame slots, names and     *)
(* numbers of resources, registrations and frames.  Each call is first       *)
(* described by what it does to a single slot, handle, name and entry of the *)
(* tables; the invariants are then about one of these at a time.             *)
(***************************************************************************)
EXTENDS MemoryManager, FiniteSetTheorems, SequenceTheorems, NaturalsInduction,
        WellFoundedInduction, TLAPS

-----------------------------------------------------------------------------
(* Numbers.                                                                 *)

LEMMA Smallest ==
  ASSUME NEW T \in SUBSET Nat, T # {}
  PROVE  \E x \in T : \A y \in T : x <= y
<1> DEFINE R == {ss \in Nat \X Nat : ss[1] < ss[2]}
<1>1. IsWellFoundedOn(R, Nat)
  BY NatLessThanWellFounded DEF OpToRel
<1> HIDE DEF R
<1>2. PICK x \in T : \A y \in T : ~ (<<y, x>> \in R)
  BY <1>1, WFMin
<1>3. \A y \in T : y < x => <<y, x>> \in R
  BY DEF R
<1>4. \A y \in T : ~ (y < x)
  BY <1>2, <1>3
<1> QED
  BY <1>4

(* Every position of a finite set of positions is the i-th for one i.        *)
LEMMA NthIsOnto ==
  ASSUME NEW P \in SUBSET Nat, IsFiniteSet(P)
  PROVE  /\ Cardinality(P) \in Nat
         /\ \A i \in 1 .. Cardinality(P) : Nth(P, i) \in P
         /\ \A i, j \in 1 .. Cardinality(P) : Nth(P, i) = Nth(P, j) => i = j
         /\ \A n \in P : \E i \in 1 .. Cardinality(P) : Nth(P, i) = n
<1> DEFINE c == Cardinality(P)
           Upto(n) == {m \in P : m <= n}
           rank == [n \in P |-> Cardinality(Upto(n))]
<1>1. c \in Nat
  BY FS_CardinalityType
<1>2. ASSUME NEW n \in P
      PROVE  /\ IsFiniteSet(Upto(n)) /\ Cardinality(Upto(n)) \in 1 .. c
             /\ \A m \in P : m < n => Cardinality(Upto(m)) < Cardinality(Upto(n))
  <2>1. /\ IsFiniteSet(Upto(n)) /\ Cardinality(Upto(n)) <= c
        /\ Cardinality(Upto(n)) \in Nat
    BY FS_Subset, FS_CardinalityType
  <2>2. Cardinality(Upto(n)) # 0
    <3>1. n \in Upto(n)
      OBVIOUS
    <3> QED
      BY <2>1, <3>1, FS_EmptySet
  <2>3. ASSUME NEW m \in P, m < n
        PROVE  Cardinality(Upto(m)) < Cardinality(Upto(n))
    <3>0. ~ (n <= m) /\ n <= n /\ \A l \in P : l <= m => l <= n
      BY <2>3
    <3>1. Upto(m) \in SUBSET Upto(n) /\ n \in Upto(n) /\ n \notin Upto(m)
      BY <3>0, Zenon
    <3>2. /\ Cardinality(Upto(m)) <= Cardinality(Upto(n))
          /\ Cardinality(Upto(n)) # Cardinality(Upto(m))
      BY <2>1, <3>1, FS_Subset
    <3>3. Cardinality(Upto(m)) \in Nat
      BY <2>1, <3>1, FS_Subset, FS_CardinalityType
    <3> QED
      BY <2>1, <3>2, <3>3
  <2> QED
    BY <1>1, <2>1, <2>2, <2>3
<1>3. rank \in Injection(P, 1 .. c)
  <2>1. rank \in [P -> 1 .. c]
    BY <1>2
  <2>2. ASSUME NEW m \in P, NEW n \in P, rank[m] = rank[n]
        PROVE  m = n
    <3>1. Cardinality(Upto(m)) \in Nat /\ Cardinality(Upto(m)) = Cardinality(Upto(n))
      BY <1>2, <2>2
    <3>2. ~ (m < n) /\ ~ (n < m)
      BY <1>2, <3>1
    <3> QED
      BY <3>2
  <2> QED
    BY <2>1, <2>2 DEF Injection, IsInjective
<1>4. IsFiniteSet(1 .. c) /\ Cardinality(1 .. c) = c
  BY <1>1, FS_Interval
<1>5. rank \in Surjection(P, 1 .. c)
  BY <1>3, <1>4, FS_Injection
<1>6. ASSUME NEW i \in 1 .. c
      PROVE  Nth(P, i) \in P /\ rank[Nth(P, i)] = i
  <2>1. \E n \in P : Cardinality(Upto(n)) = i
    BY <1>5 DEF Surjection
  <2> QED
    BY <2>1 DEF Nth
<1>7. ASSUME NEW n \in P
      PROVE  rank[n] \in 1 .. c /\ Nth(P, rank[n]) = n
  <2>1. rank[n] \in 1 .. c
    BY <1>2
  <2>2. Nth(P, rank[n]) \in P /\ rank[Nth(P, rank[n])] = rank[n]
    BY <1>6, <2>1
  <2> QED
    BY <1>3, <2>1, <2>2 DEF Injection, IsInjective
<1> QED
  BY <1>1, <1>6, <1>7

(* What occurs in a sequence without repetitions occurs once.                *)
LEMMA OccursOnce ==
  ASSUME NEW seq, NEW x, \A a, b \in DOMAIN seq : seq[a] = x /\ seq[b] = x => a = b
  PROVE  Occurrences(seq, x) = IF \E a \in DOMAIN seq : seq[a] = x THEN 1 ELSE 0
<1> DEFINE S == {i \in DOMAIN seq : seq[i] = x}
<1>1. CASE \E a \in DOMAIN seq : seq[a] = x
  <2> PICK a \in DOMAIN seq : seq[a] = x
    BY <1>1
  <2>1. S = {a}
    OBVIOUS
  <2> QED
    BY <1>1, <2>1, FS_Singleton DEF Occurrences
<1>2. CASE ~ \E a \in DOMAIN seq : seq[a] = x
  <2>1. S = {}
    BY <1>2
  <2> QED
    BY <1>2, <2>1, FS_EmptySet DEF Occurrences
<1> QED
  BY <1>1, <1>2

-----------------------------------------------------------------------------
(* What a flush does.                                                       *)

Frees(pd, k, i) == pd.kind = k /\ pd.index = i
OnceIn(seq, k) ==
  \A m, n \in DOMAIN seq :
    /\ seq[m].kind = k /\ seq[m].index # invalid_id
    /\ seq[n].kind = k /\ seq[n].index = seq[m].index
    => m = n

LEMMA FreedIndicesAre ==
  ASSUME NEW due, NEW len \in Nat, DOMAIN due = 1 .. len, NEW k
  PROVE  /\ \E c \in Nat : DOMAIN FreedIndices(due, k) = 1 .. c
         /\ FreedIndices(due, k) = [a \in DOMAIN FreedIndices(due, k) |-> FreedIndices(due, k)[a]]
         /\ \A a \in DOMAIN FreedIndices(due, k) : \E n \in DOMAIN due :
              Frees(due[n], k, FreedIndices(due, k)[a]) /\ due[n].index # invalid_id
         /\ \A n \in DOMAIN due : due[n].kind = k /\ due[n].index # invalid_id =>
              \E a \in DOMAIN FreedIndices(due, k) : FreedIndices(due, k)[a] = due[n].index
         /\ OnceIn(due, k) =>
              \A a, b \in DOMAIN FreedIndices(due, k) :
                FreedIndices(due, k)[a] = FreedIndices(due, k)[b] => a = b
<1> DEFINE P == Freeing(due, k)
           c == Cardinality(P)
<1>1. P \in SUBSET Nat /\ IsFiniteSet(P)
  BY FS_Interval, FS_Subset DEF Freeing
<1>2. /\ c \in Nat
      /\ \A i \in 1 .. c : Nth(P, i) \in P
      /\ \A i, j \in 1 .. c : Nth(P, i) = Nth(P, j) => i = j
      /\ \A n \in P : \E i \in 1 .. c : Nth(P, i) = n
  BY <1>1, NthIsOnto
<1>3. \A n : n \in P <=> n \in DOMAIN due /\ due[n].kind = k /\ due[n].index # invalid_id
  BY DEF Freeing
<1>4. FreedIndices(due, k) = [i \in 1 .. c |-> due[Nth(P, i)].index]
  BY DEF FreedIndices
<1> HIDE DEF P, c
<1>5. DOMAIN FreedIndices(due, k) = 1 .. c
      /\ \A i \in 1 .. c : FreedIndices(due, k)[i] = due[Nth(P, i)].index
  BY <1>4
<1>6. ASSUME NEW n \in DOMAIN due, due[n].kind = k, due[n].index # invalid_id
      PROVE  \E a \in 1 .. c : FreedIndices(due, k)[a] = due[n].index
  BY <1>2, <1>3, <1>5, <1>6
<1>7. ASSUME OnceIn(due, k), NEW a \in 1 .. c, NEW b \in 1 .. c,
             FreedIndices(due, k)[a] = FreedIndices(due, k)[b]
      PROVE  a = b
  <2>1. Nth(P, a) = Nth(P, b)
    BY <1>2, <1>3, <1>5, <1>7 DEF OnceIn
  <2> QED
    BY <1>2, <2>1
<1>8. FreedIndices(due, k) = [a \in 1 .. c |-> FreedIndices(due, k)[a]]
  BY <1>4, <1>5
<1>9. \A a \in 1 .. c : \E n \in DOMAIN due :
        Frees(due[n], k, FreedIndices(due, k)[a]) /\ due[n].index # invalid_id
  BY <1>2, <1>3, <1>5 DEF Frees
<1> QED
  BY <1>2, <1>5, <1>6, <1>7, <1>8, <1>9

LEMMA DueCountIs ==
  ASSUME NEW force \in BOOLEAN, NEW counter, NEW len \in Nat, Len(pending_destructions) = len
  PROVE  LET n == DueCount(counter, force)
         IN /\ n \in 0 .. len
            /\ ~force => \A i \in 1 .. n : Due(pending_destructions[i], counter)
            /\ n < len => ~force /\ ~Due(pending_destructions[n + 1], counter)
<1>1. CASE force
  BY <1>1 DEF DueCount
<1>2. CASE ~force
  <2> DEFINE Late == {i \in 1 .. len : ~Due(pending_destructions[i], counter)}
             Fits(n) == /\ \A i \in 1 .. n : Due(pending_destructions[i], counter)
                        /\ n < len => ~Due(pending_destructions[n + 1], counter)
  <2>1. \E n \in 0 .. len : Fits(n)
    <3>1. CASE Late = {}
      <4>1. \A i \in 1 .. len : Due(pending_destructions[i], counter)
        BY <3>1
      <4>2. Fits(len)
        BY <4>1
      <4> QED
        BY <4>2
    <3>2. CASE Late # {}
      <4>0. Late \in SUBSET Nat
        OBVIOUS
      <4>1. PICK x \in Late : \A y \in Late : x <= y
        BY <3>2, <4>0, Smallest
      <4>2. x \in 1 .. len /\ x - 1 \in 0 .. len /\ (x - 1) + 1 = x
            /\ ~Due(pending_destructions[x], counter)
        OBVIOUS
      <4>3. \A i \in 1 .. x - 1 : i \in 1 .. len /\ ~ (x <= i)
        BY <4>2
      <4>4. \A i \in 1 .. x - 1 : Due(pending_destructions[i], counter)
        BY <4>1, <4>3
      <4>5. Fits(x - 1)
        BY <4>2, <4>4
      <4> QED
        BY <4>2, <4>5
    <3> QED
      BY <3>1, <3>2
  <2>2. DueCount(counter, force) = CHOOSE n \in 0 .. len : Fits(n)
    BY <1>2 DEF DueCount
  <2> HIDE DEF Fits
  <2>3. DueCount(counter, force) \in 0 .. len /\ Fits(DueCount(counter, force))
    BY <2>1, <2>2
  <2> QED
    BY <1>2, <2>3 DEF Fits
<1> QED
  BY <1>1, <1>2

-----------------------------------------------------------------------------
(* Types.                                                                   *)

(* Beside the types: functions have one value per kind and frame slot, and   *)
(* what is put off has an index of its kind.                                 *)
TInv ==
  /\ TypeOK
  /\ DOMAIN size = Kinds /\ DOMAIN slots = Kinds
  /\ DOMAIN free_indices = Kinds /\ DOMAIN capacity = Kinds
  /\ DOMAIN tables = FrameSlots /\ DOMAIN pending_writes = FrameSlots
  /\ DOMAIN frame_capacities = FrameSlots
  /\ \A f \in FrameSlots : DOMAIN tables[f] = Kinds /\ DOMAIN pending_writes[f] = Kinds
  /\ \A n \in DOMAIN pending_destructions :
       LET pd == pending_destructions[n]
       IN /\ pd.index # invalid_id => pd.kind \in Kinds /\ pd.index \in Indices(pd.kind)
          /\ pd.kind = "set" => pd.resource = None

LEMMA KindsAre == "set" \notin Kinds /\ \A k \in Kinds : max_capacity[k] \in Nat \ {0}
BY KindsAssumption, CapacityAssumption

LEMMA NoSetType == NoSet \in [Parts -> Nat] /\ PartsOf(NoSet) = {}
BY DEF NoSet, Parts, PartsOf, None

LEMMA NewSetType ==
  ASSUME NEW n \in Nat
  PROVE  /\ NewSet(n) \in [Parts -> Nat]
         /\ \A p \in Parts : NewSet(n)[p] = n + p /\ n + p \in n + 1 .. n + 4
         /\ PartsOf(NewSet(n)) \subseteq n + 1 .. n + 4
BY DEF NewSet, Parts, PartsOf, None

LEMMA TypesStart == Init => TInv
<1> SUFFICES ASSUME Init
             PROVE  TInv
  OBVIOUS
<1>1. \A k \in Kinds : InitialCapacity(k) \in 1 .. max_capacity[k]
  BY CapacityAssumption DEF InitialCapacity
<1>2. FrameSlots \subseteq Nat /\ 0 \in FrameSlots /\ frames_in_flight \in Nat
  BY FramesAssumption DEF FrameSlots
<1>3. /\ \A k \in Kinds : slots[k] \in [Indices(k) -> Slot]
      /\ names \in [Kinds -> [Names -> Handle \union {NoHandle}]]
  BY DEF Init, Slot, EmptySlot
<1>4. \A f \in FrameSlots : \A k \in Kinds :
        /\ frame_capacities[f][k] \in 1 .. max_capacity[k]
        /\ pending_writes[f][k] \subseteq Indices(k)
        /\ tables[f][k] \in [Indices(k) -> Entry]
  BY <1>1 DEF Init, EmptyTables, EmptyEntry, Entry
<1>5. /\ \A k \in Kinds : size[k] \in 0 .. max_capacity[k] /\ free_indices[k] \in Seq(Indices(k))
                          /\ capacity[k] \in 1 .. max_capacity[k]
  BY <1>1, KindsAre DEF Init
<1>6. frame_sets \in [FrameSlots -> [Parts -> Nat]] /\ sets \subseteq Nat /\ sets_created \in Nat
  <2>1. \A f \in FrameSlots : 4 * f \in Nat
    BY <1>2
  <2> QED
    BY <1>2, <2>1, NewSetType DEF Init
<1> QED
  BY <1>2, <1>3, <1>4, <1>5, <1>6, BoundsAssumption DEF Init, TInv, TypeOK, EmptyTables

-----------------------------------------------------------------------------
(* Slots.                                                                   *)

InFree(k, i) == \E a \in DOMAIN free_indices[k] : free_indices[k][a] = i
FreeOnce(k) ==
  \A a, b \in DOMAIN free_indices[k] : free_indices[k][a] = free_indices[k][b] => a = b
InPending(k, i) == \E n \in DOMAIN pending_destructions : Frees(pending_destructions[n], k, i)
Freed(d, k, i) == \E n \in 1 .. d : Frees(pending_destructions[n], k, i)

(* A slot is in use, reusable or to be destroyed, unless it is new.          *)
Accounted(k, i) ==
  /\ Valid(k, i) => i < size[k] /\ ~InFree(k, i) /\ ~InPending(k, i)
  /\ InFree(k, i) => i < size[k] /\ ~InPending(k, i)
  /\ InPending(k, i) => i < size[k]
  /\ i < size[k] => Valid(k, i) \/ InFree(k, i) \/ InPending(k, i)

AInv ==
  /\ TInv
  /\ \A k \in Kinds :
       /\ OnceIn(pending_destructions, k) /\ FreeOnce(k)
       /\ \A i \in Indices(k) : Accounted(k, i)

LEMMA AccountsStart == Init => AInv
<1> SUFFICES ASSUME Init
             PROVE  AInv
  OBVIOUS
<1>1. TInv
  BY TypesStart
<1>2. pending_destructions = <<>> /\ \A k \in Kinds : free_indices[k] = <<>> /\ size[k] = 0
  BY DEF Init
<1>3. \A k \in Kinds : \A i \in Indices(k) : ~Valid(k, i) /\ ~(i < 0)
  BY KindsAre DEF Init, Valid, EmptySlot, Indices
<1> QED
  BY <1>1, <1>2, <1>3 DEF AInv, OnceIn, FreeOnce, Accounted, InFree, InPending

LEMMA AccountsSound == AInv => SlotAccounting
<1> SUFFICES ASSUME AInv, NEW k \in Kinds, NEW i \in Indices(k)
             PROVE  (IF Valid(k, i) THEN 1 ELSE 0) + Occurrences(free_indices[k], i)
                      + Occurrences(PendingIndices(k), i) = (IF i < size[k] THEN 1 ELSE 0)
  BY DEF SlotAccounting
<1> DEFINE freed == FreedIndices(pending_destructions, k)
<1>1. pending_destructions \in Seq(PendingDestruction) /\ Accounted(k, i) /\ FreeOnce(k)
      /\ OnceIn(pending_destructions, k) /\ i # invalid_id
  BY KindsAre DEF AInv, TInv, TypeOK, Indices, invalid_id
<1>2. Occurrences(free_indices[k], i) = IF InFree(k, i) THEN 1 ELSE 0
  BY <1>1, OccursOnce DEF FreeOnce, InFree
<1>3. /\ \A a, b \in DOMAIN freed : freed[a] = freed[b] => a = b
      /\ (\E a \in DOMAIN freed : freed[a] = i) <=> InPending(k, i)
  <2>1. PICK len \in Nat : DOMAIN pending_destructions = 1 .. len
    BY <1>1
  <2>2. /\ \A a, b \in DOMAIN freed : freed[a] = freed[b] => a = b
        /\ \A a \in DOMAIN freed : \E n \in DOMAIN pending_destructions :
             Frees(pending_destructions[n], k, freed[a])
        /\ \A n \in DOMAIN pending_destructions :
             pending_destructions[n].kind = k /\ pending_destructions[n].index # invalid_id =>
               \E a \in DOMAIN freed : freed[a] = pending_destructions[n].index
    BY <1>1, <2>1, FreedIndicesAre
  <2> HIDE DEF freed
  <2> QED
    BY <1>1, <2>2, Zenon DEF InPending, Frees
<1>4. Occurrences(freed, i) = IF InPending(k, i) THEN 1 ELSE 0
  BY <1>3, OccursOnce
<1> QED
  BY <1>1, <1>2, <1>4 DEF PendingIndices, Accounted

(* The effect of a flush of d destructions.  One that throws may have        *)
(* destroyed parts of the set that it has come to.                           *)
Alike(pd, other) ==
  /\ pd.kind = other.kind /\ pd.resource = other.resource /\ pd.index = other.index
  /\ pd.requested_at_frame = other.requested_at_frame
Left(d) ==
  /\ pending_destructions' \in Seq(PendingDestruction)
  /\ Len(pending_destructions') = Len(pending_destructions) - d
  /\ \A n \in DOMAIN pending_destructions' :
       /\ n + d \in DOMAIN pending_destructions /\ n \in Nat \ {0}
       /\ Alike(pending_destructions'[n], pending_destructions[n + d])
  /\ \A n \in d + 1 .. Len(pending_destructions) : n - d \in DOMAIN pending_destructions'
Freeds(d) ==
  /\ \A k \in Kinds :
       /\ free_indices'[k] \in Seq(Indices(k)) /\ FreeOnce(k)'
       /\ \A i \in Indices(k) :
            /\ InFree(k, i)' <=> InFree(k, i) \/ Freed(d, k, i)
            /\ slots'[k][i] = [slots[k][i] EXCEPT
                 !.generation = @ + (IF Freed(d, k, i) THEN 1 ELSE 0)]
       /\ slots'[k] = [i \in Indices(k) |-> slots'[k][i]]
       /\ live'[k] \subseteq live[k]
       /\ \A r \in live[k] : r \notin live'[k] <=>
            \E n \in 1 .. d : pending_destructions[n].kind = k
                                /\ pending_destructions[n].resource = r
  /\ DOMAIN free_indices' = Kinds /\ DOMAIN slots' = Kinds
  /\ live' \in [Kinds -> SUBSET Resources]
  /\ sets' \subseteq sets
Flushed(d) == Left(d) /\ Freeds(d)

LEMMA DestroysEffect ==
  ASSUME AInv, NEW d \in 0 .. Len(pending_destructions), NEW parts, Destroys(d, parts)
  PROVE  Freeds(d)
<1> DEFINE len == Len(pending_destructions)
           due == SubSeq(pending_destructions, 1, d)
<1>1. /\ pending_destructions \in Seq(PendingDestruction) /\ len \in Nat
      /\ DOMAIN pending_destructions = 1 .. len
  BY DEF AInv, TInv, TypeOK
<1>2. d \in 0 .. len
  OBVIOUS
<1>3. /\ slots' = Retired(due)
      /\ free_indices' = Reusable(due)
      /\ live' = [k \in Kinds |->
           live[k] \ {due[i].resource : i \in {j \in DOMAIN due : due[j].kind = k}}]
      /\ sets' \subseteq sets
  BY DEF Destroys
<1>4. /\ DOMAIN due = 1 .. d
      /\ \A n \in 1 .. d : due[n] = pending_destructions[n] /\ n \in DOMAIN pending_destructions
  BY <1>1, <1>2
<1> HIDE DEF due
<1>6. ASSUME NEW k \in Kinds
      PROVE  /\ free_indices'[k] \in Seq(Indices(k)) /\ FreeOnce(k)'
             /\ \A i \in Indices(k) :
                  /\ InFree(k, i)' <=> InFree(k, i) \/ Freed(d, k, i)
                  /\ slots'[k][i] = [slots[k][i] EXCEPT
                       !.generation = @ + (IF Freed(d, k, i) THEN 1 ELSE 0)]
             /\ slots'[k] = [i \in Indices(k) |-> slots'[k][i]]
  <2> DEFINE freed == FreedIndices(due, k)
             free == free_indices[k]
  <2>1. free \in Seq(Indices(k)) /\ free_indices'[k] = free \o freed
    BY <1>3 DEF AInv, TInv, TypeOK, Reusable
  <2>2. OnceIn(due, k)
    BY <1>4 DEF OnceIn, AInv
  <2>3. ASSUME NEW n \in 1 .. d, due[n].kind = k, due[n].index # invalid_id
        PROVE  due[n].index \in Indices(k)
    BY <1>4, <2>3 DEF AInv, TInv
  <2>4. /\ \A a, b \in DOMAIN freed : freed[a] = freed[b] => a = b
        /\ \A a \in DOMAIN freed : freed[a] \in Indices(k) /\ Freed(d, k, freed[a])
        /\ \A i \in Indices(k) : Freed(d, k, i) => \E a \in DOMAIN freed : freed[a] = i
    <3>1. /\ \A a, b \in DOMAIN freed : freed[a] = freed[b] => a = b
          /\ \A a \in DOMAIN freed : \E n \in 1 .. d :
               Frees(due[n], k, freed[a]) /\ due[n].index # invalid_id
          /\ \A n \in 1 .. d : due[n].kind = k /\ due[n].index # invalid_id =>
               \E a \in DOMAIN freed : freed[a] = due[n].index
      BY <1>2, <1>4, <2>2, FreedIndicesAre
    <3>2. \A i \in Indices(k) : i # invalid_id
      BY KindsAre DEF Indices, invalid_id
    <3> HIDE DEF freed
    <3> QED
      BY <1>4, <2>3, <3>1, <3>2 DEF Freed, Frees
  <2>5. freed \in Seq(Indices(k))
    <3>1. PICK c \in Nat : DOMAIN freed = 1 .. c
      BY <1>2, <1>4, FreedIndicesAre
    <3>2. freed = [a \in DOMAIN freed |-> freed[a]]
      BY <1>2, <1>4, FreedIndicesAre
    <3> HIDE DEF freed
    <3>3. freed \in [1 .. c -> Indices(k)]
      BY <2>4, <3>1, <3>2
    <3> QED
      BY <3>3
  <2> HIDE DEF freed
  <2>6. /\ DOMAIN (free \o freed) = 1 .. Len(free) + Len(freed)
        /\ \A a \in DOMAIN (free \o freed) :
             \/ a \in DOMAIN free /\ (free \o freed)[a] = free[a]
             \/ /\ a \notin DOMAIN free /\ a - Len(free) \in DOMAIN freed
                /\ (free \o freed)[a] = freed[a - Len(free)]
        /\ \A a \in DOMAIN free : a \in DOMAIN (free \o freed) /\ (free \o freed)[a] = free[a]
        /\ \A a \in DOMAIN freed : /\ a + Len(free) \in DOMAIN (free \o freed)
                                   /\ (free \o freed)[a + Len(free)] = freed[a]
    <3> DEFINE both == free \o freed
    <3>1. /\ Len(free) \in Nat /\ DOMAIN free = 1 .. Len(free)
          /\ Len(freed) \in Nat /\ DOMAIN freed = 1 .. Len(freed)
      BY <2>1, <2>5
    <3>2. /\ both \in Seq(Indices(k)) /\ Len(both) = Len(free) + Len(freed)
          /\ \A a \in 1 .. Len(free) : both[a] = free[a]
          /\ \A a \in 1 .. Len(freed) : both[Len(free) + a] = freed[a]
      BY <2>1, <2>5, ConcatProperties
    <3>3. DOMAIN both = 1 .. Len(free) + Len(freed)
      BY <3>2
    <3> HIDE DEF both, free
    <3>4. ASSUME NEW a \in DOMAIN both, a \notin DOMAIN free
          PROVE  a - Len(free) \in DOMAIN freed /\ Len(free) + (a - Len(free)) = a
      BY <3>1, <3>3, <3>4
    <3>5. \A a \in DOMAIN free : a \in DOMAIN both
      BY <3>1, <3>3
    <3>6. \A a \in DOMAIN freed : a + Len(free) \in DOMAIN both /\ Len(free) + a = a + Len(free)
      BY <3>1, <3>3
    <3>7. \A a \in DOMAIN freed : both[a + Len(free)] = freed[a]
      BY <3>1, <3>2, <3>6
    <3>8. \A a \in DOMAIN both : a \notin DOMAIN free => both[a] = freed[a - Len(free)]
      BY <3>1, <3>2, <3>4
    <3> QED
      BY <3>1, <3>2, <3>3, <3>4, <3>5, <3>6, <3>7, <3>8
  <2>7. ASSUME NEW i \in Indices(k)
        PROVE  InFree(k, i)' <=> InFree(k, i) \/ Freed(d, k, i)
    BY <2>1, <2>4, <2>6 DEF InFree
  <2>8. ASSUME NEW i \in Indices(k), Freed(d, k, i)
        PROVE  ~InFree(k, i)
    <3>1. InPending(k, i)
      BY <1>4, <2>8 DEF Freed, InPending
    <3> QED
      BY <3>1 DEF AInv, Accounted
  <2>9. FreeOnce(k)'
    <3> SUFFICES ASSUME NEW a \in DOMAIN (free \o freed), NEW b \in DOMAIN (free \o freed),
                        (free \o freed)[a] = (free \o freed)[b]
                 PROVE  a = b
      BY <2>1 DEF FreeOnce
    <3>1. a \in Int /\ b \in Int /\ Len(free) \in Int
      BY <2>1, <2>6
    <3>2. CASE a \in DOMAIN free /\ b \in DOMAIN free
      BY <2>6, <3>2 DEF AInv, FreeOnce
    <3>3. CASE a \notin DOMAIN free /\ b \notin DOMAIN free
      <4>1. a - Len(free) = b - Len(free)
        BY <2>4, <2>6, <3>3
      <4> QED
        BY <3>1, <4>1
    <3>4. ASSUME NEW x \in DOMAIN free, NEW y \in DOMAIN freed, free[x] = freed[y]
          PROVE  FALSE
      BY <2>1, <2>4, <2>8, <3>4 DEF InFree
    <3> QED
      BY <2>6, <3>2, <3>3, <3>4
  <2>10. ASSUME NEW i \in Indices(k)
         PROVE  slots'[k][i] = [slots[k][i] EXCEPT
                       !.generation = @ + (IF Freed(d, k, i) THEN 1 ELSE 0)]
    <3>1. Occurrences(freed, i) = IF Freed(d, k, i) THEN 1 ELSE 0
      <4>1. Occurrences(freed, i) = IF \E a \in DOMAIN freed : freed[a] = i THEN 1 ELSE 0
        BY <2>4, OccursOnce
      <4> QED
        BY <2>4, <4>1
    <3>2. slots'[k][i] = [slots[k][i] EXCEPT !.generation = @ + Occurrences(freed, i)]
      BY <1>3 DEF Retired, freed
    <3> QED
      BY <3>1, <3>2
  <2>11. slots'[k] = [i \in Indices(k) |-> slots'[k][i]]
    BY <1>3 DEF Retired
  <2> QED
    BY <2>1, <2>5, <2>7, <2>9, <2>10, <2>11
<1>7. ASSUME NEW k \in Kinds
      PROVE  /\ live'[k] \subseteq live[k]
             /\ \A r \in live[k] : r \notin live'[k] <=>
                  \E n \in 1 .. d : pending_destructions[n].kind = k
                                      /\ pending_destructions[n].resource = r
  BY <1>3, <1>4
<1>8. /\ DOMAIN free_indices' = Kinds /\ DOMAIN slots' = Kinds
      /\ live' \in [Kinds -> SUBSET Resources]
  BY <1>3 DEF Reusable, Retired, AInv, TInv, TypeOK
<1> QED
  BY <1>3, <1>6, <1>7, <1>8, Zenon DEF Freeds

(* What is left of the queue.                                                *)
Rest(d) == SubSeq(pending_destructions, d + 1, Len(pending_destructions))

LEMMA LeftEffect ==
  ASSUME TInv, NEW d \in 0 .. Len(pending_destructions)
  PROVE  /\ Rest(d) \in Seq(PendingDestruction)
         /\ Len(Rest(d)) = Len(pending_destructions) - d
         /\ \A n \in DOMAIN Rest(d) : /\ n + d \in DOMAIN pending_destructions
                                      /\ n \in Nat \ {0}
                                      /\ Rest(d)[n] = pending_destructions[n + d]
         /\ \A n \in d + 1 .. Len(pending_destructions) : n - d \in DOMAIN Rest(d)
<1> DEFINE len == Len(pending_destructions)
           left == Rest(d)
<1>1. /\ pending_destructions \in Seq(PendingDestruction) /\ len \in Nat
      /\ DOMAIN pending_destructions = 1 .. len
  BY DEF TInv, TypeOK
<1>2. d \in Nat /\ len \in Nat /\ d <= len
  BY <1>1
<1>3. left \in Seq(PendingDestruction) /\ Len(left) = len - d
  <2>1. \A n \in d + 1 .. len : n \in DOMAIN pending_destructions
    BY <1>1, <1>2
  <2>2. \A n \in d + 1 .. len : pending_destructions[n] \in PendingDestruction
    BY <1>1, <2>1
  <2>3. d + 1 \in Int /\ len \in Int
    BY <1>2
  <2>4. /\ left \in Seq(PendingDestruction)
        /\ Len(left) = IF d + 1 <= len THEN len - (d + 1) + 1 ELSE 0
    BY <2>2, <2>3, SubSeqProperties DEF Rest
  <2> QED
    BY <1>2, <2>4
<1>4. DOMAIN left = 1 .. len - d
  BY <1>3
<1>5. ASSUME NEW n \in 1 .. len - d
      PROVE  n + d \in 1 .. len /\ n \in Nat \ {0} /\ left[n] = pending_destructions[n + d]
  <2> HIDE DEF len
  <2>1. n + d \in 1 .. len /\ n \in Nat \ {0} /\ d + 1 + n - 1 = n + d
    BY <1>2
  <2>2. /\ left = SubSeq(pending_destructions, d + 1, len) /\ DOMAIN left = 1 .. len - d
    BY <1>4 DEF Rest, len
  <2>3. left[n] = pending_destructions[d + 1 + n - 1]
    BY <1>1, <1>2, <2>1, <2>2
  <2> QED
    BY <2>1, <2>3
<1>6. \A n \in d + 1 .. len : n - d \in 1 .. len - d
  BY <1>2
<1> HIDE DEF left
<1> QED
  BY <1>1, <1>3, <1>4, <1>5, <1>6 DEF left

LEMMA FlushEffect ==
  ASSUME AInv, NEW counter \in Nat, NEW force \in BOOLEAN, NEW parts,
         Flush(counter, force, parts)
  PROVE  \E d \in 0 .. Len(pending_destructions) :
           /\ ~force => \A n \in 1 .. d : Due(pending_destructions[n], counter)
           /\ d < Len(pending_destructions) =>
                ~force /\ ~Due(pending_destructions[d + 1], counter)
           /\ Flushed(d)
           /\ \A n \in DOMAIN pending_destructions' :
                pending_destructions'[n] = pending_destructions[n + d]
           /\ sets' = sets \ (parts \union
                UNION {PartsOf(pending_destructions[n].set) : n \in 1 .. d})
<1> DEFINE d == DueCount(counter, force)
           len == Len(pending_destructions)
           due == SubSeq(pending_destructions, 1, d)
<1>1. len \in Nat /\ pending_destructions \in Seq(PendingDestruction) /\ TInv
  BY DEF AInv, TInv, TypeOK
<1>2. /\ d \in 0 .. len
      /\ ~force => \A i \in 1 .. d : Due(pending_destructions[i], counter)
      /\ d < len => ~force /\ ~Due(pending_destructions[d + 1], counter)
  BY <1>1, DueCountIs
<1>3. /\ pending_destructions' = Rest(d)
      /\ Destroys(d, parts)
      /\ sets' = sets \ (parts \union UNION {PartsOf(due[i].set) : i \in DOMAIN due})
  BY DEF Flush, Destroys, Rest
<1> HIDE DEF d
<1>4. /\ DOMAIN due = 1 .. d
      /\ \A n \in 1 .. d : due[n] = pending_destructions[n]
  BY <1>1, <1>2
<1> HIDE DEF due
<1>5. sets' = sets \ (parts \union UNION {PartsOf(pending_destructions[n].set) : n \in 1 .. d})
  BY <1>3, <1>4
<1>6. Left(d) /\ \A n \in DOMAIN pending_destructions' :
                  pending_destructions'[n] = pending_destructions[n + d]
  BY <1>1, <1>2, <1>3, LeftEffect DEF Left, Alike
<1>7. Flushed(d)
  BY <1>2, <1>3, <1>6, DestroysEffect DEF Flushed
<1> QED
  BY <1>2, <1>5, <1>6, <1>7

LEMMA FlushThrowsEffect ==
  ASSUME AInv, FlushThrows
  PROVE  /\ global_frame_counter' = global_frame_counter + 1
         /\ \E d \in 0 .. Len(pending_destructions) :
              /\ \A n \in 1 .. d : Due(pending_destructions[n], global_frame_counter + 1)
              /\ Flushed(d)
         /\ \E n \in DOMAIN pending_destructions : \E p \in Parts : Refused(n, p)
<1> DEFINE counter == global_frame_counter + 1
           len == Len(pending_destructions)
<1>1. /\ len \in Nat /\ pending_destructions \in Seq(PendingDestruction) /\ TInv
      /\ DOMAIN pending_destructions = 1 .. len
      /\ counter \in Nat
  BY DEF AInv, TInv, TypeOK
<1>2. global_frame_counter' = counter
  BY DEF FlushThrows
<1> DEFINE due == DueCount(counter, FALSE)
<1>3. \E n \in 1 .. due : \E p \in Parts :
        /\ Refused(n, p)
        /\ pending_destructions' =
             [SubSeq(pending_destructions, n, len) EXCEPT ![1].set =
                [q \in Parts |-> IF q <= p THEN None ELSE @[q]]]
        /\ Destroys(n - 1, {pending_destructions[n].set[q] : q \in 1 .. p - 1})
  <2>1. DueCount(global_frame_counter', FALSE) = due
    BY <1>2
  <2> HIDE DEF due, counter
  <2> QED
    BY <2>1, Zenon DEF FlushThrows
<1>0. due \in 0 .. len /\ \A i \in 1 .. due : Due(pending_destructions[i], counter)
  <2>1. FALSE \in BOOLEAN /\ Len(pending_destructions) = len /\ len \in Nat
    BY <1>1
  <2> HIDE DEF counter, len
  <2>2. /\ due \in 0 .. len
        /\ ~FALSE => \A i \in 1 .. due : Due(pending_destructions[i], counter)
    BY <2>1, DueCountIs
  <2> QED
    BY <2>2
<1> HIDE DEF due
<1>4. PICK n \in 1 .. due, p \in Parts :
        /\ Refused(n, p)
        /\ pending_destructions' =
             [SubSeq(pending_destructions, n, len) EXCEPT ![1].set =
                [q \in Parts |-> IF q <= p THEN None ELSE @[q]]]
        /\ Destroys(n - 1, {pending_destructions[n].set[q] : q \in 1 .. p - 1})
  BY <1>3
<1> DEFINE d == n - 1
           left == Rest(n - 1)
<1>5. /\ n \in 1 .. len /\ \A i \in 1 .. n : Due(pending_destructions[i], counter)
  <2> HIDE DEF counter, len
  <2>1. \A i \in 1 .. n : i \in 1 .. due
    BY <1>0, <1>1
  <2> QED
    BY <1>0, <1>1, <2>1
<1>6. d \in 0 .. len /\ d + 1 = n /\ \A i \in 1 .. d : i \in 1 .. n
  BY <1>1, <1>5
<1>7. Freeds(d)
  BY <1>4, <1>6, DestroysEffect
<1>8. /\ left \in Seq(PendingDestruction) /\ Len(left) = len - d
      /\ \A m \in DOMAIN left : /\ m + d \in DOMAIN pending_destructions
                                /\ m \in Nat \ {0}
                                /\ left[m] = pending_destructions[m + d]
      /\ \A m \in d + 1 .. len : m - d \in DOMAIN left
  <2> HIDE DEF d
  <2> QED
    BY <1>1, <1>6, LeftEffect DEF d
<1> HIDE DEF d, left
<1>9. 1 \in DOMAIN left
  BY <1>1, <1>5, <1>6, <1>8
<1>10. PICK gone : /\ gone = [q \in Parts |-> IF q <= p THEN None ELSE left[1].set[q]]
                   /\ pending_destructions' = [left EXCEPT ![1] = [@ EXCEPT !.set = gone]]
  <2>1. left = SubSeq(pending_destructions, n, len)
    <3>1. n - 1 + 1 = n
      BY <1>5
    <3> QED
      BY <3>1, Zenon DEF left, Rest
  <2> QED
    BY <1>4, <2>1
<1>11. left[1] \in PendingDestruction /\ gone \in [Parts -> Nat]
  <2>1. left[1] \in PendingDestruction
    BY <1>8, <1>9
  <2>2. left[1].set \in [Parts -> Nat]
    BY <2>1 DEF PendingDestruction
  <2> QED
    BY <1>10, <2>1, <2>2 DEF None
<1>12. /\ [left[1] EXCEPT !.set = gone] \in PendingDestruction
       /\ Alike([left[1] EXCEPT !.set = gone], left[1])
  BY <1>11 DEF PendingDestruction, Alike
<1>13. /\ pending_destructions' \in Seq(PendingDestruction)
       /\ DOMAIN pending_destructions' = DOMAIN left /\ Len(pending_destructions') = Len(left)
       /\ \A m \in DOMAIN left : Alike(pending_destructions'[m], left[m])
  <2>1. \A m \in DOMAIN left : pending_destructions'[m] =
          IF m = 1 THEN [left[1] EXCEPT !.set = gone] ELSE left[m]
    BY <1>8, <1>10
  <2>2. /\ pending_destructions' \in Seq(PendingDestruction)
        /\ DOMAIN pending_destructions' = DOMAIN left /\ Len(pending_destructions') = Len(left)
    BY <1>8, <1>9, <1>10, <1>12
  <2> QED
    BY <1>12, <2>1, <2>2 DEF Alike
<1>14. Left(d)
  BY <1>8, <1>13 DEF Left, len, Alike
<1>15. Refused(n, p) /\ n \in DOMAIN pending_destructions
  BY <1>1, <1>4, <1>5
<1> QED
  BY <1>2, <1>5, <1>6, <1>7, <1>14, <1>15 DEF Flushed

(* The effect of a registration in slot i.                                   *)
Takes(k, i, r, name) ==
  LET handle == [id |-> i, generation |-> slots[k][i].generation]
  IN /\ ~Valid(k, i) /\ ~InPending(k, i)
     /\ name # NoName => names[k][name] = NoHandle
     /\ \/ InFree(k, i) /\ size' = size /\ capacity' = capacity
        \/ /\ i = size[k] /\ size' = [size EXCEPT ![k] = @ + 1]
           /\ capacity' = IF size[k] = capacity[k]
                          THEN [capacity EXCEPT ![k] = IF @ * 2 < max_capacity[k]
                                                       THEN @ * 2 ELSE max_capacity[k]]
                          ELSE capacity
     /\ \A j \in Indices(k) : InFree(k, j)' <=> InFree(k, j) /\ j # i
     /\ FreeOnce(k)' /\ free_indices'[k] \in Seq(Indices(k)) /\ DOMAIN free_indices' = Kinds
     /\ \A q \in Kinds \ {k} : free_indices'[q] = free_indices[q]
     /\ slots' = [slots EXCEPT ![k][i] = [@ EXCEPT !.resource = r, !.unique_name = name]]
     /\ MarkDirty(k, i)
     /\ names' = IF name = NoName THEN names ELSE [names EXCEPT ![k][name] = handle]
     /\ issued' = [issued EXCEPT ![k] = @ \union {handle}]
     /\ open' = [open EXCEPT ![k] = @ \union {handle}]

LEMMA RegistersEffect ==
  ASSUME AInv, NEW k \in Kinds, NEW r, NEW name, Registers(k, r, name)
  PROVE  \E i \in Indices(k) : Takes(k, i, r, name)
<1>1. PICK i \in Indices(k) :
        LET handle == [id |-> i, generation |-> slots[k][i].generation]
        IN /\ TakeIndex(k, i)
           /\ slots' = [slots EXCEPT ![k][i] = [@ EXCEPT !.resource = r, !.unique_name = name]]
           /\ MarkDirty(k, i)
           /\ names' = IF name = NoName THEN names
                       ELSE [names EXCEPT ![k][name] = handle]
           /\ issued' = [issued EXCEPT ![k] = @ \union {handle}]
           /\ open' = [open EXCEPT ![k] = @ \union {handle}]
  BY DEF Registers
<1>2. name # NoName => names[k][name] = NoHandle
  BY DEF Registers, Accepts
<1> DEFINE free == free_indices[k]
           last == Len(free_indices[k])
<1>3. /\ free \in Seq(Indices(k)) /\ FreeOnce(k) /\ DOMAIN free_indices = Kinds
      /\ Accounted(k, i) /\ size[k] \in Nat /\ last \in Nat /\ DOMAIN free = 1 .. last
  BY KindsAre DEF AInv, TInv, TypeOK
<1>4. CASE free # <<>> /\ i = free[last] /\ UNCHANGED <<size, capacity>>
           /\ free_indices' = [free_indices EXCEPT ![k] = SubSeq(@, 1, Len(@) - 1)]
  <2>1. last \in DOMAIN free /\ InFree(k, i)
    BY <1>3, <1>4 DEF InFree
  <2>2. /\ free_indices'[k] = SubSeq(free, 1, last - 1) /\ DOMAIN free_indices' = Kinds
        /\ \A q \in Kinds \ {k} : free_indices'[q] = free_indices[q]
    BY <1>3, <1>4
  <2>3. \A a \in 1 .. last - 1 : a \in DOMAIN free /\ a # last
    <3>1. last \in Nat
      BY <1>3
    <3> HIDE DEF last
    <3>2. \A a \in 1 .. last - 1 : a \in 1 .. last /\ a # last
      BY <3>1
    <3> QED
      BY <1>3, <3>2, Zenon
  <2>4. /\ free_indices'[k] \in Seq(Indices(k))
        /\ DOMAIN free_indices'[k] = 1 .. last - 1
        /\ \A a \in 1 .. last - 1 : free_indices'[k][a] = free[a]
    <3>1. \A a \in 1 .. last - 1 : free[a] \in Indices(k)
      <4>1. \A a \in DOMAIN free : free[a] \in Indices(k)
        BY <1>3
      <4> QED
        BY <2>3, <4>1, Zenon
    <3>2. last - 1 \in Nat /\ 1 \in Int
      BY <1>3, <2>1
    <3>3. /\ free_indices'[k] \in Seq(Indices(k))
          /\ Len(free_indices'[k]) = IF 1 <= last - 1 THEN last - 1 - 1 + 1 ELSE 0
          /\ \A a \in 1 .. last - 1 - 1 + 1 : free_indices'[k][a] = free[1 + a - 1]
      BY <2>2, <3>1, <3>2, SubSeqProperties
    <3>4. /\ Len(free_indices'[k]) = last - 1
          /\ \A a \in 1 .. last - 1 : a \in 1 .. last - 1 - 1 + 1 /\ 1 + a - 1 = a
      BY <3>2, <3>3
    <3> QED
      BY <3>3, <3>4
  <2>5. FreeOnce(k)'
    BY <1>3, <2>3, <2>4 DEF FreeOnce
  <2>6. \A a \in DOMAIN free : a \in 1 .. last - 1 <=> free[a] # i
    <3>1. \A a \in DOMAIN free : free[a] = i <=> a = last
      BY <1>3, <1>4, <2>1 DEF FreeOnce
    <3>2. \A a \in DOMAIN free : a \in 1 .. last - 1 <=> a # last
      BY <1>3
    <3> QED
      BY <3>1, <3>2
  <2>7. \A j \in Indices(k) : InFree(k, j)' <=> InFree(k, j) /\ j # i
    BY <2>3, <2>4, <2>6 DEF InFree
  <2>8. ~Valid(k, i) /\ ~InPending(k, i)
    BY <1>3, <2>1 DEF Accounted
  <2> QED
    BY <1>1, <1>2, <1>4, <2>1, <2>2, <2>4, <2>5, <2>7, <2>8 DEF Takes
<1>5. CASE /\ free = <<>> /\ i = size[k] /\ size' = [size EXCEPT ![k] = @ + 1]
           /\ free_indices' = free_indices
           /\ capacity' = IF size[k] = capacity[k]
                          THEN [capacity EXCEPT ![k] = IF @ * 2 < max_capacity[k]
                                                       THEN @ * 2 ELSE max_capacity[k]]
                          ELSE capacity
  <2>1. ~(i < size[k]) /\ \A j \in Indices(k) : ~InFree(k, j)
    BY <1>3, <1>5 DEF InFree
  <2>2. ~Valid(k, i) /\ ~InPending(k, i)
    BY <1>3, <2>1 DEF Accounted
  <2>3. FreeOnce(k)' /\ \A j \in Indices(k) : ~InFree(k, j)'
    BY <1>3, <1>5, <2>1 DEF FreeOnce, InFree
  <2> QED
    BY <1>1, <1>2, <1>3, <1>5, <2>1, <2>2, <2>3 DEF Takes
<1> QED
  BY <1>1, <1>4, <1>5 DEF TakeIndex

(* The effect of what is put off.                                            *)
Appended(pd) ==
  LET len == Len(pending_destructions)
  IN /\ len \in Nat /\ DOMAIN pending_destructions = 1 .. len
     /\ pending_destructions' \in Seq(PendingDestruction)
     /\ DOMAIN pending_destructions' = 1 .. len + 1
     /\ \A n \in 1 .. len : pending_destructions'[n] = pending_destructions[n]
     /\ pending_destructions'[len + 1] = pd

LEMMA AppendEffect ==
  ASSUME TInv, NEW pd \in PendingDestruction,
         pending_destructions' = Append(pending_destructions, pd)
  PROVE  Appended(pd)
<1> DEFINE len == Len(pending_destructions)
<1>1. pending_destructions \in Seq(PendingDestruction)
  BY DEF TInv, TypeOK
<1>2. len \in Nat /\ DOMAIN pending_destructions = 1 .. len
  BY <1>1
<1>3. /\ pending_destructions' \in Seq(PendingDestruction)
      /\ DOMAIN pending_destructions' = 1 .. len + 1
      /\ pending_destructions'[len + 1] = pd
      /\ \A n \in 1 .. len : pending_destructions'[n] = pending_destructions[n]
  BY <1>1
<1> QED
  BY <1>2, <1>3 DEF Appended

LEMMA CreateEffect ==
  ASSUME TInv, NEW k \in Kinds, Create(k)
  PROVE  /\ created[k] + 1 \in Resources
         /\ created' \in [Kinds -> 0 .. MaxResources]
         /\ live' \in [Kinds -> SUBSET Resources]
<1> DEFINE of(j) == {<<j, r>> : r \in 1 .. created[j]}
           all == UNION {of(j) : j \in Kinds}
           f == [r \in 1 .. created[k] |-> <<k, r>>]
<1>1. /\ created \in [Kinds -> 0 .. MaxResources] /\ live \in [Kinds -> SUBSET Resources]
      /\ MaxResources \in Nat
  BY BoundsAssumption DEF TInv, TypeOK
<1>2. Cardinality(all) < MaxResources
  BY DEF Create
<1>3. \A j \in Kinds : of(j) \subseteq Kinds \X (1 .. MaxResources)
  BY <1>1
<1>4. IsFiniteSet(Kinds)
  <2>1. IsFiniteSet({"buffer", "image"})
    <3>1. IsFiniteSet({"buffer"})
      BY FS_Singleton
    <3>2. IsFiniteSet({"buffer"} \union {"image"})
      BY <3>1, FS_AddElement
    <3>3. {"buffer", "image"} = {"buffer"} \union {"image"}
      OBVIOUS
    <3> QED
      BY <3>2, <3>3
  <2> QED
    BY <2>1, KindsAssumption, FS_Subset
<1>5. IsFiniteSet(Kinds \X (1 .. MaxResources))
  <2>1. IsFiniteSet(1 .. MaxResources)
    BY <1>1, FS_Interval
  <2> QED
    BY <1>4, <2>1, FS_Product
<1>6. all \in SUBSET (Kinds \X (1 .. MaxResources))
  BY <1>3, Zenon
<1>7. IsFiniteSet(all)
  BY <1>5, <1>6, FS_Subset
<1>8. of(k) \in SUBSET all
  BY Zenon
<1>9. /\ IsFiniteSet(of(k)) /\ Cardinality(of(k)) <= Cardinality(all)
      /\ Cardinality(of(k)) \in Nat /\ Cardinality(all) \in Nat
  BY <1>7, <1>8, FS_Subset, FS_CardinalityType
<1>10. Cardinality(of(k)) = created[k]
  <2>1. f \in Bijection(1 .. created[k], of(k))
    BY Z3 DEF Bijection, Injection, Surjection, IsInjective
  <2>2. IsFiniteSet(1 .. created[k]) /\ Cardinality(1 .. created[k]) = created[k]
    BY <1>1, FS_Interval
  <2> QED
    BY <2>1, <2>2, FS_Bijection DEF ExistsBijection
<1>11. created[k] \in Nat /\ created[k] < MaxResources
  BY <1>1, <1>2, <1>9, <1>10
<1>12. created[k] + 1 \in Resources
  BY <1>1, <1>11 DEF Resources
<1>13. created' \in [Kinds -> 0 .. MaxResources]
  BY <1>1, <1>11 DEF Create
<1>14. live' \in [Kinds -> SUBSET Resources]
  BY <1>1, <1>12 DEF Create
<1> QED
  BY <1>12, <1>13, <1>14

(* The types of what the calls for handles change.                           *)
SlotTypes ==
  /\ DOMAIN size = Kinds /\ DOMAIN slots = Kinds
  /\ DOMAIN free_indices = Kinds /\ DOMAIN capacity = Kinds
  /\ \A k \in Kinds :
       /\ size[k] \in 0 .. max_capacity[k] /\ capacity[k] \in 1 .. max_capacity[k]
       /\ slots[k] \in [Indices(k) -> Slot] /\ free_indices[k] \in Seq(Indices(k))
  /\ names \in [Kinds -> [Names -> Handle \union {NoHandle}]]
  /\ issued \in [Kinds -> SUBSET Handle]
  /\ open \in [Kinds -> SUBSET Handle]
WriteTypes ==
  /\ DOMAIN pending_writes = FrameSlots
  /\ \A f \in FrameSlots : /\ DOMAIN pending_writes[f] = Kinds
                           /\ \A k \in Kinds : pending_writes[f][k] \subseteq Indices(k)

LEMMA MarkDirtyEffect ==
  ASSUME WriteTypes, NEW k \in Kinds, NEW i \in Indices(k), MarkDirty(k, i)
  PROVE  /\ WriteTypes'
         /\ \A f \in FrameSlots : \A q \in Kinds : \A j \in Indices(q) :
              j \in pending_writes'[f][q] <=>
                j \in pending_writes[f][q] \/ (q = k /\ j = i)
<1>1. \A f \in FrameSlots :
        pending_writes'[f] = [pending_writes[f] EXCEPT ![k] = @ \union {i}]
  BY DEF MarkDirty
<1>2. \A f \in FrameSlots : DOMAIN pending_writes'[f] = Kinds
  BY <1>1 DEF WriteTypes
<1>3. \A f \in FrameSlots : \A q \in Kinds :
        pending_writes'[f][q] = IF q = k THEN pending_writes[f][q] \union {i}
                                ELSE pending_writes[f][q]
  <2> SUFFICES ASSUME NEW f \in FrameSlots, NEW q \in Kinds
               PROVE  pending_writes'[f][q] = IF q = k THEN pending_writes[f][q] \union {i}
                                              ELSE pending_writes[f][q]
    OBVIOUS
  <2>1. q \in DOMAIN pending_writes[f] /\ k \in DOMAIN pending_writes[f]
    BY DEF WriteTypes
  <2> QED
    BY <1>1, <2>1
<1>4. DOMAIN pending_writes' = FrameSlots
  BY DEF MarkDirty
<1>5. WriteTypes'
  BY <1>2, <1>3, <1>4 DEF WriteTypes
<1> QED
  BY <1>3, <1>5

LEMMA TakesTypes ==
  ASSUME SlotTypes, WriteTypes, NEW k \in Kinds, NEW i \in Indices(k), NEW r \in Resources,
         NEW name \in Names \union {NoName}, Takes(k, i, r, name)
  PROVE  SlotTypes' /\ WriteTypes'
<1> DEFINE handle == [id |-> i, generation |-> slots[k][i].generation]
<1>1. slots[k][i] \in Slot /\ i \in Nat /\ max_capacity[k] \in Nat \ {0}
  BY KindsAre DEF SlotTypes, Indices
<1>2. handle \in Handle
  BY <1>1 DEF Slot, Handle
<1>3. /\ names' \in [Kinds -> [Names -> Handle \union {NoHandle}]]
      /\ issued' \in [Kinds -> SUBSET Handle] /\ open' \in [Kinds -> SUBSET Handle]
  BY <1>2 DEF SlotTypes, Takes
<1>4. /\ DOMAIN size' = Kinds /\ DOMAIN capacity' = Kinds
      /\ \A q \in Kinds : size'[q] \in 0 .. max_capacity[q]
  <2>1. \A q \in Kinds : size[q] \in 0 .. max_capacity[q]
    BY DEF SlotTypes
  <2>2. i = size[k] => size[k] + 1 \in 0 .. max_capacity[k]
    BY <1>1 DEF Indices
  <2> QED
    BY <2>1, <2>2 DEF SlotTypes, Takes
<1>5. \A q \in Kinds : capacity'[q] \in 1 .. max_capacity[q]
  <2>1. \A q \in Kinds : capacity[q] \in 1 .. max_capacity[q]
    BY DEF SlotTypes
  <2>2. (IF capacity[k] * 2 < max_capacity[k] THEN capacity[k] * 2 ELSE max_capacity[k])
          \in 1 .. max_capacity[k]
    BY <1>1, <2>1
  <2> QED
    BY <2>1, <2>2 DEF SlotTypes, Takes
<1>6. /\ DOMAIN slots' = Kinds
      /\ \A q \in Kinds : slots'[q] \in [Indices(q) -> Slot]
  <2>1. [slots[k][i] EXCEPT !.resource = r, !.unique_name = name] \in Slot
    BY <1>1 DEF Slot
  <2> QED
    BY <2>1 DEF SlotTypes, Takes
<1>7. DOMAIN free_indices' = Kinds /\ \A q \in Kinds : free_indices'[q] \in Seq(Indices(q))
  BY DEF SlotTypes, Takes
<1>8. WriteTypes'
  BY MarkDirtyEffect DEF Takes
<1> QED
  BY <1>3, <1>4, <1>5, <1>6, <1>7, <1>8 DEF SlotTypes

(* The effect of the end of a handle.                                        *)
Vacates(k, i, h, r) ==
  /\ h \in Handle /\ h.id = i /\ i < size[k] /\ Valid(k, i)
  /\ h.generation = slots[k][i].generation
  /\ Appended(Defer(k, r, i, NoSet))
  /\ names' = ForgetName(k, i)
  /\ slots' = [slots EXCEPT ![k][i] = Vacated(@)]
  /\ MarkDirty(k, i)
  /\ open' = [open EXCEPT ![k] = @ \ {h}]
  /\ UNCHANGED <<size, free_indices, capacity, issued>>

LEMMA ReleaseEffect ==
  ASSUME TInv, NEW k \in Kinds, NEW h \in issued[k], NEW r \in Resources \union {None},
         Release(k, h, r)
  PROVE  h.id \in Indices(k) /\ Vacates(k, h.id, h, r)
<1>1. h \in Handle /\ h.id \in Nat
  BY DEF TInv, TypeOK, Handle
<1>2. h.id \in Indices(k) /\ max_capacity[k] \in Nat
  BY <1>1, KindsAre DEF TInv, TypeOK, Release, Resolves, Indices
<1>3. Defer(k, r, h.id, NoSet) \in PendingDestruction
  BY <1>1, NoSetType DEF Defer, PendingDestruction, None, TInv, TypeOK
<1>4. Appended(Defer(k, r, h.id, NoSet))
  BY <1>3, AppendEffect DEF Release
<1> QED
  BY <1>1, <1>2, <1>4 DEF Release, Resolves, Vacates

LEMMA VacatesTypes ==
  ASSUME SlotTypes, WriteTypes, NEW k \in Kinds, NEW i \in Indices(k), NEW h, NEW r,
         Vacates(k, i, h, r)
  PROVE  SlotTypes' /\ WriteTypes'
<1>1. slots[k][i] \in Slot
  BY DEF SlotTypes
<1>2. Vacated(slots[k][i]) \in Slot
  BY <1>1 DEF Slot, Vacated
<1>3. /\ DOMAIN slots' = Kinds
      /\ \A q \in Kinds : slots'[q] \in [Indices(q) -> Slot]
  BY <1>2 DEF SlotTypes, Vacates
<1>4. names' \in [Kinds -> [Names -> Handle \union {NoHandle}]]
  BY <1>1 DEF SlotTypes, Vacates, ForgetName, Slot
<1>5. open' \in [Kinds -> SUBSET Handle]
  BY DEF SlotTypes, Vacates
<1>6. WriteTypes'
  BY MarkDirtyEffect DEF Vacates
<1> QED
  BY <1>3, <1>4, <1>5, <1>6 DEF SlotTypes, Vacates

StorageTypes ==
  /\ live \in [Kinds -> SUBSET Resources]
  /\ created \in [Kinds -> 0 .. MaxResources]
  /\ held \in [Kinds -> SUBSET Resources]
PendingTypes ==
  /\ pending_destructions \in Seq(PendingDestruction)
  /\ \A n \in DOMAIN pending_destructions :
       LET pd == pending_destructions[n]
       IN /\ pd.index # invalid_id => pd.kind \in Kinds /\ pd.index \in Indices(pd.kind)
          /\ pd.kind = "set" => pd.resource = None
FrameTypes ==
  /\ DOMAIN tables = FrameSlots /\ DOMAIN frame_capacities = FrameSlots
  /\ \A f \in FrameSlots : /\ DOMAIN tables[f] = Kinds
                           /\ \A k \in Kinds : /\ frame_capacities[f][k] \in 1 .. max_capacity[k]
                                               /\ tables[f][k] \in [Indices(k) -> Entry]
  /\ frame_sets \in [FrameSlots -> [Parts -> Nat]]
  /\ sets_created \in Nat
  /\ set_failures \in 0 .. MaxSetFailures
PhaseTypes ==
  /\ global_frame_counter \in Nat
  /\ sets \subseteq Nat
  /\ current_frame \in FrameSlots
  /\ phase \in {"outside", "begun", "frame", "destroyed"}

LEMMA TypesAre ==
  TInv <=> SlotTypes /\ WriteTypes /\ StorageTypes /\ PendingTypes /\ FrameTypes /\ PhaseTypes
<1>1. TInv => SlotTypes /\ WriteTypes /\ StorageTypes /\ PendingTypes /\ FrameTypes /\ PhaseTypes
  BY Zenon DEF TInv, TypeOK, SlotTypes, WriteTypes, StorageTypes, PendingTypes, FrameTypes,
               PhaseTypes
<1>2. SlotTypes /\ WriteTypes /\ StorageTypes /\ PendingTypes /\ FrameTypes /\ PhaseTypes => TInv
  BY Zenon DEF TInv, TypeOK, SlotTypes, WriteTypes, StorageTypes, PendingTypes, FrameTypes,
               PhaseTypes
<1> QED
  BY <1>1, <1>2

LEMMA AppendedTypes ==
  ASSUME PendingTypes, NEW pd, Appended(pd),
         pd.index # invalid_id => pd.kind \in Kinds /\ pd.index \in Indices(pd.kind),
         pd.kind = "set" => pd.resource = None
  PROVE  PendingTypes'
<1> DEFINE len == Len(pending_destructions)
<1>1. /\ len \in Nat /\ DOMAIN pending_destructions = 1 .. len
      /\ DOMAIN pending_destructions' = 1 .. len + 1
      /\ \A n \in 1 .. len : pending_destructions'[n] = pending_destructions[n]
      /\ pending_destructions'[len + 1] = pd
      /\ pending_destructions' \in Seq(PendingDestruction)
  BY DEF Appended
<1> HIDE DEF len
<1>2. \A n \in 1 .. len + 1 : n \in 1 .. len \/ n = len + 1
  BY <1>1
<1>3. ASSUME NEW n \in 1 .. len + 1
      PROVE  LET p == pending_destructions'[n]
             IN /\ p.index # invalid_id => p.kind \in Kinds /\ p.index \in Indices(p.kind)
                /\ p.kind = "set" => p.resource = None
  <2>1. CASE n \in 1 .. len
    BY <1>1, <2>1 DEF PendingTypes
  <2>2. CASE n = len + 1
    BY <1>1, <2>2
  <2> QED
    BY <1>2, <2>1, <2>2
<1> QED
  BY <1>1, <1>3 DEF PendingTypes

(* A frame slot's set is put off.                                            *)
LEMMA SetDeferred ==
  ASSUME TInv,
         pending_destructions' = Append(pending_destructions,
           Defer("set", None, invalid_id, frame_sets[current_frame]))
  PROVE  LET pd == Defer("set", None, invalid_id, frame_sets[current_frame])
         IN /\ Appended(pd) /\ pd.kind = "set" /\ pd.resource = None /\ pd.index = invalid_id
            /\ pd.set = frame_sets[current_frame]
            /\ pd.requested_at_frame = global_frame_counter
<1>1. FrameTypes /\ PhaseTypes
  BY TypesAre
<1>2. Defer("set", None, invalid_id, frame_sets[current_frame]) \in PendingDestruction
  BY <1>1 DEF Defer, PendingDestruction, None, PhaseTypes, FrameTypes
<1> QED
  BY <1>2, AppendEffect DEF Defer

LEMMA FlushTypes ==
  ASSUME TInv, NEW d \in 0 .. Len(pending_destructions), Flushed(d),
         UNCHANGED <<size, capacity, names, issued, open>>
  PROVE  SlotTypes' /\ PendingTypes'
<1>1. SlotTypes /\ PendingTypes
  BY TypesAre
<1>2. ASSUME NEW k \in Kinds
      PROVE  slots'[k] \in [Indices(k) -> Slot]
  <2>1. ASSUME NEW i \in Indices(k)
        PROVE  slots'[k][i] \in Slot
    <3>1. slots[k][i] \in Slot
      BY <1>1 DEF SlotTypes
    <3> DEFINE inc == IF Freed(d, k, i) THEN 1 ELSE 0
    <3>2. slots'[k][i] = [slots[k][i] EXCEPT !.generation = @ + inc] /\ inc \in Nat
      BY DEF Flushed, Freeds
    <3> HIDE DEF inc
    <3>3. slots[k][i].generation + inc \in Nat
      BY <3>1, <3>2 DEF Slot
    <3> QED
      BY <3>1, <3>2, <3>3 DEF Slot
  <2> QED
    BY <2>1 DEF Flushed, Freeds
<1>3. SlotTypes'
  BY <1>1, <1>2 DEF SlotTypes, Flushed, Freeds
<1>4. PendingTypes'
  <2>1. ASSUME NEW n \in DOMAIN pending_destructions'
        PROVE  /\ n + d \in DOMAIN pending_destructions
               /\ Alike(pending_destructions'[n], pending_destructions[n + d])
    BY DEF Flushed, Left
  <2>2. pending_destructions' \in Seq(PendingDestruction)
    BY DEF Flushed, Left
  <2> QED
    BY <1>1, <2>1, <2>2 DEF PendingTypes, Alike
<1> QED
  BY <1>3, <1>4

LEMMA TablesTypes ==
  ASSUME TInv, NEW old, NEW writes,
         \A k \in Kinds : old[k] \in [Indices(k) -> Entry]
  PROVE  /\ DOMAIN Written(old, writes) = Kinds
         /\ \A k \in Kinds : Written(old, writes)[k] \in [Indices(k) -> Entry]
<1>1. ASSUME NEW k \in Kinds, NEW i \in Indices(k)
      PROVE  EntryOf(k, i, old[k][i]) \in Entry /\ old[k][i] \in Entry
  <2>1. slots[k][i] \in Slot /\ old[k][i] \in Entry
    BY DEF TInv, TypeOK
  <2> QED
    BY <2>1 DEF EntryOf, Entry, Slot
<1> QED
  BY <1>1 DEF Written

LEMMA NewTablesTypes ==
  ASSUME TInv
  PROVE  \A k \in Kinds : NewTables[k] \in [Indices(k) -> Entry]
<1>1. EmptyEntry \in Entry
  BY DEF EmptyEntry, Entry
<1>2. ASSUME NEW k \in Kinds, NEW i \in Indices(k)
      PROVE  EntryOf(k, i, EmptyEntry) \in Entry
  <2>1. slots[k][i] \in Slot
    BY DEF TInv, TypeOK
  <2> QED
    BY <1>1, <2>1 DEF EntryOf, Entry, Slot
<1> QED
  BY <1>1, <1>2 DEF NewTables

LEMMA TypesStep ==
  ASSUME AInv, [Next]_vars
  PROVE  TInv'
<1>1. TInv /\ SlotTypes /\ WriteTypes /\ StorageTypes /\ PendingTypes /\ FrameTypes /\ PhaseTypes
  BY TypesAre DEF AInv
<1>0. SlotTypes' /\ WriteTypes' /\ StorageTypes' /\ PendingTypes' /\ FrameTypes' /\ PhaseTypes'
        => TInv'
  BY Zenon DEF TInv, TypeOK, SlotTypes, WriteTypes, StorageTypes, PendingTypes, FrameTypes,
               PhaseTypes
<1>2. ASSUME NEW k \in Kinds, NEW name \in Names \union {NoName}, AddBindless(k, name)
      PROVE  TInv'
  <2>1. /\ created[k] + 1 \in Resources /\ created' \in [Kinds -> 0 .. MaxResources]
        /\ live' \in [Kinds -> SUBSET Resources]
    BY <1>1, <1>2, CreateEffect DEF AddBindless
  <2>2. SlotTypes' /\ WriteTypes'
    <3>1. CASE Registers(k, created[k] + 1, name)
      BY <1>1, <2>1, <3>1, RegistersEffect, TakesTypes
    <3>2. CASE UNCHANGED <<slotVars, pending_writes>>
      BY <1>1, <3>2 DEF SlotTypes, WriteTypes, slotVars
    <3> QED
      BY <1>2, <3>1, <3>2 DEF AddBindless
  <2>3. StorageTypes' /\ PendingTypes' /\ FrameTypes' /\ PhaseTypes'
    BY <1>1, <1>2, <2>1 DEF AddBindless, StorageTypes, PendingTypes, FrameTypes, PhaseTypes,
                            frameVars
  <2> QED
    BY <1>0, <2>2, <2>3
<1>3. ASSUME NEW k \in Kinds, NEW name \in Names \union {NoName}, NEW r \in held[k],
             Register(k, r, name)
      PROVE  TInv'
  <2>1. r \in Resources
    BY <1>1 DEF StorageTypes
  <2>2. SlotTypes' /\ WriteTypes'
    BY <1>1, <1>3, <2>1, RegistersEffect, TakesTypes DEF Register
  <2>3. StorageTypes' /\ PendingTypes' /\ FrameTypes' /\ PhaseTypes'
    BY <1>1, <1>3 DEF Register, StorageTypes, PendingTypes, FrameTypes, PhaseTypes,
                      storageVars, frameVars
  <2> QED
    BY <1>0, <2>2, <2>3
<1>4. ASSUME NEW k \in Kinds, AddResource(k)
      PROVE  TInv'
  <2>1. /\ created[k] + 1 \in Resources /\ created' \in [Kinds -> 0 .. MaxResources]
        /\ live' \in [Kinds -> SUBSET Resources]
    BY <1>1, <1>4, CreateEffect DEF AddResource
  <2>2. StorageTypes'
    BY <1>1, <1>4, <2>1 DEF AddResource, StorageTypes
  <2>3. SlotTypes' /\ WriteTypes' /\ PendingTypes' /\ FrameTypes' /\ PhaseTypes'
    BY <1>1, <1>4 DEF AddResource, SlotTypes, WriteTypes, PendingTypes, FrameTypes, PhaseTypes,
                      slotVars, frameVars
  <2> QED
    BY <1>0, <2>2, <2>3
<1>5. ASSUME NEW k \in Kinds, NEW h \in issued[k], NEW r \in Resources \union {None},
             Release(k, h, r), held' \in [Kinds -> SUBSET Resources]
      PROVE  TInv'
  <2>1. h.id \in Indices(k) /\ Vacates(k, h.id, h, r)
    BY <1>1, <1>5, ReleaseEffect
  <2>2. SlotTypes' /\ WriteTypes'
    BY <1>1, <2>1, VacatesTypes
  <2>3. PendingTypes'
    <3>1. Appended(Defer(k, r, h.id, NoSet))
      BY <2>1 DEF Vacates
    <3> QED
      BY <1>1, <2>1, <3>1, KindsAre, AppendedTypes DEF Defer
  <2>4. StorageTypes' /\ FrameTypes' /\ PhaseTypes'
    BY <1>1, <1>5 DEF Release, StorageTypes, FrameTypes, PhaseTypes, frameVars
  <2> QED
    BY <1>0, <2>2, <2>3, <2>4
<1>6. ASSUME NEW k \in Kinds, NEW h \in issued[k], Destroy(k, h)
      PROVE  TInv'
  <2>1. slots[k][h.id].resource \in Resources \union {None}
    <3>1. h.id \in Indices(k)
      BY <1>1, <1>6, KindsAre DEF Destroy, Release, Resolves, SlotTypes, Indices, Handle
    <3> QED
      BY <1>1, <3>1 DEF SlotTypes, Slot
  <2>2. held' \in [Kinds -> SUBSET Resources]
    BY <1>1, <1>6 DEF Destroy, StorageTypes
  <2> QED
    BY <1>5, <1>6, <2>1, <2>2 DEF Destroy
<1>7. ASSUME NEW k \in Kinds, NEW h \in issued[k], Unregister(k, h)
      PROVE  TInv'
  BY <1>1, <1>5, <1>7 DEF Unregister, StorageTypes
<1>8. ASSUME NEW k \in Kinds, NEW r \in held[k], DestroyResource(k, r)
      PROVE  TInv'
  <2>1. Defer(k, r, invalid_id, NoSet) \in PendingDestruction
    BY <1>1, NoSetType DEF Defer, PendingDestruction, None, PhaseTypes, StorageTypes
  <2>2. Appended(Defer(k, r, invalid_id, NoSet))
    BY <1>1, <1>8, <2>1, AppendEffect DEF DestroyResource
  <2>3. PendingTypes'
    BY <1>1, <2>2, KindsAre, AppendedTypes DEF Defer
  <2>4. StorageTypes'
    BY <1>1, <1>8 DEF DestroyResource, StorageTypes
  <2>5. SlotTypes' /\ WriteTypes' /\ FrameTypes' /\ PhaseTypes'
    BY <1>1, <1>8 DEF DestroyResource, SlotTypes, WriteTypes, FrameTypes, PhaseTypes,
                      slotVars, frameVars
  <2> QED
    BY <1>0, <2>3, <2>4, <2>5
<1>9. ASSUME BeginFrame
      PROVE  TInv'
  <2>1. global_frame_counter' \in Nat /\ Flush(global_frame_counter', FALSE, {})
    <3>1. global_frame_counter' \in Nat
      BY <1>1, <1>9 DEF BeginFrame, PhaseTypes
    <3>2. Flush(global_frame_counter', FALSE, {})
      BY <1>9 DEF BeginFrame
    <3> QED
      BY <3>1, <3>2
  <2>2. PICK d \in 0 .. Len(pending_destructions) : Flushed(d)
    BY <2>1, FlushEffect
  <2>3. SlotTypes' /\ PendingTypes'
    BY <1>1, <1>9, <2>2, FlushTypes DEF BeginFrame
  <2>4. WriteTypes' /\ StorageTypes' /\ FrameTypes' /\ PhaseTypes'
    BY <1>1, <1>9, <2>1, <2>2 DEF BeginFrame, Flushed, Freeds, WriteTypes, StorageTypes, FrameTypes,
                                  PhaseTypes, frameVars
  <2> QED
    BY <1>0, <2>3, <2>4
<1>10. ASSUME WriteDescriptors
       PROVE  TInv'
  <2> DEFINE f == current_frame
  <2>0. f \in FrameSlots
    BY <1>1 DEF PhaseTypes
  <2>1. WriteTypes'
    BY <1>1, <1>10, <2>0 DEF WriteDescriptors, WriteTypes
  <2>2. SlotTypes' /\ StorageTypes'
    BY <1>1, <1>10 DEF WriteDescriptors, SlotTypes, StorageTypes, slotVars, storageVars
  <2>3. CASE CreateFrameSet(f)
    <3>1. Defer("set", None, invalid_id, frame_sets[f]) \in PendingDestruction
      BY <1>1, <2>0 DEF Defer, PendingDestruction, None, PhaseTypes, FrameTypes
    <3>2. Appended(Defer("set", None, invalid_id, frame_sets[f]))
      BY <1>1, <2>3, <3>1, AppendEffect DEF CreateFrameSet
    <3>3. PendingTypes'
      BY <1>1, <3>2, AppendedTypes DEF Defer
    <3>4. /\ DOMAIN Written(NewTables, NewWrites) = Kinds
          /\ \A k \in Kinds : Written(NewTables, NewWrites)[k] \in [Indices(k) -> Entry]
      BY <1>1, NewTablesTypes, TablesTypes
    <3>5. \A k \in Kinds : capacity[k] \in 1 .. max_capacity[k]
      BY <1>1 DEF SlotTypes
    <3>6. /\ NewSet(sets_created) \in [Parts -> Nat] /\ sets_created \in Nat
          /\ PartsOf(NewSet(sets_created)) \subseteq Nat
      BY <1>1, NewSetType DEF FrameTypes
    <3>7. FrameTypes'
      BY <1>1, <2>0, <2>3, <3>4, <3>5, <3>6 DEF CreateFrameSet, FrameTypes
    <3>8. PhaseTypes'
      BY <1>1, <1>10, <2>3, <3>6 DEF WriteDescriptors, CreateFrameSet, PhaseTypes
    <3> QED
      BY <1>0, <2>1, <2>2, <3>3, <3>7, <3>8
  <2>4. CASE KeepFrameSet(f)
    <3>1. /\ DOMAIN Written(tables[f], pending_writes[f]) = Kinds
          /\ \A k \in Kinds : Written(tables[f], pending_writes[f])[k] \in [Indices(k) -> Entry]
      BY <1>1, <2>0, TablesTypes DEF FrameTypes
    <3>2. FrameTypes'
      BY <1>1, <2>0, <2>4, <3>1 DEF KeepFrameSet, FrameTypes
    <3>3. PendingTypes' /\ PhaseTypes'
      BY <1>1, <1>10, <2>4 DEF WriteDescriptors, KeepFrameSet, PendingTypes, PhaseTypes
    <3> QED
      BY <1>0, <2>1, <2>2, <3>2, <3>3
  <2> QED
    BY <1>10, <2>3, <2>4 DEF WriteDescriptors
<1>11. ASSUME EndFrame
       PROVE  TInv'
  <2>1. NextSlot(current_frame) \in FrameSlots
    BY <1>1, FramesAssumption DEF PhaseTypes, FrameSlots, NextSlot
  <2>2. SlotTypes' /\ WriteTypes' /\ StorageTypes' /\ PendingTypes' /\ FrameTypes'
    BY <1>1, <1>11 DEF EndFrame, SlotTypes, WriteTypes, StorageTypes, PendingTypes, FrameTypes,
                       storageVars, slotVars, frameVars
  <2>3. PhaseTypes'
    BY <1>1, <1>11, <2>1 DEF EndFrame, PhaseTypes
  <2> QED
    BY <1>0, <2>2, <2>3
<1>12. ASSUME Destruct
       PROVE  TInv'
  <2>1. PICK d \in 0 .. Len(pending_destructions) : Flushed(d)
    BY <1>1, <1>12, FlushEffect DEF Destruct, PhaseTypes
  <2>2. SlotTypes' /\ PendingTypes'
    BY <1>1, <1>12, <2>1, FlushTypes DEF Destruct
  <2>3. WriteTypes' /\ StorageTypes' /\ FrameTypes' /\ PhaseTypes'
    BY <1>1, <1>12, <2>1 DEF Destruct, Flushed, Freeds, WriteTypes, StorageTypes, FrameTypes, PhaseTypes,
                            frameVars
  <2> QED
    BY <1>0, <2>2, <2>3
<1>13. ASSUME UNCHANGED vars
       PROVE  TInv'
  <2>1. SlotTypes' /\ WriteTypes' /\ StorageTypes' /\ PendingTypes'
    BY <1>1, <1>13 DEF vars, SlotTypes, WriteTypes, StorageTypes, PendingTypes,
                       storageVars, slotVars
  <2>2. FrameTypes' /\ PhaseTypes'
    BY <1>1, <1>13 DEF vars, FrameTypes, PhaseTypes, frameVars
  <2> QED
    BY <1>0, <2>1, <2>2
<1>14. ASSUME FlushThrows
       PROVE  TInv'
  <2>1. /\ global_frame_counter' = global_frame_counter + 1
        /\ \E d \in 0 .. Len(pending_destructions) : Flushed(d)
    BY <1>14, FlushThrowsEffect
  <2>2. PICK d \in 0 .. Len(pending_destructions) : Flushed(d)
    BY <2>1
  <2>3. SlotTypes' /\ PendingTypes'
    BY <1>1, <1>14, <2>2, FlushTypes DEF FlushThrows
  <2>4. global_frame_counter' \in Nat
    BY <1>1, <2>1 DEF PhaseTypes
  <2>5. WriteTypes' /\ StorageTypes' /\ FrameTypes' /\ PhaseTypes'
    BY <1>1, <1>14, <2>2, <2>4 DEF FlushThrows, Flushed, Freeds, WriteTypes, StorageTypes,
                                   FrameTypes, PhaseTypes, frameVars
  <2> QED
    BY <1>0, <2>3, <2>5
<1>15. ASSUME CreateFrameSetThrows
       PROVE  TInv'
  <2>1. /\ Appended(Defer("set", None, invalid_id, frame_sets[current_frame]))
        /\ Defer("set", None, invalid_id, frame_sets[current_frame]).index = invalid_id
        /\ Defer("set", None, invalid_id, frame_sets[current_frame]).resource = None
    BY <1>1, <1>15, SetDeferred DEF CreateFrameSetThrows
  <2>2. PendingTypes'
    BY <1>1, <2>1, AppendedTypes
  <2>3. SlotTypes' /\ WriteTypes' /\ StorageTypes'
    BY <1>1, <1>15 DEF CreateFrameSetThrows, SlotTypes, WriteTypes, StorageTypes, slotVars,
                       storageVars
  <2>4. PICK n \in 0 .. 3 :
          /\ frame_sets' = [frame_sets EXCEPT ![current_frame] =
               [p \in Parts |-> IF p <= n THEN NewSet(sets_created)[p] ELSE @[p]]]
          /\ sets' = sets \union {NewSet(sets_created)[p] : p \in 1 .. n}
    BY <1>15 DEF CreateFrameSetThrows
  <2>5. NewSet(sets_created) \in [Parts -> Nat] /\ sets_created \in Nat
        /\ current_frame \in FrameSlots /\ 1 .. n \subseteq Parts
    <3>1. sets_created \in Nat /\ current_frame \in FrameSlots
      BY <1>1 DEF FrameTypes, PhaseTypes
    <3>2. 1 .. n \subseteq Parts
      BY <2>4 DEF Parts
    <3>3. NewSet(sets_created) \in [Parts -> Nat]
      BY <3>1, NewSetType
    <3> QED
      BY <3>1, <3>2, <3>3
  <2>6. sets' \subseteq Nat
    BY <1>1, <2>4, <2>5 DEF PhaseTypes
  <2>7. frame_sets' \in [FrameSlots -> [Parts -> Nat]]
    <3>1. frame_sets[current_frame] \in [Parts -> Nat]
      BY <1>1, <2>5 DEF FrameTypes
    <3>2. [p \in Parts |-> IF p <= n THEN NewSet(sets_created)[p]
                            ELSE frame_sets[current_frame][p]] \in [Parts -> Nat]
      BY <2>5, <3>1
    <3> QED
      BY <1>1, <2>4, <2>5, <3>2 DEF FrameTypes
  <2>8. set_failures' \in 0 .. MaxSetFailures
    BY <1>1, <1>15, BoundsAssumption DEF CreateFrameSetThrows, FrameTypes
  <2>9. sets_created' \in Nat
    BY <1>15, <2>5 DEF CreateFrameSetThrows
  <2>10. FrameTypes' /\ PhaseTypes'
    BY <1>1, <1>15, <2>6, <2>7, <2>8, <2>9 DEF CreateFrameSetThrows, FrameTypes, PhaseTypes
  <2> QED
    BY <1>0, <2>2, <2>3, <2>10
<1>16. ASSUME DestructThrows
       PROVE  TInv'
  <2>1. SlotTypes' /\ WriteTypes' /\ StorageTypes' /\ PendingTypes'
    BY <1>1, <1>16 DEF DestructThrows, SlotTypes, WriteTypes, StorageTypes, PendingTypes,
                       storageVars, slotVars
  <2>2. FrameTypes' /\ PhaseTypes'
    BY <1>1, <1>16 DEF DestructThrows, FrameTypes, PhaseTypes, frameVars
  <2> QED
    BY <1>0, <2>1, <2>2
<1> QED
  BY <1>2, <1>3, <1>4, <1>6, <1>7, <1>8, <1>9, <1>10, <1>11, <1>12, <1>13, <1>14, <1>15, <1>16
  DEF Next, Call, Destroyed

(* How a step that takes, vacates or frees slots changes which slot is what. *)
LEMMA TakesSlots ==
  ASSUME AInv, NEW k \in Kinds, NEW i \in Indices(k), NEW r \in Resources, NEW name,
         Takes(k, i, r, name)
  PROVE  \A q \in Kinds : \A j \in Indices(q) :
           /\ Valid(q, j)' <=> Valid(q, j) \/ (q = k /\ j = i)
           /\ InFree(q, j)' <=> InFree(q, j) /\ ~(q = k /\ j = i)
           /\ j < size'[q] <=> j < size[q] \/ (q = k /\ j = i)
<1> SUFFICES ASSUME NEW q \in Kinds, NEW j \in Indices(q)
             PROVE  /\ Valid(q, j)' <=> Valid(q, j) \/ (q = k /\ j = i)
                    /\ InFree(q, j)' <=> InFree(q, j) /\ ~(q = k /\ j = i)
                    /\ j < size'[q] <=> j < size[q] \/ (q = k /\ j = i)
  OBVIOUS
<1>0. SlotTypes
  BY TypesAre DEF AInv
<1>1. r # None
  BY DEF Resources, None
<1>2. slots'[q][j] = IF q = k /\ j = i
                     THEN [slots[k][i] EXCEPT !.resource = r, !.unique_name = name]
                     ELSE slots[q][j]
  BY <1>0 DEF Takes, SlotTypes
<1>3. slots[k][i] \in Slot
  BY <1>0 DEF SlotTypes
<1>4. Valid(q, j)' <=> Valid(q, j) \/ (q = k /\ j = i)
  BY <1>1, <1>2, <1>3 DEF Valid, Slot
<1>5. InFree(q, j)' <=> InFree(q, j) /\ ~(q = k /\ j = i)
  BY DEF Takes, InFree
<1>6. j < size'[q] <=> j < size[q] \/ (q = k /\ j = i)
  <2>1. j \in Int /\ size[q] \in Int /\ i \in Int /\ size[k] \in Int
    BY <1>0 DEF SlotTypes, Indices
  <2>2. CASE size' = size /\ InFree(k, i)
    BY <2>2 DEF AInv, Accounted
  <2>3. CASE i = size[k] /\ size' = [size EXCEPT ![k] = @ + 1]
    BY <1>0, <2>1, <2>3 DEF SlotTypes
  <2> QED
    BY <2>2, <2>3 DEF Takes
<1> QED
  BY <1>4, <1>5, <1>6

LEMMA VacatesSlots ==
  ASSUME AInv, NEW k \in Kinds, NEW i \in Indices(k), NEW h, NEW r, Vacates(k, i, h, r)
  PROVE  /\ \A q \in Kinds : \A j \in Indices(q) :
              /\ Valid(q, j)' <=> Valid(q, j) /\ ~(q = k /\ j = i)
              /\ InPending(q, j)' <=> InPending(q, j) \/ (q = k /\ j = i)
              /\ slots'[q][j].generation = slots[q][j].generation
         /\ \A q \in Kinds : OnceIn(pending_destructions', q)
<1> DEFINE len == Len(pending_destructions)
           pd == Defer(k, r, i, NoSet)
<1>1. SlotTypes /\ \A q \in Kinds : OnceIn(pending_destructions, q)
  BY TypesAre DEF AInv
<1>2. /\ len \in Nat /\ DOMAIN pending_destructions = 1 .. len
      /\ DOMAIN pending_destructions' = 1 .. len + 1
      /\ \A n \in 1 .. len : pending_destructions'[n] = pending_destructions[n]
      /\ pending_destructions'[len + 1] = pd
  BY DEF Vacates, Appended
<1>3. pd.kind = k /\ pd.index = i
  BY DEF Defer
<1> HIDE DEF len, pd
<1>4. /\ \A n \in 1 .. len + 1 : n \in 1 .. len \/ n = len + 1
      /\ \A n \in 1 .. len : n \in 1 .. len + 1
      /\ len + 1 \in 1 .. len + 1
  BY <1>2
<1>5. ASSUME NEW q \in Kinds, NEW j \in Indices(q)
      PROVE  InPending(q, j)' <=> InPending(q, j) \/ (q = k /\ j = i)
  BY <1>2, <1>3, <1>4 DEF InPending, Frees
<1>6. ASSUME NEW q \in Kinds, NEW j \in Indices(q)
      PROVE  /\ Valid(q, j)' <=> Valid(q, j) /\ ~(q = k /\ j = i)
             /\ slots'[q][j].generation = slots[q][j].generation
  <2>1. slots'[q][j] = IF q = k /\ j = i THEN Vacated(slots[k][i]) ELSE slots[q][j]
    BY <1>1 DEF Vacates, SlotTypes
  <2>2. slots[k][i] \in Slot
    BY <1>1 DEF SlotTypes
  <2> QED
    BY <2>1, <2>2 DEF Valid, Slot, Vacated
<1>7. ASSUME NEW q \in Kinds
      PROVE  OnceIn(pending_destructions', q)
  <2>1. ~InPending(k, i)
    BY DEF AInv, Accounted, Vacates
  <2>2. \A n \in 1 .. len : ~(pending_destructions[n].kind = k /\ pending_destructions[n].index = i)
    BY <1>2, <2>1 DEF InPending, Frees
  <2> QED
    BY <1>1, <1>2, <1>3, <1>4, <2>2 DEF OnceIn
<1> QED
  BY <1>5, <1>6, <1>7

(* Putting off what has no index leaves the accounts alone.                  *)
LEMMA AppendedSlots ==
  ASSUME AInv, NEW pd, Appended(pd), pd.index = invalid_id
  PROVE  /\ \A q \in Kinds : \A j \in Indices(q) : InPending(q, j)' <=> InPending(q, j)
         /\ \A q \in Kinds : OnceIn(pending_destructions', q)
<1> DEFINE len == Len(pending_destructions)
<1>1. \A q \in Kinds : OnceIn(pending_destructions, q)
  BY DEF AInv
<1>2. /\ len \in Nat /\ DOMAIN pending_destructions = 1 .. len
      /\ DOMAIN pending_destructions' = 1 .. len + 1
      /\ \A n \in 1 .. len : pending_destructions'[n] = pending_destructions[n]
      /\ pending_destructions'[len + 1] = pd
  BY DEF Appended
<1> HIDE DEF len
<1>3. /\ \A n \in 1 .. len + 1 : n \in 1 .. len \/ n = len + 1
      /\ \A n \in 1 .. len : n \in 1 .. len + 1
  BY <1>2
<1>4. ASSUME NEW q \in Kinds, NEW j \in Indices(q)
      PROVE  InPending(q, j)' <=> InPending(q, j)
  <2>1. j # invalid_id
    BY DEF Indices, invalid_id
  <2> QED
    BY <1>2, <1>3, <2>1 DEF InPending, Frees
<1>5. ASSUME NEW q \in Kinds
      PROVE  OnceIn(pending_destructions', q)
  BY <1>1, <1>2, <1>3 DEF OnceIn
<1> QED
  BY <1>4, <1>5

LEMMA FlushedSlots ==
  ASSUME AInv, NEW d \in 0 .. Len(pending_destructions), Flushed(d)
  PROVE  /\ \A q \in Kinds : \A j \in Indices(q) :
              /\ Valid(q, j)' <=> Valid(q, j)
              /\ InFree(q, j)' <=> InFree(q, j) \/ Freed(d, q, j)
              /\ InPending(q, j) <=> InPending(q, j)' \/ Freed(d, q, j)
              /\ ~(InPending(q, j)' /\ Freed(d, q, j))
         /\ \A q \in Kinds : OnceIn(pending_destructions', q)
<1> DEFINE len == Len(pending_destructions)
<1>1. SlotTypes /\ PendingTypes /\ \A q \in Kinds : OnceIn(pending_destructions, q)
  BY TypesAre DEF AInv
<1>2. len \in Nat /\ DOMAIN pending_destructions = 1 .. len
  BY <1>1 DEF PendingTypes
<1>3. /\ DOMAIN pending_destructions' \subseteq Nat \ {0}
      /\ \A n \in DOMAIN pending_destructions' :
           /\ n + d \in 1 .. len
           /\ pending_destructions'[n].kind = pending_destructions[n + d].kind
           /\ pending_destructions'[n].index = pending_destructions[n + d].index
      /\ \A n \in d + 1 .. len : n - d \in DOMAIN pending_destructions'
  BY <1>2 DEF Flushed, Left, Alike
<1> HIDE DEF len
<1>4. /\ \A n \in 1 .. len : n \in 1 .. d \/ n \in d + 1 .. len
      /\ \A n \in 1 .. d : n \in 1 .. len
      /\ \A n \in d + 1 .. len : (n - d) + d = n
      /\ \A m, n \in Nat \ {0} : m + d = n + d => m = n
      /\ \A m \in Nat \ {0} : m + d \notin 1 .. d
  BY <1>2 DEF len
<1>5. ASSUME NEW q \in Kinds, NEW j \in Indices(q)
      PROVE  InPending(q, j) <=> InPending(q, j)' \/ Freed(d, q, j)
  <2>1. InPending(q, j)' => InPending(q, j)
    BY <1>2, <1>3 DEF InPending, Frees
  <2>2. Freed(d, q, j) => InPending(q, j)
    BY <1>2, <1>4 DEF InPending, Freed, Frees
  <2>3. ASSUME NEW n \in 1 .. len, Frees(pending_destructions[n], q, j), ~Freed(d, q, j)
        PROVE  InPending(q, j)'
    <3>1. n \in d + 1 .. len /\ (n - d) + d = n
      BY <1>4, <2>3 DEF Freed
    <3>2. n - d \in DOMAIN pending_destructions' /\ Frees(pending_destructions'[n - d], q, j)
      BY <1>3, <2>3, <3>1 DEF Frees
    <3> QED
      BY <3>2 DEF InPending
  <2> QED
    BY <1>2, <2>1, <2>2, <2>3 DEF InPending
<1>6. ASSUME NEW q \in Kinds, NEW j \in Indices(q), InPending(q, j)', Freed(d, q, j)
      PROVE  FALSE
  <2>1. PICK m \in DOMAIN pending_destructions' : Frees(pending_destructions'[m], q, j)
    BY <1>6 DEF InPending
  <2>2. PICK n \in 1 .. d : Frees(pending_destructions[n], q, j)
    BY <1>6 DEF Freed
  <2>3. m + d \in 1 .. len /\ n \in 1 .. len /\ m + d # n
    BY <1>3, <1>4, <2>1, <2>2
  <2>4. j # invalid_id
    BY DEF Indices, invalid_id
  <2> QED
    BY <1>1, <1>2, <1>3, <2>1, <2>2, <2>3, <2>4 DEF OnceIn, Frees
<1>7. ASSUME NEW q \in Kinds
      PROVE  OnceIn(pending_destructions', q)
  <2>1. \A m, n \in DOMAIN pending_destructions' : m + d = n + d => m = n
    BY <1>3, <1>4
  <2> QED
    BY <1>1, <1>2, <1>3, <2>1 DEF OnceIn
<1>8. ASSUME NEW q \in Kinds, NEW j \in Indices(q)
      PROVE  Valid(q, j)' <=> Valid(q, j)
  <2>1. slots[q][j] \in Slot
    BY <1>1 DEF SlotTypes
  <2> DEFINE inc == IF Freed(d, q, j) THEN 1 ELSE 0
  <2>2. slots'[q][j] = [slots[q][j] EXCEPT !.generation = @ + inc]
    BY DEF Flushed, Freeds
  <2> HIDE DEF inc
  <2>3. slots'[q][j].resource = slots[q][j].resource
    BY <2>1, <2>2 DEF Slot
  <2> QED
    BY <2>3 DEF Valid
<1> QED
  BY <1>5, <1>6, <1>7, <1>8 DEF Flushed, Freeds

(* What a step can do to the slots and the tables.                           *)
SlotStep ==
  \/ \E k \in Kinds : \E i \in Indices(k), r \in Resources, name \in Names \union {NoName} :
       Takes(k, i, r, name) /\ UNCHANGED <<pending_destructions, tables, frame_capacities>>
  \/ \E k \in Kinds : \E i \in Indices(k), h \in issued[k], r \in Resources \union {None} :
       Vacates(k, i, h, r) /\ UNCHANGED <<tables, frame_capacities>>
  \/ \E d \in 0 .. Len(pending_destructions) :
       /\ Flushed(d)
       /\ UNCHANGED <<size, capacity, names, issued, open, pending_writes, tables,
                      frame_capacities>>
  \/ /\ UNCHANGED slotVars
     /\ \/ UNCHANGED pending_destructions
        \/ \E pd : Appended(pd) /\ pd.index = invalid_id
     /\ WriteDescriptors \/ UNCHANGED <<pending_writes, tables, frame_capacities>>

LEMMA SlotSteps ==
  ASSUME AInv, [Next]_vars
  PROVE  SlotStep
<1>1. TInv /\ SlotTypes /\ StorageTypes /\ PhaseTypes /\ FrameTypes
  BY TypesAre DEF AInv
<1>2. ASSUME NEW k \in Kinds, NEW r \in Resources, NEW name \in Names \union {NoName},
             Registers(k, r, name), UNCHANGED <<pending_destructions, tables, frame_capacities>>
      PROVE  SlotStep
  BY <1>2, RegistersEffect DEF SlotStep
<1>3. ASSUME NEW k \in Kinds, NEW name \in Names \union {NoName}, AddBindless(k, name)
      PROVE  SlotStep
  <2>1. created[k] + 1 \in Resources
    BY <1>1, <1>3, CreateEffect DEF AddBindless
  <2>2. UNCHANGED <<pending_destructions, tables, frame_capacities>>
    BY <1>3 DEF AddBindless, frameVars
  <2>3. CASE Registers(k, created[k] + 1, name)
    BY <1>2, <2>1, <2>2, <2>3
  <2>4. CASE UNCHANGED <<slotVars, pending_writes>>
    BY <2>2, <2>4 DEF SlotStep
  <2> QED
    BY <1>3, <2>3, <2>4 DEF AddBindless
<1>4. ASSUME NEW k \in Kinds, NEW name \in Names \union {NoName}, NEW r \in held[k],
             Register(k, r, name)
      PROVE  SlotStep
  <2>1. r \in Resources
    BY <1>1 DEF StorageTypes
  <2>2. UNCHANGED <<pending_destructions, tables, frame_capacities>> /\ Registers(k, r, name)
    BY <1>4 DEF Register, frameVars
  <2> QED
    BY <1>2, <2>1, <2>2
<1>5. ASSUME NEW k \in Kinds, AddResource(k)
      PROVE  SlotStep
  BY <1>5 DEF AddResource, frameVars, SlotStep
<1>6. ASSUME NEW k \in Kinds, NEW h \in issued[k], NEW r \in Resources \union {None},
             Release(k, h, r)
      PROVE  SlotStep
  <2>1. h.id \in Indices(k) /\ Vacates(k, h.id, h, r)
    BY <1>1, <1>6, ReleaseEffect
  <2>2. UNCHANGED <<tables, frame_capacities>>
    BY <1>6 DEF Release, frameVars
  <2> QED
    BY <2>1, <2>2 DEF SlotStep
<1>7. ASSUME NEW k \in Kinds, NEW h \in issued[k], Destroy(k, h)
      PROVE  SlotStep
  <2>1. h.id \in Indices(k)
    BY <1>1, <1>7, KindsAre DEF Destroy, Release, Resolves, SlotTypes, Indices, Handle
  <2>2. slots[k][h.id].resource \in Resources \union {None}
    BY <1>1, <2>1 DEF SlotTypes, Slot
  <2> QED
    BY <1>6, <1>7, <2>2 DEF Destroy
<1>8. ASSUME NEW k \in Kinds, NEW h \in issued[k], Unregister(k, h)
      PROVE  SlotStep
  BY <1>6, <1>8 DEF Unregister
<1>9. ASSUME NEW k \in Kinds, NEW r \in held[k], DestroyResource(k, r)
      PROVE  SlotStep
  <2>1. Defer(k, r, invalid_id, NoSet) \in PendingDestruction
    BY <1>1, NoSetType DEF Defer, PendingDestruction, None, PhaseTypes, StorageTypes
  <2>2. Appended(Defer(k, r, invalid_id, NoSet)) /\ Defer(k, r, invalid_id, NoSet).index = invalid_id
    BY <1>1, <1>9, <2>1, AppendEffect DEF DestroyResource, Defer
  <2>3. UNCHANGED <<slotVars, pending_writes, tables, frame_capacities>>
    BY <1>9 DEF DestroyResource, frameVars
  <2> QED
    BY <2>2, <2>3 DEF SlotStep
<1>10. ASSUME NEW counter \in Nat, NEW force \in BOOLEAN, NEW ds, Flush(counter, force, ds),
              UNCHANGED <<size, capacity, names, issued, open, pending_writes, tables,
                          frame_capacities>>
       PROVE  SlotStep
  BY <1>10, FlushEffect DEF SlotStep
<1>11. ASSUME BeginFrame
       PROVE  SlotStep
  <2>1. global_frame_counter + 1 \in Nat
    BY <1>1 DEF PhaseTypes
  <2>2. Flush(global_frame_counter + 1, FALSE, {})
    BY <1>11 DEF BeginFrame
  <2> QED
    BY <1>10, <1>11, <2>1, <2>2 DEF BeginFrame, frameVars
<1>12. ASSUME Destruct
       PROVE  SlotStep
  BY <1>1, <1>10, <1>12 DEF Destruct, PhaseTypes, frameVars
<1>13. ASSUME WriteDescriptors
       PROVE  SlotStep
  <2>1. UNCHANGED slotVars
    BY <1>13 DEF WriteDescriptors
  <2>2. CASE CreateFrameSet(current_frame)
    <3>1. /\ Appended(Defer("set", None, invalid_id, frame_sets[current_frame]))
          /\ Defer("set", None, invalid_id, frame_sets[current_frame]).index = invalid_id
      BY <1>1, <2>2, SetDeferred DEF CreateFrameSet
    <3> QED
      BY <1>13, <2>1, <3>1 DEF SlotStep
  <2>3. CASE KeepFrameSet(current_frame)
    BY <1>13, <2>1, <2>3 DEF KeepFrameSet, SlotStep
  <2> QED
    BY <1>13, <2>2, <2>3 DEF WriteDescriptors
<1>14. ASSUME EndFrame
       PROVE  SlotStep
  BY <1>14 DEF EndFrame, frameVars, SlotStep
<1>15. ASSUME UNCHANGED vars
       PROVE  SlotStep
  BY <1>15 DEF vars, frameVars, SlotStep
<1>16. ASSUME FlushThrows
       PROVE  SlotStep
  <2>1. PICK d \in 0 .. Len(pending_destructions) : Flushed(d)
    BY <1>16, FlushThrowsEffect
  <2>2. UNCHANGED <<size, capacity, names, issued, open, pending_writes, tables, frame_capacities>>
    BY <1>16 DEF FlushThrows, frameVars
  <2> QED
    BY <2>1, <2>2 DEF SlotStep
<1>17. ASSUME CreateFrameSetThrows
       PROVE  SlotStep
  <2>1. /\ Appended(Defer("set", None, invalid_id, frame_sets[current_frame]))
        /\ Defer("set", None, invalid_id, frame_sets[current_frame]).index = invalid_id
    BY <1>1, <1>17, SetDeferred DEF CreateFrameSetThrows
  <2>2. UNCHANGED slotVars /\ UNCHANGED <<pending_writes, tables, frame_capacities>>
    BY <1>17 DEF CreateFrameSetThrows
  <2> QED
    BY <2>1, <2>2 DEF SlotStep
<1>18. ASSUME DestructThrows
       PROVE  SlotStep
  BY <1>18 DEF DestructThrows, frameVars, SlotStep
<1> QED
  BY <1>3, <1>4, <1>5, <1>7, <1>8, <1>9, <1>11, <1>12, <1>13, <1>14, <1>15, <1>16, <1>17, <1>18
  DEF Next, Call, Destroyed

LEMMA AccountsStep ==
  ASSUME AInv, [Next]_vars
  PROVE  AInv'
<1>1. TInv' /\ TInv
  BY TypesStep DEF AInv
<1>2. /\ \A q \in Kinds : OnceIn(pending_destructions, q) /\ FreeOnce(q)
      /\ \A q \in Kinds : \A j \in Indices(q) : Accounted(q, j)
  BY DEF AInv
<1>3. ASSUME NEW k \in Kinds, NEW i \in Indices(k), NEW r \in Resources,
             NEW name \in Names \union {NoName}, Takes(k, i, r, name),
             UNCHANGED pending_destructions
      PROVE  AInv'
  <2>2. ASSUME NEW q \in Kinds, NEW j \in Indices(q)
        PROVE  Accounted(q, j)'
    <3>1. /\ InPending(q, j)' <=> InPending(q, j)
          /\ ~Valid(k, i) /\ ~InPending(k, i)
      BY <1>3 DEF InPending, Takes
    <3> QED
      BY <1>2, <1>3, <3>1, TakesSlots DEF Accounted
  <2>3. ASSUME NEW q \in Kinds
        PROVE  FreeOnce(q)' /\ OnceIn(pending_destructions, q)'
    BY <1>2, <1>3 DEF FreeOnce, Takes, OnceIn
  <2> QED
    BY <1>1, <2>2, <2>3 DEF AInv
<1>4. ASSUME NEW k \in Kinds, NEW i \in Indices(k), NEW h \in issued[k], NEW r,
             Vacates(k, i, h, r)
      PROVE  AInv'
  <2>2. ASSUME NEW q \in Kinds, NEW j \in Indices(q)
        PROVE  Accounted(q, j)'
    <3>1. (InFree(q, j)' <=> InFree(q, j)) /\ size'[q] = size[q] /\ Valid(k, i)
      BY <1>4 DEF InFree, Vacates
    <3> QED
      BY <1>2, <1>4, <3>1, VacatesSlots DEF Accounted
  <2>3. ASSUME NEW q \in Kinds
        PROVE  FreeOnce(q)' /\ OnceIn(pending_destructions, q)'
    BY <1>2, <1>4, VacatesSlots DEF FreeOnce, Vacates
  <2> QED
    BY <1>1, <2>2, <2>3 DEF AInv
<1>5. ASSUME NEW pd, Appended(pd), pd.index = invalid_id,
             UNCHANGED <<size, slots, free_indices>>
      PROVE  AInv'
  <2>1. ASSUME NEW q \in Kinds, NEW j \in Indices(q)
        PROVE  Accounted(q, j)'
    BY <1>2, <1>5, AppendedSlots DEF Accounted, Valid, InFree
  <2>2. ASSUME NEW q \in Kinds
        PROVE  FreeOnce(q)' /\ OnceIn(pending_destructions, q)'
    BY <1>2, <1>5, AppendedSlots DEF FreeOnce
  <2> QED
    BY <1>1, <2>1, <2>2 DEF AInv
<1>6. ASSUME NEW d \in 0 .. Len(pending_destructions), Flushed(d), UNCHANGED size
      PROVE  AInv'
  <2>1. ASSUME NEW q \in Kinds, NEW j \in Indices(q)
        PROVE  Accounted(q, j)'
    BY <1>2, <1>6, FlushedSlots DEF Accounted
  <2>2. ASSUME NEW q \in Kinds
        PROVE  FreeOnce(q)' /\ OnceIn(pending_destructions, q)'
    BY <1>6, FlushedSlots DEF Flushed, Freeds
  <2> QED
    BY <1>1, <2>1, <2>2 DEF AInv
<1>7. ASSUME UNCHANGED <<size, slots, free_indices, pending_destructions>>
      PROVE  AInv'
  BY <1>1, <1>2, <1>7 DEF AInv, Accounted, Valid, InFree, InPending, FreeOnce, OnceIn
<1> QED
  <2>1. CASE UNCHANGED slotVars /\ UNCHANGED pending_destructions
    BY <1>7, <2>1 DEF slotVars
  <2>2. CASE UNCHANGED slotVars /\ \E pd : Appended(pd) /\ pd.index = invalid_id
    <3>1. PICK pd : Appended(pd) /\ pd.index = invalid_id
      BY <2>2
    <3>2. UNCHANGED <<size, slots, free_indices>>
      BY <2>2 DEF slotVars
    <3> QED
      BY <1>5, <3>1, <3>2
  <2>3. SlotStep
    BY SlotSteps
  <2> QED
    BY <1>3, <1>4, <1>6, <2>1, <2>2, <2>3 DEF SlotStep

-----------------------------------------------------------------------------
(* Handles and names.                                                       *)

(* A generation is used once: no handle has that of a reusable slot.  The    *)
(* open handles are those of the slots in use.                               *)
HandlesOf(k) ==
  /\ open[k] \subseteq issued[k]
  /\ \A h \in issued[k] :
       /\ h.id \in Indices(k) /\ h.id < size[k]
       /\ h.generation <= slots[k][h.id].generation
       /\ InFree(k, h.id) => h.generation # slots[k][h.id].generation
       /\ h \in open[k] <=> Valid(k, h.id) /\ h.generation = slots[k][h.id].generation
NamesOf(k) ==
  /\ \A i \in Indices(k) : ~Valid(k, i) => slots[k][i].unique_name = NoName
  /\ \A n \in Names :
       /\ names[k][n] # NoHandle => /\ names[k][n] \in open[k]
                                    /\ slots[k][names[k][n].id].unique_name = n
       /\ \A i \in Indices(k) : slots[k][i].unique_name = n => names[k][n].id = i
HInv ==
  /\ AInv
  /\ \A k \in Kinds : HandlesOf(k) /\ NamesOf(k)

LEMMA HandlesStart == Init => HInv
<1> SUFFICES ASSUME Init
             PROVE  HInv
  OBVIOUS
<1>1. AInv
  BY AccountsStart
<1>2. ASSUME NEW k \in Kinds
      PROVE  HandlesOf(k) /\ NamesOf(k)
  <2>1. issued[k] = {} /\ open[k] = {} /\ \A n \in Names : names[k][n] = NoHandle
    BY DEF Init
  <2>2. \A i \in Indices(k) : slots[k][i].unique_name = NoName
    BY DEF Init, EmptySlot
  <2> QED
    BY <2>1, <2>2, NamesAssumption DEF HandlesOf, NamesOf
<1> QED
  BY <1>1, <1>2 DEF HInv

LEMMA HandlesResolve == HInv => Resolve
BY DEF HInv, HandlesOf, NamesOf, Resolve, Resolves

LEMMA TakesHandles ==
  ASSUME HInv, NEW k \in Kinds, NEW i \in Indices(k), NEW r \in Resources,
         NEW name \in Names \union {NoName}, Takes(k, i, r, name)
  PROVE  /\ HandlesOf(k)' /\ NamesOf(k)'
         /\ (open'[k] \ open[k]) \intersect issued[k] = {}
<1>0. PICK handle : handle = [id |-> i, generation |-> slots[k][i].generation]
  OBVIOUS
<1>1. SlotTypes /\ AInv /\ HandlesOf(k) /\ NamesOf(k)
  BY TypesAre DEF HInv, AInv
<1>2. /\ issued[k] \subseteq Handle /\ open[k] \subseteq Handle
      /\ slots[k][i] \in Slot /\ i \in Nat /\ size[k] \in Nat
      /\ handle.id = i /\ handle.generation = slots[k][i].generation
  <2>1. issued[k] \subseteq Handle /\ open[k] \subseteq Handle
    BY <1>1 DEF SlotTypes
  <2>2. slots[k][i] \in Slot /\ i \in Nat /\ size[k] \in Nat
    <3>1. slots[k][i] \in Slot
      BY <1>1 DEF SlotTypes
    <3>2. i \in Nat
      BY DEF Indices
    <3>3. size[k] \in 0 .. max_capacity[k]
      BY <1>1 DEF SlotTypes
    <3> QED
      BY <3>1, <3>2, <3>3
  <2> QED
    BY <1>0, <2>1, <2>2
<1>3. /\ issued'[k] = issued[k] \union {handle} /\ open'[k] = open[k] \union {handle}
      /\ ~Valid(k, i)
      /\ name # NoName => names[k][name] = NoHandle
      /\ \A n \in Names : names'[k][n] = IF n = name THEN handle ELSE names[k][n]
  BY <1>0, <1>1, NamesAssumption DEF Takes, SlotTypes
<1>4. \A j \in Indices(k) :
        /\ Valid(k, j)' <=> Valid(k, j) \/ j = i
        /\ InFree(k, j)' <=> InFree(k, j) /\ j # i
        /\ j < size'[k] <=> j < size[k] \/ j = i
        /\ slots'[k][j].generation = slots[k][j].generation
        /\ slots'[k][j].unique_name = IF j = i THEN name ELSE slots[k][j].unique_name
  <2>1. \A j \in Indices(k) :
          slots'[k][j] = IF j = i THEN [slots[k][i] EXCEPT !.resource = r, !.unique_name = name]
                         ELSE slots[k][j]
    BY <1>1 DEF Takes, SlotTypes
  <2>2. LET s == [slots[k][i] EXCEPT !.resource = r, !.unique_name = name]
        IN s.generation = slots[k][i].generation /\ s.unique_name = name
    BY <1>2 DEF Slot
  <2> QED
    BY <1>1, <2>1, <2>2, TakesSlots
<1>5. ASSUME NEW h \in issued[k], h.id = i
      PROVE  h.generation # slots[k][i].generation /\ h \notin open[k]
  <2>1. InFree(k, i)
    <3>1. i < size[k] \/ i = size[k]
      BY <1>1, <1>5 DEF HandlesOf
    <3>2. i # size[k]
      BY <1>1, <1>2, <1>5 DEF HandlesOf
    <3> QED
      BY <3>2 DEF Takes
  <2> QED
    BY <1>1, <1>3, <1>5, <2>1 DEF HandlesOf
<1>6. handle \notin issued[k]
  BY <1>2, <1>5
<1>7. HandlesOf(k)'
  <2>1. open'[k] \subseteq issued'[k]
    BY <1>1, <1>3 DEF HandlesOf
  <2>2. ASSUME NEW h \in issued[k]
        PROVE  /\ h.id \in Indices(k) /\ h.id < size'[k]
               /\ h.generation <= slots'[k][h.id].generation
               /\ InFree(k, h.id)' => h.generation # slots'[k][h.id].generation
               /\ h \in open'[k] <=>
                    Valid(k, h.id)' /\ h.generation = slots'[k][h.id].generation
    <3>1. h # handle
      BY <1>6
    <3> QED
      BY <1>1, <1>3, <1>4, <1>5, <3>1 DEF HandlesOf
  <2>3. /\ handle.id \in Indices(k) /\ handle.id < size'[k]
        /\ handle.generation <= slots'[k][handle.id].generation
        /\ ~InFree(k, i)' /\ handle \in open'[k] /\ Valid(k, i)'
        /\ handle.generation = slots'[k][handle.id].generation
    BY <1>2, <1>3, <1>4 DEF Slot
  <2>4. HandlesOf(k)' <=>
          /\ open'[k] \subseteq issued'[k]
          /\ \A h \in issued'[k] :
               /\ h.id \in Indices(k) /\ h.id < size'[k]
               /\ h.generation <= slots'[k][h.id].generation
               /\ InFree(k, h.id)' => h.generation # slots'[k][h.id].generation
               /\ h \in open'[k] <=>
                    Valid(k, h.id)' /\ h.generation = slots'[k][h.id].generation
    BY Zenon DEF HandlesOf, InFree, Valid
  <2> QED
    BY <1>2, <1>3, <2>1, <2>2, <2>3, <2>4
<1>8. NamesOf(k)'
  <2>1. ASSUME NEW n \in Names, n # name
        PROVE  /\ names'[k][n] # NoHandle => /\ names'[k][n] \in open'[k]
                                             /\ slots'[k][names'[k][n].id].unique_name = n
               /\ \A j \in Indices(k) : slots'[k][j].unique_name = n => names'[k][n].id = j
    <3>1. names'[k][n] = names[k][n]
      BY <1>3, <2>1
    <3>2. names[k][n] # NoHandle => /\ names[k][n].id \in Indices(k) /\ names[k][n].id # i
      BY <1>1, <1>3 DEF HandlesOf, NamesOf
    <3> QED
      BY <1>1, <1>3, <1>4, <2>1, <3>1, <3>2 DEF NamesOf
  <2>2. ASSUME name \in Names
        PROVE  /\ names'[k][name] \in open'[k]
               /\ slots'[k][names'[k][name].id].unique_name = name
               /\ \A j \in Indices(k) : slots'[k][j].unique_name = name => names'[k][name].id = j
    <3>1. names'[k][name] = handle /\ names[k][name] = NoHandle
      BY <1>3, <2>2, NamesAssumption
    <3>2. \A j \in Indices(k) : slots[k][j].unique_name # name
      <4>1. NoHandle.id = invalid_id /\ \A j \in Indices(k) : j # invalid_id
        BY DEF NoHandle, Indices, invalid_id
      <4> QED
        BY <1>1, <2>2, <3>1, <4>1 DEF NamesOf
    <3> QED
      BY <1>2, <1>3, <1>4, <3>1, <3>2
  <2>3. \A j \in Indices(k) : ~Valid(k, j)' => slots'[k][j].unique_name = NoName
    BY <1>1, <1>4 DEF NamesOf
  <2> QED
    BY <2>1, <2>2, <2>3 DEF NamesOf, Valid
<1> QED
  BY <1>3, <1>6, <1>7, <1>8

LEMMA VacatesHandles ==
  ASSUME HInv, NEW k \in Kinds, NEW i \in Indices(k), NEW handle \in issued[k], NEW r,
         Vacates(k, i, handle, r)
  PROVE  HandlesOf(k)' /\ NamesOf(k)'
<1>1. SlotTypes /\ AInv /\ HandlesOf(k) /\ NamesOf(k)
  BY TypesAre DEF HInv, AInv
<1>2. /\ issued[k] \subseteq Handle /\ open[k] \subseteq Handle /\ slots[k][i] \in Slot
      /\ handle \in Handle /\ handle.id = i
      /\ handle.generation = slots[k][i].generation
      /\ issued'[k] = issued[k] /\ open'[k] = open[k] \ {handle} /\ size'[k] = size[k]
      /\ \A j \in Indices(k) : InFree(k, j)' <=> InFree(k, j)
  BY <1>1 DEF SlotTypes, Vacates, InFree
<1> DEFINE name == slots[k][i].unique_name
<1>3. \A n \in Names : names'[k][n] = IF n = name THEN NoHandle ELSE names[k][n]
  BY <1>1, NamesAssumption DEF SlotTypes, Vacates, ForgetName
<1>4. \A j \in Indices(k) :
        /\ Valid(k, j)' <=> Valid(k, j) /\ j # i
        /\ slots'[k][j].generation = slots[k][j].generation
        /\ slots'[k][j].unique_name = IF j = i THEN NoName ELSE slots[k][j].unique_name
  <2>1. \A j \in Indices(k) : slots'[k][j] = IF j = i THEN Vacated(slots[k][i]) ELSE slots[k][j]
    BY <1>1 DEF Vacates, SlotTypes
  <2>2. Vacated(slots[k][i]).unique_name = NoName
    BY <1>2 DEF Slot, Vacated
  <2> QED
    BY <1>1, <2>1, <2>2, VacatesSlots
<1>5. ASSUME NEW h \in issued[k], h.id = i, h.generation = slots[k][i].generation
      PROVE  h = handle
  BY <1>2, <1>5 DEF Handle
<1>6. HandlesOf(k)'
  <2>1. open'[k] \subseteq issued'[k]
    BY <1>1, <1>2 DEF HandlesOf
  <2>2. ASSUME NEW h \in issued[k]
        PROVE  /\ h.id \in Indices(k) /\ h.id < size'[k]
               /\ h.generation <= slots'[k][h.id].generation
               /\ InFree(k, h.id)' => h.generation # slots'[k][h.id].generation
               /\ h \in open'[k] <=>
                    Valid(k, h.id)' /\ h.generation = slots'[k][h.id].generation
    BY <1>1, <1>2, <1>4, <1>5 DEF HandlesOf
  <2>3. HandlesOf(k)' <=>
          /\ open'[k] \subseteq issued'[k]
          /\ \A h \in issued'[k] :
               /\ h.id \in Indices(k) /\ h.id < size'[k]
               /\ h.generation <= slots'[k][h.id].generation
               /\ InFree(k, h.id)' => h.generation # slots'[k][h.id].generation
               /\ h \in open'[k] <=>
                    Valid(k, h.id)' /\ h.generation = slots'[k][h.id].generation
    BY Zenon DEF HandlesOf, InFree, Valid
  <2> QED
    BY <1>2, <2>1, <2>2, <2>3
<1>7. NamesOf(k)'
  <2>1. ASSUME NEW n \in Names
        PROVE  /\ names'[k][n] # NoHandle => /\ names'[k][n] \in open'[k]
                                             /\ slots'[k][names'[k][n].id].unique_name = n
               /\ \A j \in Indices(k) : slots'[k][j].unique_name = n => names'[k][n].id = j
    <3>1. n # NoName
      BY NamesAssumption
    <3>2. CASE n = name
      <4>1. names'[k][n] = NoHandle
        BY <1>3, <3>2
      <4>2. ASSUME NEW j \in Indices(k), slots'[k][j].unique_name = n
            PROVE  FALSE
        <5>1. j # i /\ slots[k][j].unique_name = n
          BY <1>4, <3>1, <4>2
        <5>2. names[k][n].id = j /\ names[k][n].id = i
          BY <1>1, <3>2, <5>1 DEF NamesOf
        <5> QED
          BY <5>1, <5>2
      <4> QED
        BY <4>1, <4>2
    <3>3. CASE n # name
      <4>1. names'[k][n] = names[k][n]
        BY <1>3, <3>3
      <4>2. ASSUME names[k][n] # NoHandle
            PROVE  names[k][n].id \in Indices(k) /\ names[k][n].id # i /\ names[k][n] # handle
        BY <1>1, <1>2, <3>3, <4>2 DEF HandlesOf, NamesOf
      <4> QED
        BY <1>1, <1>2, <1>4, <3>1, <4>1, <4>2 DEF NamesOf
    <3> QED
      BY <3>2, <3>3
  <2>2. \A j \in Indices(k) : ~Valid(k, j)' => slots'[k][j].unique_name = NoName
    BY <1>1, <1>4 DEF NamesOf
  <2> QED
    BY <2>1, <2>2 DEF NamesOf, Valid
<1> QED
  BY <1>6, <1>7

LEMMA FlushedHandles ==
  ASSUME HInv, NEW d \in 0 .. Len(pending_destructions), Flushed(d),
         UNCHANGED <<size, names, issued, open>>, NEW k \in Kinds
  PROVE  HandlesOf(k)' /\ NamesOf(k)'
<1>1. SlotTypes /\ AInv /\ HandlesOf(k) /\ NamesOf(k)
  BY TypesAre DEF HInv, AInv
<1>2. \A j \in Indices(k) :
        /\ Valid(k, j)' <=> Valid(k, j)
        /\ slots'[k][j].unique_name = slots[k][j].unique_name
        /\ slots[k][j].generation \in Nat
        /\ slots'[k][j].generation =
             slots[k][j].generation + (IF Freed(d, k, j) THEN 1 ELSE 0)
        /\ InFree(k, j)' <=> InFree(k, j) \/ Freed(d, k, j)
        /\ Freed(d, k, j) => ~Valid(k, j)
  <2> SUFFICES ASSUME NEW j \in Indices(k)
               PROVE  /\ Valid(k, j)' <=> Valid(k, j)
                      /\ slots'[k][j].unique_name = slots[k][j].unique_name
                      /\ slots[k][j].generation \in Nat
                      /\ slots'[k][j].generation =
                           slots[k][j].generation + (IF Freed(d, k, j) THEN 1 ELSE 0)
                      /\ InFree(k, j)' <=> InFree(k, j) \/ Freed(d, k, j)
                      /\ Freed(d, k, j) => ~Valid(k, j)
    OBVIOUS
  <2>1. slots[k][j] \in Slot
    BY <1>1 DEF SlotTypes
  <2> DEFINE inc == IF Freed(d, k, j) THEN 1 ELSE 0
  <2>2. slots'[k][j] = [slots[k][j] EXCEPT !.generation = @ + inc]
    BY DEF Flushed, Freeds
  <2> HIDE DEF inc
  <2>3. /\ slots'[k][j].unique_name = slots[k][j].unique_name
        /\ slots'[k][j].generation = slots[k][j].generation + inc
        /\ slots[k][j].generation \in Nat
    BY <2>1, <2>2 DEF Slot
  <2>4. /\ Valid(k, j)' <=> Valid(k, j)
        /\ InFree(k, j)' <=> InFree(k, j) \/ Freed(d, k, j)
        /\ Freed(d, k, j) => InPending(k, j)
    BY <1>1, FlushedSlots
  <2>5. Freed(d, k, j) => ~Valid(k, j)
    BY <1>1, <2>4 DEF AInv, Accounted
  <2> QED
    BY <2>3, <2>4, <2>5 DEF inc
<1>3. ASSUME NEW h \in issued[k]
      PROVE  h \in Handle /\ h.generation \in Nat
  BY <1>1, <1>3 DEF SlotTypes, Handle
<1>4. HandlesOf(k)'
  <2>1. ASSUME NEW h \in issued[k]
        PROVE  /\ h.id \in Indices(k) /\ h.id < size[k]
               /\ h.generation <= slots'[k][h.id].generation
               /\ InFree(k, h.id)' => h.generation # slots'[k][h.id].generation
               /\ h \in open[k] <=>
                    Valid(k, h.id)' /\ h.generation = slots'[k][h.id].generation
    <3>1. h.id \in Indices(k)
      BY <1>1 DEF HandlesOf
    <3>2. CASE Freed(d, k, h.id)
      <4>1. /\ slots'[k][h.id].generation = slots[k][h.id].generation + 1
            /\ ~Valid(k, h.id)' /\ ~Valid(k, h.id)
        BY <1>2, <3>1, <3>2
      <4> QED
        BY <1>1, <1>2, <1>3, <3>1, <4>1 DEF HandlesOf
    <3>3. CASE ~Freed(d, k, h.id)
      <4>1. /\ slots'[k][h.id].generation = slots[k][h.id].generation
            /\ Valid(k, h.id)' <=> Valid(k, h.id)
            /\ InFree(k, h.id)' <=> InFree(k, h.id)
        BY <1>2, <3>1, <3>3
      <4> QED
        BY <1>1, <3>1, <4>1 DEF HandlesOf
    <3> QED
      BY <3>2, <3>3
  <2>2. HandlesOf(k)' <=>
          /\ open'[k] \subseteq issued'[k]
          /\ \A h \in issued'[k] :
               /\ h.id \in Indices(k) /\ h.id < size'[k]
               /\ h.generation <= slots'[k][h.id].generation
               /\ InFree(k, h.id)' => h.generation # slots'[k][h.id].generation
               /\ h \in open'[k] <=>
                    Valid(k, h.id)' /\ h.generation = slots'[k][h.id].generation
    BY Zenon DEF HandlesOf, InFree, Valid
  <2>3. open[k] \subseteq issued[k]
    BY <1>1 DEF HandlesOf
  <2> QED
    BY <2>1, <2>2, <2>3
<1>5. NamesOf(k)'
  <2>1. ASSUME NEW n \in Names, names[k][n] # NoHandle
        PROVE  names[k][n].id \in Indices(k)
    BY <1>1, <2>1 DEF NamesOf, HandlesOf
  <2>2. \A j \in Indices(k) : ~Valid(k, j)' => slots'[k][j].unique_name = NoName
    BY <1>1, <1>2 DEF NamesOf
  <2>3. ASSUME NEW n \in Names
        PROVE  /\ names'[k][n] # NoHandle => /\ names'[k][n] \in open'[k]
                                             /\ slots'[k][names'[k][n].id].unique_name = n
               /\ \A j \in Indices(k) : slots'[k][j].unique_name = n => names'[k][n].id = j
    BY <1>1, <1>2, <2>1 DEF NamesOf
  <2> QED
    BY <2>2, <2>3 DEF NamesOf, Valid
<1> QED
  BY <1>4, <1>5

(* What does not touch kind k leaves its handles and names alone.            *)
LEMMA OtherHandles ==
  ASSUME HInv, NEW k \in Kinds,
         slots'[k] = slots[k], free_indices'[k] = free_indices[k], size'[k] = size[k],
         names'[k] = names[k], issued'[k] = issued[k], open'[k] = open[k]
  PROVE  HandlesOf(k)' /\ NamesOf(k)' /\ open'[k] \ open[k] = {}
<1>1. HandlesOf(k) /\ NamesOf(k)
  BY DEF HInv
<1>2. \A j : (Valid(k, j)' <=> Valid(k, j)) /\ (InFree(k, j)' <=> InFree(k, j))
  BY DEF Valid, InFree
<1>3. HandlesOf(k)'
  BY <1>1, <1>2, Zenon DEF HandlesOf, Valid, InFree
<1>4. NamesOf(k)'
  BY <1>1, <1>2, Zenon DEF NamesOf, Valid
<1> QED
  BY <1>3, <1>4

LEMMA HandlesStep ==
  ASSUME HInv, [Next]_vars
  PROVE  HInv' /\ \A k \in Kinds : (open'[k] \ open[k]) \intersect issued[k] = {}
<1>1. AInv' /\ SlotTypes /\ AInv
  BY AccountsStep, TypesAre DEF HInv, AInv
<1> DEFINE Kept(q) == /\ slots'[q] = slots[q] /\ free_indices'[q] = free_indices[q]
                      /\ size'[q] = size[q] /\ names'[q] = names[q]
                      /\ issued'[q] = issued[q] /\ open'[q] = open[q]
           Goal == \A q \in Kinds : /\ HandlesOf(q)' /\ NamesOf(q)'
                                    /\ (open'[q] \ open[q]) \intersect issued[q] = {}
<1>2. ASSUME NEW k \in Kinds, NEW i \in Indices(k), NEW r \in Resources,
             NEW name \in Names \union {NoName}, Takes(k, i, r, name)
      PROVE  Goal
  <2>1. \A q \in Kinds \ {k} : Kept(q)
    BY <1>1, <1>2 DEF Takes, SlotTypes
  <2> QED
    BY <1>2, <2>1, TakesHandles, OtherHandles
<1>3. ASSUME NEW k \in Kinds, NEW i \in Indices(k), NEW h \in issued[k], NEW r,
             Vacates(k, i, h, r)
      PROVE  Goal
  <2>1. \A q \in Kinds \ {k} : Kept(q)
    BY <1>1, <1>3 DEF Vacates, SlotTypes, ForgetName
  <2>2. open'[k] \ open[k] = {}
    BY <1>1, <1>3 DEF Vacates, SlotTypes
  <2> QED
    BY <1>3, <2>1, <2>2, VacatesHandles, OtherHandles
<1>4. ASSUME NEW d \in 0 .. Len(pending_destructions), Flushed(d),
             UNCHANGED <<size, names, issued, open>>
      PROVE  Goal
  BY <1>4, FlushedHandles
<1>5. ASSUME UNCHANGED slotVars
      PROVE  Goal
  BY <1>5, OtherHandles DEF slotVars
<1>6. SlotStep
  BY <1>1, SlotSteps
<1>7. Goal
  BY <1>2, <1>3, <1>4, <1>5, <1>6 DEF SlotStep
<1> QED
  BY <1>1, <1>7 DEF HInv

-----------------------------------------------------------------------------
(* Tables.                                                                  *)

(* What the table of frame slot f says of a slot that has no write pending.  *)
Says(entry, k, i) ==
  IF Valid(k, i)
  THEN entry = [generation |-> slots[k][i].generation, resource |-> slots[k][i].resource]
  ELSE entry.generation = invalid_id
Tracks(f) ==
  \A k \in Kinds : \A i \in Indices(k) :
    i \notin pending_writes[f][k] => Says(tables[f][k][i], k, i)

(* New tables have room for every slot, and only slots are written.          *)
Fits(k) ==
  /\ size[k] <= capacity[k]
  /\ \A f \in FrameSlots : \A i \in Indices(k) : i \in pending_writes[f][k] => i < size[k]
TabInv ==
  /\ AInv
  /\ \A k \in Kinds : Fits(k)
  /\ \A f \in FrameSlots : Tracks(f)

LEMMA TablesStart == Init => TabInv
<1> SUFFICES ASSUME Init
             PROVE  TabInv
  OBVIOUS
<1>1. AInv
  BY AccountsStart
<1>2. ASSUME NEW k \in Kinds
      PROVE  Fits(k)
  <2>1. size[k] = 0 /\ \A f \in FrameSlots : pending_writes[f][k] = {}
    BY DEF Init
  <2>2. capacity[k] \in 1 .. max_capacity[k]
    BY <1>1 DEF AInv, TInv, TypeOK
  <2> QED
    BY <2>1, <2>2, KindsAre DEF Fits
<1>3. ASSUME NEW f \in FrameSlots
      PROVE  Tracks(f)
  <2>1. \A k \in Kinds : \A i \in Indices(k) :
          ~Valid(k, i) /\ tables[f][k][i].generation = invalid_id
    BY DEF Init, Valid, EmptySlot, EmptyTables, EmptyEntry
  <2> QED
    BY <2>1 DEF Tracks, Says
<1> QED
  BY <1>1, <1>2, <1>3 DEF TabInv

LEMMA TablesSound == TabInv => TablesTrackSlots
<1> SUFFICES ASSUME TabInv, NEW f \in FrameSlots, NEW k \in Kinds
             PROVE  /\ \A i \in Indices(k) \ pending_writes[f][k] :
                         IF i < size[k] /\ Valid(k, i)
                         THEN tables[f][k][i] = [generation |-> slots[k][i].generation,
                                                 resource |-> slots[k][i].resource]
                         ELSE tables[f][k][i].generation = invalid_id
                    /\ ~NeedsNewSet(f) =>
                         \A i \in pending_writes[f][k] : i < frame_capacities[f][k]
  BY DEF TablesTrackSlots
<1>1. AInv /\ SlotTypes /\ WriteTypes /\ Fits(k) /\ Tracks(f)
  BY TypesAre DEF TabInv, AInv
<1>2. \A i \in Indices(k) : Valid(k, i) => i < size[k]
  BY <1>1 DEF AInv, Accounted
<1>3. ASSUME NEW i \in pending_writes[f][k], ~NeedsNewSet(f)
      PROVE  i < frame_capacities[f][k]
  <2>1. i \in Indices(k) /\ i \in Int
    BY <1>1 DEF WriteTypes, Indices
  <2>2. i < size[k] /\ size[k] <= capacity[k] /\ size[k] \in Int /\ capacity[k] \in Int
    BY <1>1, <2>1 DEF Fits, SlotTypes
  <2>3. frame_capacities[f] = capacity
    BY <1>3 DEF NeedsNewSet
  <2> QED
    BY <2>1, <2>2, <2>3
<1> QED
  BY <1>1, <1>2, <1>3 DEF Tracks, Says

(* Where a slot changes, every frame slot has a write of it pending.         *)
LEMMA MarkedTables ==
  ASSUME TabInv, NEW k \in Kinds, NEW i \in Indices(k), MarkDirty(k, i),
         UNCHANGED tables,
         \A q \in Kinds : \A j \in Indices(q) :
           q # k \/ j # i => slots'[q][j] = slots[q][j]
  PROVE  \A f \in FrameSlots : Tracks(f)'
<1> SUFFICES ASSUME NEW f \in FrameSlots, NEW q \in Kinds, NEW j \in Indices(q),
                    j \notin pending_writes'[f][q]
             PROVE  Says(tables[f][q][j], q, j)'
  BY DEF Tracks
<1>1. WriteTypes /\ Tracks(f)
  BY TypesAre DEF TabInv, AInv
<1>2. j \notin pending_writes[f][q] /\ (q # k \/ j # i)
  BY <1>1, MarkDirtyEffect
<1> QED
  BY <1>1, <1>2 DEF Tracks, Says, Valid

LEMMA TakesTables ==
  ASSUME TabInv, NEW k \in Kinds, NEW i \in Indices(k), NEW r \in Resources, NEW name,
         Takes(k, i, r, name), UNCHANGED tables
  PROVE  (\A q \in Kinds : Fits(q)') /\ \A f \in FrameSlots : Tracks(f)'
<1>1. AInv /\ SlotTypes /\ WriteTypes /\ MarkDirty(k, i) /\ \A q \in Kinds : Fits(q)
  BY TypesAre DEF TabInv, AInv, Takes
<1>2. \A q \in Kinds : \A j \in Indices(q) : q # k \/ j # i => slots'[q][j] = slots[q][j]
  BY <1>1 DEF Takes, SlotTypes
<1>3. \A f \in FrameSlots : Tracks(f)'
  BY <1>1, <1>2, MarkedTables
<1>4. ASSUME NEW q \in Kinds
      PROVE  size'[q] <= capacity'[q]
  <2>1. /\ size[q] \in Nat /\ capacity[q] \in Nat \ {0} /\ size[q] <= capacity[q]
        /\ max_capacity[q] \in Nat /\ i \in Nat /\ i < max_capacity[k]
    <3>1. size[q] \in 0 .. max_capacity[q] /\ capacity[q] \in 1 .. max_capacity[q]
      BY <1>1 DEF SlotTypes
    <3>2. i \in Nat /\ i < max_capacity[k] /\ max_capacity[q] \in Nat
      BY KindsAre DEF Indices
    <3>3. size[q] <= capacity[q]
      BY <1>1 DEF Fits
    <3> QED
      BY <3>1, <3>2, <3>3
  <2>2. CASE size' = size /\ capacity' = capacity
    BY <2>1, <2>2
  <2>3. CASE /\ i = size[k] /\ size' = [size EXCEPT ![k] = @ + 1]
             /\ capacity' = IF size[k] = capacity[k]
                            THEN [capacity EXCEPT ![k] = IF @ * 2 < max_capacity[k]
                                                         THEN @ * 2 ELSE max_capacity[k]]
                            ELSE capacity
    <3>1. CASE q = k
      <4>1. size'[q] = size[q] + 1
        BY <1>1, <2>3, <3>1 DEF SlotTypes
      <4>2. capacity'[q] = IF size[q] = capacity[q]
                           THEN IF capacity[q] * 2 < max_capacity[q]
                                THEN capacity[q] * 2 ELSE max_capacity[q]
                           ELSE capacity[q]
        BY <1>1, <2>3, <3>1 DEF SlotTypes
      <4>3. size[q] < max_capacity[q]
        BY <2>1, <2>3, <3>1
      <4> QED
        BY <2>1, <4>1, <4>2, <4>3
    <3>2. CASE q # k
      BY <1>1, <2>1, <2>3, <3>2 DEF SlotTypes
    <3> QED
      BY <3>1, <3>2
  <2> QED
    BY <2>2, <2>3 DEF Takes
<1>5. ASSUME NEW q \in Kinds, NEW f \in FrameSlots, NEW j \in Indices(q),
             j \in pending_writes'[f][q]
      PROVE  j < size'[q]
  <2>1. j \in pending_writes[f][q] \/ (q = k /\ j = i)
    BY <1>1, <1>5, MarkDirtyEffect
  <2> QED
    BY <1>1, <2>1, TakesSlots DEF Fits
<1> QED
  BY <1>3, <1>4, <1>5 DEF Fits

LEMMA VacatesTables ==
  ASSUME TabInv, NEW k \in Kinds, NEW i \in Indices(k), NEW h, NEW r,
         Vacates(k, i, h, r), UNCHANGED tables
  PROVE  (\A q \in Kinds : Fits(q)') /\ \A f \in FrameSlots : Tracks(f)'
<1>1. AInv /\ SlotTypes /\ WriteTypes /\ MarkDirty(k, i) /\ \A q \in Kinds : Fits(q)
  BY TypesAre DEF TabInv, AInv, Vacates
<1>2. \A q \in Kinds : \A j \in Indices(q) : q # k \/ j # i => slots'[q][j] = slots[q][j]
  BY <1>1 DEF Vacates, SlotTypes
<1>3. \A f \in FrameSlots : Tracks(f)'
  BY <1>1, <1>2, MarkedTables
<1>4. size' = size /\ capacity' = capacity /\ i < size[k]
  BY DEF Vacates
<1>5. ASSUME NEW q \in Kinds, NEW f \in FrameSlots, NEW j \in Indices(q),
             j \in pending_writes'[f][q]
      PROVE  j < size'[q]
  BY <1>1, <1>4, <1>5, MarkDirtyEffect DEF Fits
<1> QED
  BY <1>1, <1>3, <1>4, <1>5 DEF Fits

LEMMA FlushedTables ==
  ASSUME TabInv, NEW d \in 0 .. Len(pending_destructions), Flushed(d),
         UNCHANGED <<size, capacity, pending_writes, tables>>
  PROVE  (\A q \in Kinds : Fits(q)') /\ \A f \in FrameSlots : Tracks(f)'
<1>1. AInv /\ SlotTypes
  BY TypesAre DEF TabInv, AInv
<1>2. \A q \in Kinds : Fits(q)'
  BY DEF TabInv, Fits
<1>3. ASSUME NEW q \in Kinds, NEW j \in Indices(q)
      PROVE  /\ Valid(q, j)' <=> Valid(q, j)
             /\ Valid(q, j) => slots'[q][j] = slots[q][j]
  <2>1. /\ Valid(q, j)' <=> Valid(q, j)
        /\ Freed(d, q, j) => InPending(q, j)
    BY <1>1, FlushedSlots
  <2>2. Valid(q, j) => ~Freed(d, q, j)
    BY <1>1, <2>1 DEF AInv, Accounted
  <2>3. slots[q][j] \in Slot
    BY <1>1 DEF SlotTypes
  <2>4. ~Freed(d, q, j) => slots'[q][j] = [slots[q][j] EXCEPT !.generation = @ + 0]
    BY DEF Flushed, Freeds
  <2>5. slots[q][j].generation + 0 = slots[q][j].generation
    BY <2>3 DEF Slot
  <2>6. [slots[q][j] EXCEPT !.generation = @ + 0] = slots[q][j]
    BY <2>3, <2>5 DEF Slot
  <2> QED
    BY <2>1, <2>2, <2>4, <2>6
<1>4. ASSUME NEW f \in FrameSlots
      PROVE  Tracks(f)'
  BY <1>3 DEF TabInv, Tracks, Says
<1> QED
  BY <1>2, <1>4

LEMMA WriteTables ==
  ASSUME TabInv, WriteDescriptors
  PROVE  (\A q \in Kinds : Fits(q)') /\ \A f \in FrameSlots : Tracks(f)'
<1> DEFINE f == current_frame
<1>1. AInv /\ SlotTypes /\ WriteTypes /\ FrameTypes /\ f \in FrameSlots
  BY TypesAre DEF TabInv, AInv, PhaseTypes
<1>2. /\ UNCHANGED <<slots, size, capacity>>
      /\ \A q \in Kinds : pending_writes'[f][q] = {}
      /\ \A g \in FrameSlots \ {f} : /\ pending_writes'[g] = pending_writes[g]
                                     /\ tables'[g] = tables[g]
  <2>1. UNCHANGED <<slots, size, capacity>>
    BY DEF WriteDescriptors, slotVars
  <2>2. /\ \A q \in Kinds : pending_writes'[f][q] = {}
        /\ \A g \in FrameSlots \ {f} : pending_writes'[g] = pending_writes[g]
    BY <1>1 DEF WriteDescriptors, WriteTypes
  <2>3. \A g \in FrameSlots \ {f} : tables'[g] = tables[g]
    BY <1>1 DEF WriteDescriptors, FrameTypes, CreateFrameSet, KeepFrameSet
  <2> QED
    BY <2>1, <2>2, <2>3
<1>3. ASSUME NEW q \in Kinds
      PROVE  Fits(q)'
  <2>1. \A g \in FrameSlots : \A j \in Indices(q) :
          j \in pending_writes'[g][q] => j \in pending_writes[g][q]
    BY <1>2
  <2> QED
    BY <1>2, <2>1 DEF TabInv, Fits
<1>4. ASSUME NEW q \in Kinds, NEW j \in Indices(q), NEW old
      PROVE  Says(EntryOf(q, j, old), q, j)
  BY DEF EntryOf, Says
<1>5. ASSUME NEW q \in Kinds, NEW j \in Indices(q)
      PROVE  Says(tables'[f][q][j], q, j)
  <2>1. CASE KeepFrameSet(f)
    <3>1. tables'[f][q][j] = IF j \in pending_writes[f][q] THEN EntryOf(q, j, tables[f][q][j])
                             ELSE tables[f][q][j]
      BY <1>1, <2>1 DEF KeepFrameSet, FrameTypes, Written
    <3> QED
      BY <1>1, <1>4, <3>1 DEF TabInv, Tracks
  <2>2. CASE CreateFrameSet(f)
    <3>1. tables'[f][q][j] = IF j \in NewWrites[q] THEN EntryOf(q, j, NewTables[q][j])
                             ELSE NewTables[q][j]
      BY <1>1, <2>2 DEF CreateFrameSet, FrameTypes, Written
    <3>2. NewTables[q][j] = IF q = "buffer" /\ j < size[q] THEN EntryOf(q, j, EmptyEntry)
                            ELSE EmptyEntry
      BY DEF NewTables
    <3>3. q # "buffer" /\ j < size[q] => j \in NewWrites[q]
      <4>1. j \in Nat /\ size[q] \in Nat
        BY <1>1 DEF Indices, SlotTypes
      <4>2. q # "buffer" => q = "image"
        BY KindsAssumption
      <4> QED
        BY <4>1, <4>2 DEF NewWrites
    <3>4. ~(j < size[q]) => Says(EmptyEntry, q, j)
      BY <1>1 DEF AInv, Accounted, Says, EmptyEntry
    <3> QED
      BY <1>4, <3>1, <3>2, <3>3, <3>4
  <2> QED
    BY <2>1, <2>2 DEF WriteDescriptors
<1>6. ASSUME NEW g \in FrameSlots
      PROVE  Tracks(g)'
  <2>1. CASE g = f
    BY <1>2, <1>5, <2>1 DEF Tracks, Says, Valid
  <2>2. CASE g # f
    BY <1>2, <2>2 DEF TabInv, Tracks, Says, Valid
  <2> QED
    BY <2>1, <2>2
<1> QED
  BY <1>3, <1>6

LEMMA TablesStep ==
  ASSUME TabInv, [Next]_vars
  PROVE  TabInv'
<1>1. AInv' /\ SlotStep
  BY AccountsStep, SlotSteps DEF TabInv
<1> DEFINE Goal == (\A q \in Kinds : Fits(q)') /\ \A f \in FrameSlots : Tracks(f)'
<1>2. ASSUME UNCHANGED <<slotVars, pending_writes, tables, frame_capacities>>
      PROVE  Goal
  BY <1>2 DEF slotVars, TabInv, Fits, Tracks, Says, Valid
<1>3. Goal
  BY <1>1, <1>2, TakesTables, VacatesTables, FlushedTables, WriteTables DEF SlotStep
<1> QED
  BY <1>1, <1>3 DEF TabInv

-----------------------------------------------------------------------------
(* The frame slots' sets.                                                   *)

(* The sets of a frame slot change only with its tables, what is put off     *)
(* only by what the calls put off and begin_frame and destruct take.         *)
Defers ==
  \E pd \in PendingDestruction :
    /\ Appended(pd) /\ pd.requested_at_frame = global_frame_counter /\ pd.set = NoSet
FramesKept ==
  /\ phase # "destroyed" \/ phase' = "destroyed"
  /\ UNCHANGED <<frame_sets, sets_created, set_failures, tables>>

LEMMA FrameSteps ==
  ASSUME AInv, [Next]_vars
  PROVE  \/ FramesKept /\ UNCHANGED <<pending_destructions, global_frame_counter, sets>>
         \/ FramesKept /\ Defers /\ UNCHANGED <<global_frame_counter, sets>>
         \/ WriteDescriptors
         \/ CreateFrameSetThrows
         \/ BeginFrame \/ FlushThrows
         \/ Destruct \/ DestructThrows
<1> DEFINE Goal == \/ FramesKept /\ UNCHANGED <<pending_destructions, global_frame_counter, sets>>
                   \/ FramesKept /\ Defers /\ UNCHANGED <<global_frame_counter, sets>>
<1>1. TInv /\ SlotTypes /\ StorageTypes /\ PhaseTypes
  BY TypesAre DEF AInv
<1>2. ASSUME NEW k \in Kinds, phase # "destroyed",
             \/ \E name \in Names \union {NoName} :
                  AddBindless(k, name) \/ \E r \in held[k] : Register(k, r, name)
             \/ AddResource(k)
      PROVE  Goal
  BY <1>2 DEF AddBindless, Register, AddResource, frameVars, FramesKept
<1>3. ASSUME NEW k \in Kinds, phase # "destroyed", NEW h \in issued[k],
             NEW r \in Resources \union {None}, Release(k, h, r)
      PROVE  Goal
  <2>1. Vacates(k, h.id, h, r) /\ h.id \in Indices(k)
    BY <1>1, <1>3, ReleaseEffect
  <2>2. Appended(Defer(k, r, h.id, NoSet))
    BY <2>1 DEF Vacates
  <2>3. Defer(k, r, h.id, NoSet) \in PendingDestruction
    BY <1>1, <2>1, KindsAre, NoSetType DEF Defer, PendingDestruction, None, PhaseTypes, Indices
  <2>4. /\ Defer(k, r, h.id, NoSet).requested_at_frame = global_frame_counter
        /\ Defer(k, r, h.id, NoSet).set = NoSet
    BY DEF Defer
  <2>5. FramesKept /\ UNCHANGED <<global_frame_counter, sets>>
    BY <1>3 DEF Release, frameVars, FramesKept
  <2> QED
    BY <2>2, <2>3, <2>4, <2>5 DEF Defers
<1>4. ASSUME NEW k \in Kinds, phase # "destroyed", NEW h \in issued[k], Destroy(k, h)
      PROVE  Goal
  <2>1. h.id \in Indices(k)
    BY <1>1, <1>4, KindsAre DEF Destroy, Release, Resolves, SlotTypes, Indices, Handle, TInv, TypeOK
  <2>2. slots[k][h.id].resource \in Resources \union {None}
    BY <1>1, <2>1 DEF SlotTypes, Slot
  <2> QED
    BY <1>3, <1>4, <2>2 DEF Destroy
<1>5. ASSUME NEW k \in Kinds, phase # "destroyed", NEW h \in issued[k], Unregister(k, h)
      PROVE  Goal
  BY <1>3, <1>5 DEF Unregister
<1>6. ASSUME NEW k \in Kinds, phase # "destroyed", NEW r \in held[k], DestroyResource(k, r)
      PROVE  Goal
  <2> DEFINE pd == Defer(k, r, invalid_id, NoSet)
  <2>1. pd \in PendingDestruction
    BY <1>1, NoSetType DEF Defer, PendingDestruction, None, PhaseTypes, StorageTypes
  <2>2. Appended(pd) /\ pd.requested_at_frame = global_frame_counter /\ pd.set = NoSet
    BY <1>1, <1>6, <2>1, AppendEffect DEF DestroyResource, Defer
  <2>3. FramesKept /\ UNCHANGED <<global_frame_counter, sets>>
    BY <1>6 DEF DestroyResource, frameVars, FramesKept
  <2> QED
    BY <2>1, <2>2, <2>3 DEF Defers
<1>7. CASE EndFrame
  BY <1>7 DEF EndFrame, frameVars, FramesKept
<1>8. CASE UNCHANGED vars
  BY <1>8 DEF vars, frameVars, FramesKept
<1>9. CASE Call
  BY <1>2, <1>4, <1>5, <1>6, <1>9 DEF Call
<1> QED
  BY <1>7, <1>8, <1>9 DEF Next, Destroyed

(* As long as no call of create_frame_set has thrown, the parts of a frame   *)
(* slot's set exist, are its own and are not put off, and what is put off    *)
(* exists and is put off once.                                               *)
SetParts(f) == PartsOf(frame_sets[f])
PutOffParts(n) == PartsOf(pending_destructions[n].set)
SetsWhole ==
  /\ \A f \in FrameSlots : \A s \in SetParts(f) :
       /\ s \in sets /\ s <= sets_created
       /\ \A g \in FrameSlots : s \in SetParts(g) => g = f
       /\ \A n \in DOMAIN pending_destructions : s \notin PutOffParts(n)
  /\ \A n \in DOMAIN pending_destructions : \A s \in PutOffParts(n) :
       /\ s \in sets /\ s <= sets_created
       /\ \A m \in DOMAIN pending_destructions : s \in PutOffParts(m) => m = n
SetsInv == phase # "destroyed" /\ set_failures = 0 => SetsWhole
SInv == AInv /\ SetsInv

LEMMA SetsStart == Init => SInv
<1> SUFFICES ASSUME Init
             PROVE  SetsWhole
  BY AccountsStart DEF SInv, SetsInv
<1>1. /\ frames_in_flight \in Nat /\ FrameSlots = 0 .. frames_in_flight - 1
      /\ frame_sets = [f \in FrameSlots |-> NewSet(4 * f)]
      /\ sets = 1 .. 4 * frames_in_flight
      /\ sets_created = 4 * frames_in_flight /\ pending_destructions = <<>>
  BY FramesAssumption DEF Init, FrameSlots
<1>2. ASSUME NEW f \in FrameSlots, NEW s \in SetParts(f)
      PROVE  s \in 4 * f + 1 .. 4 * f + 4 /\ f \in Nat /\ f < frames_in_flight
  <2>1. f \in Nat /\ f < frames_in_flight /\ 4 * f \in Nat /\ frame_sets[f] = NewSet(4 * f)
    BY <1>1
  <2> QED
    BY <1>2, <2>1, NewSetType DEF SetParts
<1>3. ASSUME NEW f \in FrameSlots, NEW s \in SetParts(f)
      PROVE  /\ s \in sets /\ s <= sets_created
             /\ \A g \in FrameSlots : s \in SetParts(g) => g = f
  <2>1. s \in 4 * f + 1 .. 4 * f + 4 /\ f \in Nat /\ f < frames_in_flight
    BY <1>2
  <2>2. ASSUME NEW g \in FrameSlots, s \in SetParts(g)
        PROVE  g = f
    <3>1. s \in 4 * g + 1 .. 4 * g + 4 /\ g \in Nat
      BY <1>2, <2>2
    <3> QED
      BY <2>1, <3>1
  <2> QED
    BY <1>1, <2>1, <2>2
<1> QED
  BY <1>1, <1>3 DEF SetsWhole

LEMMA PartsAreNumbers ==
  ASSUME TInv
  PROVE  /\ \A f \in FrameSlots : SetParts(f) \subseteq Nat
         /\ \A n \in DOMAIN pending_destructions : PutOffParts(n) \subseteq Nat
         /\ sets_created \in Nat
<1>1. FrameTypes /\ pending_destructions \in Seq(PendingDestruction)
  BY TypesAre DEF PendingTypes
<1>2. \A n \in DOMAIN pending_destructions : pending_destructions[n].set \in [Parts -> Nat]
  <2>1. \A n \in DOMAIN pending_destructions : pending_destructions[n] \in PendingDestruction
    BY <1>1
  <2> QED
    BY <2>1 DEF PendingDestruction
<1> QED
  BY <1>1, <1>2 DEF FrameTypes, SetParts, PutOffParts, PartsOf

(* Then nothing is refused, and a step that throws is not the first of all.  *)
LEMMA NothingRefused ==
  ASSUME TInv, SetsWhole, NEW n \in DOMAIN pending_destructions, NEW p \in Parts
  PROVE  ~Refused(n, p)
<1> SUFFICES ASSUME Refused(n, p)
             PROVE  FALSE
  OBVIOUS
<1> DEFINE part == pending_destructions[n].set[p]
<1>1. part \in PutOffParts(n)
  BY DEF Refused, PutOffParts, PartsOf
<1>2. PICK m \in 1 .. n - 1 : part \in PutOffParts(m)
  BY <1>1 DEF SetsWhole, Refused, PutOffParts
<1>3. pending_destructions \in Seq(PendingDestruction)
  BY DEF TInv, TypeOK
<1>4. m \in DOMAIN pending_destructions /\ m # n
  BY <1>2, <1>3
<1> QED
  BY <1>1, <1>2, <1>4 DEF SetsWhole

LEMMA UnfailedStep ==
  ASSUME SInv, [Next]_vars, set_failures' = 0
  PROVE  /\ set_failures = 0
         /\ phase' # "destroyed" => /\ SetsWhole /\ phase # "destroyed"
                                    /\ ~FlushThrows /\ ~CreateFrameSetThrows /\ ~DestructThrows
<1>1. AInv /\ TInv /\ set_failures \in Nat
  BY BoundsAssumption DEF SInv, AInv, TInv, TypeOK
<1>2. set_failures = 0
  <2>1. ~CreateFrameSetThrows
    BY <1>1 DEF CreateFrameSetThrows
  <2> QED
    BY <1>1, <2>1, FrameSteps DEF FramesKept, WriteDescriptors, CreateFrameSet, KeepFrameSet,
                                  BeginFrame, FlushThrows, Destruct, DestructThrows, frameVars
<1>3. ASSUME phase' # "destroyed"
      PROVE  phase # "destroyed"
  BY <1>1, <1>3, FrameSteps DEF FramesKept, WriteDescriptors, CreateFrameSetThrows,
                                BeginFrame, FlushThrows, Destruct, DestructThrows
<1>4. ASSUME phase # "destroyed", FlushThrows
      PROVE  FALSE
  <2>1. \E n \in DOMAIN pending_destructions : \E p \in Parts : Refused(n, p)
    BY <1>1, <1>4, FlushThrowsEffect
  <2> QED
    BY <1>1, <1>2, <1>4, <2>1, NothingRefused DEF SInv, SetsInv
<1>5. ~CreateFrameSetThrows
  BY <1>1, <1>2 DEF CreateFrameSetThrows
<1>6. phase' # "destroyed" => ~DestructThrows
  BY DEF DestructThrows
<1> QED
  BY <1>2, <1>3, <1>4, <1>5, <1>6 DEF SInv, SetsInv

(* What is put off is put off with the set of a frame slot, or with none.    *)
LEMMA AppendedSets ==
  ASSUME TInv, SetsWhole, NEW pd, Appended(pd),
         \A s \in PartsOf(pd.set) :
           /\ s \in sets' /\ s <= sets_created'
           /\ \A n \in DOMAIN pending_destructions : s \notin PutOffParts(n),
         sets \subseteq sets', sets_created' \in Nat, sets_created <= sets_created'
  PROVE  \A n \in DOMAIN pending_destructions' : \A s \in PutOffParts(n)' :
           /\ s \in PartsOf(pd.set) \/ \E m \in DOMAIN pending_destructions : s \in PutOffParts(m)
           /\ s \in sets' /\ s <= sets_created'
           /\ \A m \in DOMAIN pending_destructions' : s \in PutOffParts(m)' => m = n
<1>1. PICK len \in Nat :
        /\ DOMAIN pending_destructions = 1 .. len
        /\ DOMAIN pending_destructions' = 1 .. len + 1
        /\ \A n \in 1 .. len : pending_destructions'[n] = pending_destructions[n]
        /\ pending_destructions'[len + 1] = pd
  BY DEF Appended
<1>2. \A n \in 1 .. len + 1 : n \in 1 .. len \/ n = len + 1
  OBVIOUS
<1>3. /\ \A n \in 1 .. len : PutOffParts(n)' = PutOffParts(n)
      /\ PutOffParts(len + 1)' = PartsOf(pd.set)
  BY <1>1 DEF PutOffParts
<1>4. ASSUME NEW n \in 1 .. len, NEW s \in PutOffParts(n)
      PROVE  s \in sets' /\ s <= sets_created'
  <2>1. s \in Nat /\ sets_created \in Nat /\ s <= sets_created /\ s \in sets
    BY <1>1, PartsAreNumbers DEF SetsWhole
  <2> QED
    BY <2>1
<1>5. ASSUME NEW n \in 1 .. len + 1, NEW m \in 1 .. len + 1,
             NEW s \in PutOffParts(n)', s \in PutOffParts(m)'
      PROVE  m = n
  <2>1. CASE n \in 1 .. len /\ m \in 1 .. len
    BY <1>1, <1>3, <1>5, <2>1 DEF SetsWhole
  <2>2. CASE n = len + 1 \/ m = len + 1
    BY <1>1, <1>2, <1>3, <1>5, <2>2
  <2> QED
    BY <1>2, <2>1, <2>2
<1> QED
  BY <1>1, <1>2, <1>3, <1>4, <1>5

LEMMA SetsStep ==
  ASSUME SInv, [Next]_vars
  PROVE  SInv'
<1>0. AInv' /\ AInv /\ TInv
  BY AccountsStep DEF SInv, AInv
<1> SUFFICES ASSUME phase' # "destroyed", set_failures' = 0
             PROVE  SetsWhole'
  BY <1>0 DEF SInv, SetsInv
<1>1. /\ SetsWhole /\ ~FlushThrows /\ ~CreateFrameSetThrows /\ ~DestructThrows
      /\ ~Destruct
  BY UnfailedStep DEF Destruct
<1>2. FrameTypes /\ PhaseTypes /\ sets_created \in Nat
  BY <1>0, TypesAre DEF FrameTypes
<1>3. CASE UNCHANGED <<frame_sets, sets_created, sets, pending_destructions>>
  BY <1>1, <1>3 DEF SetsWhole, SetParts, PutOffParts
<1>4. CASE FramesKept /\ Defers /\ UNCHANGED sets
  <2>1. PICK pd : Appended(pd) /\ PartsOf(pd.set) = {}
    BY <1>4, NoSetType DEF Defers
  <2>2. UNCHANGED <<frame_sets, sets_created, sets>>
    BY <1>4 DEF FramesKept
  <2>3. \A n \in DOMAIN pending_destructions' : \A s \in PutOffParts(n)' :
          /\ \E m \in DOMAIN pending_destructions : s \in PutOffParts(m)
          /\ s \in sets' /\ s <= sets_created'
          /\ \A m \in DOMAIN pending_destructions' : s \in PutOffParts(m)' => m = n
    BY <1>0, <1>1, <1>2, <2>1, <2>2, AppendedSets
  <2>4. \A f : SetParts(f)' = SetParts(f)
    BY <2>2 DEF SetParts
  <2> QED
    BY <1>1, <2>2, <2>3, <2>4 DEF SetsWhole
<1>5. CASE WriteDescriptors /\ CreateFrameSet(current_frame)
  <2> DEFINE pd == Defer("set", None, invalid_id, frame_sets[current_frame])
             news == PartsOf(NewSet(sets_created))
  <2>1. Appended(pd) /\ PartsOf(pd.set) = SetParts(current_frame)
    BY <1>0, <1>5, SetDeferred DEF CreateFrameSet, SetParts
  <2>2. /\ current_frame \in FrameSlots
        /\ sets_created' = sets_created + 4 /\ sets' = sets \union news
        /\ \A f \in FrameSlots :
             SetParts(f)' = IF f = current_frame THEN news ELSE SetParts(f)
    BY <1>2, <1>5 DEF CreateFrameSet, FrameTypes, PhaseTypes, SetParts
  <2>3. news \subseteq sets_created + 1 .. sets_created + 4
    BY <1>2, NewSetType
  <2> HIDE DEF pd, news
  <2>4. /\ \A s \in news : s \in Nat /\ s > sets_created /\ s <= sets_created'
        /\ \A f \in FrameSlots : \A s \in SetParts(f) :
             s <= sets_created' /\ s \notin news
        /\ \A n \in DOMAIN pending_destructions : \A s \in PutOffParts(n) : s \notin news
    <3>1. /\ \A f \in FrameSlots : \A s \in SetParts(f) : s \in Nat /\ s <= sets_created
          /\ \A n \in DOMAIN pending_destructions : \A s \in PutOffParts(n) :
               s \in Nat /\ s <= sets_created
      BY <1>0, <1>1, PartsAreNumbers DEF SetsWhole
    <3>2. \A s \in Nat : s <= sets_created => s <= sets_created' /\ s \notin news
      BY <1>2, <2>2, <2>3
    <3>3. \A s \in news : s \in Nat /\ s > sets_created /\ s <= sets_created'
      BY <1>2, <2>2, <2>3
    <3> QED
      BY <3>1, <3>2, <3>3
  <2>5. /\ sets_created' \in Nat /\ sets_created <= sets_created' /\ sets \subseteq sets'
        /\ \A s \in PartsOf(pd.set) :
             /\ s \in sets' /\ s <= sets_created'
             /\ \A n \in DOMAIN pending_destructions : s \notin PutOffParts(n)
    BY <1>1, <1>2, <2>1, <2>2, <2>4 DEF SetsWhole
  <2>6. \A n \in DOMAIN pending_destructions' : \A s \in PutOffParts(n)' :
          /\ s \in PartsOf(pd.set) \/ \E m \in DOMAIN pending_destructions : s \in PutOffParts(m)
          /\ s \in sets' /\ s <= sets_created'
          /\ \A m \in DOMAIN pending_destructions' : s \in PutOffParts(m)' => m = n
    BY <1>0, <1>1, <2>1, <2>5, AppendedSets
  <2>7. ASSUME NEW f \in FrameSlots, NEW s \in SetParts(f)'
        PROVE  /\ s \in sets' /\ s <= sets_created'
               /\ \A g \in FrameSlots : s \in SetParts(g)' => g = f
               /\ \A n \in DOMAIN pending_destructions' : s \notin PutOffParts(n)'
    <3>1. CASE f = current_frame
      <4>1. s \in news
        BY <2>2, <3>1
      <4>2. \A n \in DOMAIN pending_destructions' : s \notin PutOffParts(n)'
        BY <2>1, <2>2, <2>4, <2>6, <4>1
      <4> QED
        BY <2>2, <2>4, <3>1, <4>1, <4>2
    <3>2. CASE f # current_frame
      <4>1. s \in SetParts(f) /\ s \notin SetParts(current_frame)
        BY <1>1, <2>2, <3>2 DEF SetsWhole
      <4>2. \A n \in DOMAIN pending_destructions' : s \notin PutOffParts(n)'
        BY <1>1, <2>1, <2>6, <4>1 DEF SetsWhole
      <4>3. s \in sets' /\ \A g \in FrameSlots : s \in SetParts(g)' => g = f
        BY <1>1, <2>2, <2>4, <4>1 DEF SetsWhole
      <4> QED
        BY <2>4, <4>1, <4>2, <4>3
    <3> QED
      BY <3>1, <3>2
  <2> QED
    BY <2>6, <2>7 DEF SetsWhole
<1>6. CASE WriteDescriptors /\ KeepFrameSet(current_frame)
  BY <1>3, <1>6 DEF KeepFrameSet
<1>7. CASE BeginFrame
  <2>1. /\ global_frame_counter + 1 \in Nat /\ Flush(global_frame_counter + 1, FALSE, {})
        /\ UNCHANGED <<frame_sets, sets_created>>
    <3>1. global_frame_counter + 1 \in Nat
      BY <1>2 DEF PhaseTypes
    <3> QED
      BY <1>7, <3>1 DEF BeginFrame, frameVars
  <2>2. PICK d \in 0 .. Len(pending_destructions) :
          /\ Left(d)
          /\ \A n \in DOMAIN pending_destructions' :
               pending_destructions'[n] = pending_destructions[n + d]
          /\ sets' = sets \ ({} \union
               UNION {PartsOf(pending_destructions[n].set) : n \in 1 .. d})
    BY <1>0, <2>1, FlushEffect DEF Flushed
  <2>3. /\ d \in Nat /\ 1 .. d \subseteq DOMAIN pending_destructions
        /\ \A n \in DOMAIN pending_destructions' :
             /\ n + d \in DOMAIN pending_destructions /\ n \in Nat \ {0}
             /\ n + d \notin 1 .. d /\ PutOffParts(n)' = PutOffParts(n + d)
    <3>1. pending_destructions \in Seq(PendingDestruction)
      BY <1>0 DEF TInv, TypeOK
    <3>2. \A n \in Nat \ {0} : n + d \notin 1 .. d
      BY <3>1
    <3>3. d \in Nat /\ 1 .. d \subseteq DOMAIN pending_destructions
      BY <3>1
    <3> QED
      BY <2>2, <3>2, <3>3 DEF Left, PutOffParts
  <2>4. \A s \in sets : s \in sets' \/ \E n \in 1 .. d : s \in PutOffParts(n)
    BY <2>2 DEF PutOffParts
  <2>5. ASSUME NEW f \in FrameSlots, NEW s \in SetParts(f)'
        PROVE  /\ s \in sets' /\ s <= sets_created'
               /\ \A g \in FrameSlots : s \in SetParts(g)' => g = f
               /\ \A n \in DOMAIN pending_destructions' : s \notin PutOffParts(n)'
    <3>1. \A g : SetParts(g)' = SetParts(g)
      BY <2>1 DEF SetParts
    <3> QED
      BY <1>1, <2>1, <2>3, <2>4, <3>1 DEF SetsWhole
  <2>6. ASSUME NEW n \in DOMAIN pending_destructions', NEW s \in PutOffParts(n)'
        PROVE  /\ s \in sets' /\ s <= sets_created'
               /\ \A m \in DOMAIN pending_destructions' : s \in PutOffParts(m)' => m = n
    <3>1. s \in PutOffParts(n + d) /\ n + d \in DOMAIN pending_destructions
      BY <2>3
    <3>2. ASSUME NEW m \in DOMAIN pending_destructions', s \in PutOffParts(m)'
          PROVE  m = n
      <4>1. s \in PutOffParts(m + d) /\ m + d \in DOMAIN pending_destructions
        BY <2>3, <3>2
      <4>2. m + d = n + d
        BY <1>1, <3>1, <4>1 DEF SetsWhole
      <4> QED
        BY <2>3, <4>2
    <3>3. s \in sets'
      BY <1>1, <2>3, <2>4, <3>1 DEF SetsWhole
    <3> QED
      BY <1>1, <2>1, <3>1, <3>2, <3>3 DEF SetsWhole
  <2> QED
    BY <2>5, <2>6 DEF SetsWhole
<1> QED
  BY <1>0, <1>1, <1>3, <1>4, <1>5, <1>6, <1>7, FrameSteps DEF FramesKept, WriteDescriptors

-----------------------------------------------------------------------------
(* Resources and their destruction.                                         *)

Resource(k, i) == slots[k][i].resource
PutOff(k, r) ==
  \E n \in DOMAIN pending_destructions :
    pending_destructions[n].kind = k /\ pending_destructions[n].resource = r
PutOffOnce(k) ==
  \A m, n \in DOMAIN pending_destructions :
    /\ pending_destructions[m].kind = k /\ pending_destructions[m].resource # None
    /\ pending_destructions[n].kind = k
    /\ pending_destructions[n].resource = pending_destructions[m].resource
    => m = n

(* A resource is in one slot at most, and one that is put off is in none and *)
(* is not the application's anymore.                                         *)
Owns(k) ==
  /\ live[k] \subseteq 1 .. created[k] /\ held[k] \subseteq live[k]
  /\ \A i \in Indices(k) : Valid(k, i) =>
       /\ Resource(k, i) \in live[k] /\ ~PutOff(k, Resource(k, i))
       /\ \A j \in Indices(k) : Resource(k, j) = Resource(k, i) => i = j
  /\ \A r \in held[k] : ~PutOff(k, r)
  /\ \A r \in Resources : PutOff(k, r) => r \in live[k]
  /\ PutOffOnce(k)

(* The queue is in the order of its frames, and none of them is due, as long *)
(* as no call of create_frame_set has thrown.                                *)
Times ==
  \A n \in DOMAIN pending_destructions :
    /\ pending_destructions[n].requested_at_frame <= global_frame_counter
    /\ set_failures = 0 =>
         global_frame_counter - pending_destructions[n].requested_at_frame < frames_in_flight
    /\ \A m \in DOMAIN pending_destructions : m <= n =>
         pending_destructions[m].requested_at_frame <= pending_destructions[n].requested_at_frame

RInv ==
  /\ SInv
  /\ Times
  /\ \A k \in Kinds : Owns(k)

LEMMA ResourcesStart == Init => RInv
<1> SUFFICES ASSUME Init
             PROVE  RInv
  OBVIOUS
<1>1. SInv
  BY SetsStart
<1>2. pending_destructions = <<>>
  BY DEF Init
<1>3. Times
  BY <1>2 DEF Times
<1>4. ASSUME NEW k \in Kinds
      PROVE  Owns(k)
  <2>1. live[k] = {} /\ held[k] = {} /\ \A i \in Indices(k) : ~Valid(k, i)
    BY DEF Init, Valid, EmptySlot
  <2> QED
    BY <1>2, <2>1 DEF Owns, PutOff, PutOffOnce
<1> QED
  BY <1>1, <1>3, <1>4 DEF RInv

LEMMA ResourcesSound == RInv => Awaited
<1> SUFFICES ASSUME RInv
             PROVE  Awaited
  OBVIOUS
<1>1. SlotTypes /\ PendingTypes /\ Times /\ \A k \in Kinds : Owns(k)
  BY TypesAre DEF RInv, SInv, AInv
<1>2. ASSUME NEW n \in DOMAIN pending_destructions, pending_destructions[n].resource # None
      PROVE  LET pd == pending_destructions[n]
             IN /\ pd.resource \in live[pd.kind] \ Registered(pd.kind)
                /\ \A m \in DOMAIN pending_destructions :
                     pending_destructions[m].kind = pd.kind
                       /\ pending_destructions[m].resource = pd.resource => n = m
  <2> DEFINE pd == pending_destructions[n]
  <2>1. pd \in PendingDestruction
    BY <1>1 DEF PendingTypes
  <2>2. pd.kind \in Kinds /\ pd.resource \in Resources
    BY <1>1, <1>2, <2>1 DEF PendingTypes, PendingDestruction
  <2>3. Owns(pd.kind) /\ PutOff(pd.kind, pd.resource)
    BY <1>1, <2>2 DEF PutOff
  <2>4. pd.resource \notin Registered(pd.kind)
    BY <1>2, <2>3 DEF Owns, Registered, Valid, Resource
  <2>5. \A m \in DOMAIN pending_destructions :
          pending_destructions[m].kind = pd.kind
            /\ pending_destructions[m].resource = pd.resource => n = m
    BY <1>2, <2>3 DEF Owns, PutOffOnce
  <2>6. pd.resource \in live[pd.kind]
    BY <2>2, <2>3 DEF Owns
  <2> QED
    BY <2>4, <2>5, <2>6
<1>3. \A k \in Kinds : \A i \in Indices(k) : Valid(k, i) => slots[k][i].resource \in live[k]
  BY <1>1 DEF Owns, Resource
<1>4. \A n \in DOMAIN pending_destructions : set_failures = 0 =>
        global_frame_counter - pending_destructions[n].requested_at_frame < frames_in_flight
  BY <1>1 DEF Times
<1> QED
  BY <1>2, <1>3, <1>4 DEF Awaited

(* What the queue's changes do to the times and to what is put off.          *)
LEMMA AppendedTimes ==
  ASSUME TInv, Times, NEW pd, Appended(pd), pd.requested_at_frame = global_frame_counter,
         UNCHANGED global_frame_counter, set_failures' = 0 => set_failures = 0
  PROVE  Times'
<1> DEFINE len == Len(pending_destructions)
<1>1. /\ len \in Nat /\ DOMAIN pending_destructions = 1 .. len
      /\ DOMAIN pending_destructions' = 1 .. len + 1
      /\ \A n \in 1 .. len : pending_destructions'[n] = pending_destructions[n]
      /\ pending_destructions'[len + 1] = pd
  BY DEF Appended
<1> HIDE DEF len
<1>2. /\ \A n \in 1 .. len + 1 : n \in 1 .. len \/ n = len + 1
      /\ \A n \in 1 .. len : ~(len + 1 <= n)
  BY <1>1
<1>3. /\ global_frame_counter \in Nat /\ frames_in_flight \in Nat \ {0}
      /\ global_frame_counter - global_frame_counter < frames_in_flight
      /\ global_frame_counter <= global_frame_counter
  BY FramesAssumption DEF TInv, TypeOK
<1>4. ASSUME NEW n \in 1 .. len + 1
      PROVE  /\ pending_destructions'[n].requested_at_frame <= global_frame_counter
             /\ set_failures' = 0 =>
                  global_frame_counter - pending_destructions'[n].requested_at_frame
                    < frames_in_flight
  <2>1. CASE n \in 1 .. len
    BY <1>1, <2>1 DEF Times
  <2>2. CASE n = len + 1
    BY <1>1, <1>3, <2>2
  <2> QED
    BY <1>2, <2>1, <2>2
<1>5. ASSUME NEW n \in 1 .. len + 1, NEW m \in 1 .. len + 1, m <= n
      PROVE  pending_destructions'[m].requested_at_frame
               <= pending_destructions'[n].requested_at_frame
  <2>1. CASE n \in 1 .. len
    <3>1. m \in 1 .. len
      BY <1>2, <1>5, <2>1
    <3> QED
      BY <1>1, <1>5, <2>1, <3>1 DEF Times
  <2>2. CASE n = len + 1
    BY <1>1, <1>4, <2>2
  <2> QED
    BY <1>2, <2>1, <2>2
<1> QED
  BY <1>1, <1>4, <1>5 DEF Times

LEMMA FlushedTimes ==
  ASSUME TInv, Times, NEW d \in 0 .. Len(pending_destructions), Flushed(d),
         set_failures' = 0 => set_failures = 0,
         \/ UNCHANGED global_frame_counter
         \/ /\ global_frame_counter' = global_frame_counter + 1
            /\ set_failures' = 0 /\ d < Len(pending_destructions) =>
                 ~Due(pending_destructions[d + 1], global_frame_counter')
  PROVE  Times'
<1> DEFINE at(n) == pending_destructions[n].requested_at_frame
           counter == global_frame_counter
           len == Len(pending_destructions)
<1>1. /\ counter \in Nat /\ frames_in_flight \in Nat /\ len \in Nat
      /\ DOMAIN pending_destructions = 1 .. len
      /\ \A n \in 1 .. len : at(n) \in Nat
  <2>1. pending_destructions \in Seq(PendingDestruction)
    BY DEF TInv, TypeOK
  <2>2. \A n \in DOMAIN pending_destructions : pending_destructions[n] \in PendingDestruction
    BY <2>1
  <2>3. \A n \in DOMAIN pending_destructions : at(n) \in Nat
    BY <2>2 DEF PendingDestruction
  <2> QED
    BY <2>1, <2>3, FramesAssumption DEF TInv, TypeOK
<1>2. ASSUME NEW n \in DOMAIN pending_destructions'
      PROVE  /\ n + d \in 1 .. len /\ n \in Nat \ {0}
             /\ pending_destructions'[n].requested_at_frame = at(n + d)
  BY <1>1 DEF Flushed, Left, Alike
<1>3. ASSUME NEW n \in DOMAIN pending_destructions'
      PROVE  at(n + d) <= global_frame_counter'
  <2>1. at(n + d) <= counter /\ at(n + d) \in Nat
    BY <1>1, <1>2 DEF Times
  <2> HIDE DEF at
  <2> QED
    BY <1>1, <2>1
<1>4. ASSUME NEW n \in DOMAIN pending_destructions', set_failures' = 0
      PROVE  global_frame_counter' - at(n + d) < frames_in_flight
  <2>1. at(n + d) <= counter /\ counter - at(n + d) < frames_in_flight /\ at(n + d) \in Nat
    BY <1>1, <1>2, <1>4 DEF Times
  <2>2. CASE UNCHANGED global_frame_counter
    BY <2>1, <2>2
  <2>3. CASE /\ global_frame_counter' = counter + 1
             /\ d < len => ~Due(pending_destructions[d + 1], global_frame_counter')
    <3>1. d + 1 \in 1 .. len /\ d + 1 <= n + d /\ d < len
      BY <1>1, <1>2
    <3>2. at(d + 1) <= at(n + d) /\ at(d + 1) \in Nat
      BY <1>1, <1>2, <3>1 DEF Times
    <3>3. ~(counter + 1 - at(d + 1) >= frames_in_flight)
      <4>1. ~Due(pending_destructions[d + 1], counter + 1)
        BY <2>3, <3>1, Zenon
      <4> QED
        BY <1>1, <3>2, <4>1 DEF Due
    <3> HIDE DEF at
    <3> QED
      BY <1>1, <2>1, <2>3, <3>2, <3>3
  <2> QED
    BY <1>4, <2>2, <2>3
<1>5. ASSUME NEW n \in DOMAIN pending_destructions', NEW m \in DOMAIN pending_destructions', m <= n
      PROVE  at(m + d) <= at(n + d)
  <2>1. m + d <= n + d
    BY <1>2, <1>5
  <2> QED
    BY <1>1, <1>2, <2>1 DEF Times
<1> HIDE DEF at
<1> QED
  BY <1>2, <1>3, <1>4, <1>5 DEF Times

LEMMA AppendedPutOff ==
  ASSUME NEW pd, Appended(pd), NEW k
  PROVE  /\ \A r : PutOff(k, r)' <=> PutOff(k, r) \/ (pd.kind = k /\ pd.resource = r)
         /\ PutOffOnce(k) /\ (pd.kind = k /\ pd.resource # None => ~PutOff(k, pd.resource))
              => PutOffOnce(k)'
<1> DEFINE len == Len(pending_destructions)
<1>1. /\ len \in Nat /\ DOMAIN pending_destructions = 1 .. len
      /\ DOMAIN pending_destructions' = 1 .. len + 1
      /\ \A n \in 1 .. len : pending_destructions'[n] = pending_destructions[n]
      /\ pending_destructions'[len + 1] = pd
  BY DEF Appended
<1> HIDE DEF len
<1>2. /\ \A n \in 1 .. len + 1 : n \in 1 .. len \/ n = len + 1
      /\ \A n \in 1 .. len : n \in 1 .. len + 1
      /\ len + 1 \in 1 .. len + 1
  BY <1>1
<1>3. ASSUME NEW r
      PROVE  PutOff(k, r)' <=> PutOff(k, r) \/ (pd.kind = k /\ pd.resource = r)
  BY <1>1, <1>2 DEF PutOff
<1>4. ASSUME PutOffOnce(k), pd.kind = k /\ pd.resource # None => ~PutOff(k, pd.resource)
      PROVE  PutOffOnce(k)'
  <2>1. ASSUME pd.kind = k, pd.resource # None, NEW n \in 1 .. len
        PROVE  ~(pending_destructions[n].kind = k
                   /\ pending_destructions[n].resource = pd.resource)
    BY <1>1, <1>4, <2>1 DEF PutOff
  <2> QED
    BY <1>1, <1>2, <1>4, <2>1 DEF PutOffOnce
<1> QED
  BY <1>3, <1>4

LEMMA FlushedPutOff ==
  ASSUME TInv, NEW d \in 0 .. Len(pending_destructions), Flushed(d), NEW k \in Kinds,
         PutOffOnce(k)
  PROVE  /\ \A r : PutOff(k, r)' => PutOff(k, r)
         /\ \A r \in live[k] : r \notin live'[k] => PutOff(k, r)
         /\ \A r \in Resources : PutOff(k, r)' => (r \in live[k] => r \in live'[k])
         /\ PutOffOnce(k)'
<1> DEFINE len == Len(pending_destructions)
<1>1. /\ len \in Nat /\ DOMAIN pending_destructions = 1 .. len
  BY DEF TInv, TypeOK
<1>2. ASSUME NEW n \in DOMAIN pending_destructions'
      PROVE  /\ n + d \in 1 .. len /\ n \in Nat \ {0} /\ n + d \notin 1 .. d
             /\ pending_destructions'[n].kind = pending_destructions[n + d].kind
             /\ pending_destructions'[n].resource = pending_destructions[n + d].resource
  BY <1>1 DEF Flushed, Left, Alike
<1>3. \A n \in 1 .. d : n \in 1 .. len
  BY <1>1
<1>4. \A m, n \in DOMAIN pending_destructions' : m + d = n + d => m = n
  BY <1>2
<1>5. /\ \A r \in live[k] : r \notin live'[k] <=>
           \E n \in 1 .. d : pending_destructions[n].kind = k
                               /\ pending_destructions[n].resource = r
      /\ live'[k] \subseteq live[k]
  BY DEF Flushed, Freeds
<1> HIDE DEF len
<1>6. \A r : PutOff(k, r)' => PutOff(k, r)
  BY <1>1, <1>2 DEF PutOff
<1>7. \A r \in live[k] : r \notin live'[k] => PutOff(k, r)
  BY <1>1, <1>3, <1>5 DEF PutOff
<1>8. ASSUME NEW r \in Resources, PutOff(k, r)', r \in live[k], r \notin live'[k]
      PROVE  FALSE
  <2>1. PICK n \in 1 .. d : pending_destructions[n].kind = k
                               /\ pending_destructions[n].resource = r
    BY <1>5, <1>8
  <2>2. PICK m \in DOMAIN pending_destructions' :
          pending_destructions'[m].kind = k /\ pending_destructions'[m].resource = r
    BY <1>8 DEF PutOff
  <2>3. m + d # n /\ n \in 1 .. len /\ r # None
    BY <1>2, <1>3, <2>1, <2>2 DEF Resources, None
  <2> QED
    BY <1>1, <1>2, <2>1, <2>2, <2>3 DEF PutOffOnce
<1>9. PutOffOnce(k)'
  BY <1>1, <1>2, <1>4 DEF PutOffOnce
<1> QED
  BY <1>6, <1>7, <1>8, <1>9

(* A new resource, of a call that registers it or leaves it to the           *)
(* application.                                                              *)
LEMMA CreatesOwn ==
  ASSUME RInv, NEW k \in Kinds, Create(k)
  PROVE  /\ created[k] + 1 \in Resources /\ created[k] + 1 \notin live[k]
         /\ ~PutOff(k, created[k] + 1)
         /\ live[k] \union {created[k] + 1} = live'[k] /\ live'[k] \subseteq 1 .. created'[k]
         /\ \A q \in Kinds \ {k} : live'[q] = live[q] /\ created'[q] = created[q]
<1>1. StorageTypes /\ Owns(k) /\ TInv
  BY TypesAre DEF RInv, SInv, AInv
<1>2. created[k] + 1 \in Resources
  BY <1>1, CreateEffect
<1>3. /\ live[k] \union {created[k] + 1} = live'[k] /\ created'[k] = created[k] + 1
      /\ \A q \in Kinds \ {k} : live'[q] = live[q] /\ created'[q] = created[q]
  BY <1>1 DEF Create, StorageTypes
<1>4. created[k] \in Nat
  BY <1>1, BoundsAssumption DEF StorageTypes
<1>5. created[k] + 1 \notin 1 .. created[k]
      /\ \A r \in 1 .. created[k] : r \in 1 .. created[k] + 1
      /\ created[k] + 1 \in 1 .. created[k] + 1
  BY <1>4
<1>6. live[k] \subseteq 1 .. created[k] /\ \A r \in Resources : PutOff(k, r) => r \in live[k]
  BY <1>1 DEF Owns
<1>7. created[k] + 1 \notin live[k]
  BY <1>5, <1>6, Zenon
<1>8. ~PutOff(k, created[k] + 1)
  BY <1>2, <1>6, <1>7, Zenon
<1>9. \A r \in live'[k] : r \in 1 .. created'[k]
  <2>1. \A r \in live'[k] : r \in live[k] \/ r = created[k] + 1
    BY <1>3
  <2>2. ASSUME NEW r \in live'[k]
        PROVE  r \in 1 .. created[k] + 1
    <3>1. CASE r \in live[k]
      BY <1>5, <1>6, <3>1
    <3>2. CASE r = created[k] + 1
      BY <1>4, <3>2
    <3> QED
      BY <2>1, <3>1, <3>2
  <2> QED
    BY <1>3, <2>2
<1> QED
  BY <1>2, <1>3, <1>7, <1>8, <1>9

LEMMA TakesOwn ==
  ASSUME RInv, NEW k \in Kinds, NEW i \in Indices(k), NEW r \in Resources,
         NEW name, Takes(k, i, r, name), UNCHANGED pending_destructions,
         r \notin Registered(k), ~PutOff(k, r), r \in live'[k],
         live[k] \subseteq live'[k], live'[k] \subseteq 1 .. created'[k], held'[k] = held[k]
  PROVE  Owns(k)'
<1>1. SlotTypes /\ Owns(k) /\ AInv
  BY TypesAre DEF RInv, SInv, AInv
<1>2. \A j \in Indices(k) :
        /\ Resource(k, j)' = IF j = i THEN r ELSE Resource(k, j)
        /\ Valid(k, j)' <=> Valid(k, j) \/ j = i
  <2>1. \A j \in Indices(k) :
          slots'[k][j] = IF j = i THEN [slots[k][i] EXCEPT !.resource = r, !.unique_name = name]
                         ELSE slots[k][j]
    BY <1>1 DEF Takes, SlotTypes
  <2>2. slots[k][i] \in Slot
    BY <1>1 DEF SlotTypes
  <2>3. [slots[k][i] EXCEPT !.resource = r, !.unique_name = name].resource = r
    BY <2>2 DEF Slot
  <2> QED
    BY <1>1, <2>1, <2>3, TakesSlots DEF Resource
<1>3. \A x : PutOff(k, x)' <=> PutOff(k, x)
  BY DEF PutOff
<1>4. \A j \in Indices(k) : Resource(k, j) # r
  BY DEF Registered, Resource
<1>5. PutOffOnce(k)'
  BY <1>1 DEF Owns, PutOffOnce
<1>6. ASSUME NEW j \in Indices(k), Valid(k, j)'
      PROVE  /\ Resource(k, j)' \in live'[k] /\ ~PutOff(k, Resource(k, j)')
             /\ \A l \in Indices(k) : Resource(k, l)' = Resource(k, j)' => j = l
  <2>1. CASE j = i
    BY <1>2, <1>4, <2>1
  <2>2. CASE j # i
    BY <1>1, <1>2, <1>4, <1>6, <2>2 DEF Owns
  <2> QED
    BY <2>1, <2>2
<1>7. /\ live'[k] \subseteq 1 .. created'[k] /\ held'[k] \subseteq live'[k]
      /\ \A x \in held'[k] : ~PutOff(k, x)
      /\ \A x \in Resources : PutOff(k, x) => x \in live'[k]
  BY <1>1 DEF Owns
<1> QED
  BY <1>3, <1>5, <1>6, <1>7 DEF Owns

LEMMA VacatesOwn ==
  ASSUME RInv, NEW k \in Kinds, NEW i \in Indices(k), NEW h \in issued[k], NEW r,
         Vacates(k, i, h, r), UNCHANGED <<live, created>>,
         \/ r = None /\ held'[k] = held[k]
         \/ r = Resource(k, i) /\ held'[k] = held[k] \ {r}
  PROVE  Owns(k)'
<1> DEFINE pd == Defer(k, r, i, NoSet)
<1>1. SlotTypes /\ Owns(k) /\ AInv /\ Valid(k, i)
  BY TypesAre DEF RInv, SInv, AInv, Vacates
<1>2. Appended(pd) /\ pd.kind = k /\ pd.resource = r
  BY DEF Vacates, Defer
<1> HIDE DEF pd
<1>3. \A j \in Indices(k) : /\ Valid(k, j)' <=> Valid(k, j) /\ j # i
                            /\ Resource(k, j)' = IF j = i THEN None ELSE Resource(k, j)
  <2>1. \A j \in Indices(k) : slots'[k][j] = IF j = i THEN Vacated(slots[k][i]) ELSE slots[k][j]
    BY <1>1 DEF Vacates, SlotTypes
  <2>2. Vacated(slots[k][i]).resource = None
    <3>1. slots[k][i] \in Slot
      BY <1>1 DEF SlotTypes
    <3> QED
      BY <3>1 DEF Slot, Vacated
  <2> QED
    BY <1>1, <2>1, <2>2, VacatesSlots DEF Resource
<1>4. \A x : PutOff(k, x)' <=> PutOff(k, x) \/ x = r
  BY <1>2, AppendedPutOff
<1>5. PutOffOnce(k)'
  <2>1. pd.kind = k /\ pd.resource # None => ~PutOff(k, pd.resource)
    BY <1>1, <1>2 DEF Owns
  <2>2. PutOffOnce(k)
    BY <1>1 DEF Owns
  <2> QED
    BY <1>2, <2>1, <2>2, AppendedPutOff
<1>6. None \notin live[k] /\ None \notin Resources
  <2>1. live[k] \subseteq Resources
    <3>1. StorageTypes
      BY <1>1, TypesAre DEF AInv
    <3> QED
      BY <3>1 DEF StorageTypes
  <2> QED
    BY <2>1 DEF Resources, None
<1>7. ASSUME NEW j \in Indices(k), Valid(k, j)'
      PROVE  /\ Resource(k, j)' \in live'[k] /\ ~PutOff(k, Resource(k, j))'
             /\ \A l \in Indices(k) : Resource(k, l)' = Resource(k, j)' => j = l
  <2>1. /\ j # i /\ Valid(k, j) /\ Resource(k, j)' = Resource(k, j)
        /\ Resource(k, j) \in live[k] /\ ~PutOff(k, Resource(k, j))
        /\ \A l \in Indices(k) : Resource(k, l) = Resource(k, j) => j = l
    BY <1>1, <1>3, <1>7 DEF Owns
  <2>2. Resource(k, j) # r /\ Resource(k, j) # None
    BY <1>6, <2>1
  <2>3. ~PutOff(k, Resource(k, j))'
    BY <1>4, <2>1, <2>2 DEF PutOff
  <2> QED
    BY <1>3, <2>1, <2>2, <2>3
<1>8. /\ live'[k] \subseteq 1 .. created'[k] /\ held'[k] \subseteq live'[k]
      /\ \A x \in held'[k] : ~PutOff(k, x)'
      /\ \A x \in Resources : PutOff(k, x)' => x \in live'[k]
  BY <1>1, <1>4, <1>6 DEF Owns
<1> QED
  BY <1>5, <1>7, <1>8 DEF Owns

LEMMA FlushedOwn ==
  ASSUME RInv, NEW d \in 0 .. Len(pending_destructions), Flushed(d),
         UNCHANGED <<created, held>>, NEW k \in Kinds
  PROVE  Owns(k)'
<1>1. SlotTypes /\ StorageTypes /\ Owns(k) /\ AInv /\ TInv /\ PutOffOnce(k)
  BY TypesAre DEF RInv, SInv, AInv, Owns
<1>2. /\ \A r : PutOff(k, r)' => PutOff(k, r)
      /\ \A r \in live[k] : r \notin live'[k] => PutOff(k, r)
      /\ \A r \in Resources : PutOff(k, r)' => (r \in live[k] => r \in live'[k])
      /\ PutOffOnce(k)'
  BY <1>1, FlushedPutOff
<1>3. \A j \in Indices(k) : /\ Valid(k, j)' <=> Valid(k, j)
                            /\ Resource(k, j)' = Resource(k, j)
  <2> SUFFICES ASSUME NEW j \in Indices(k)
               PROVE  (Valid(k, j)' <=> Valid(k, j)) /\ Resource(k, j)' = Resource(k, j)
    OBVIOUS
  <2> DEFINE inc == IF Freed(d, k, j) THEN 1 ELSE 0
  <2>1. slots'[k][j] = [slots[k][j] EXCEPT !.generation = @ + inc]
    BY DEF Flushed, Freeds
  <2>2. slots[k][j] \in Slot
    BY <1>1 DEF SlotTypes
  <2> HIDE DEF inc
  <2>3. slots'[k][j].resource = slots[k][j].resource
    BY <2>1, <2>2 DEF Slot
  <2> QED
    BY <2>3 DEF Valid, Resource
<1>4. live'[k] \subseteq live[k]
  BY DEF Flushed, Freeds
<1>5. ASSUME NEW j \in Indices(k), Valid(k, j)'
      PROVE  /\ Resource(k, j)' \in live'[k] /\ ~PutOff(k, Resource(k, j))'
             /\ \A l \in Indices(k) : Resource(k, l)' = Resource(k, j)' => j = l
  <2>1. /\ Valid(k, j) /\ Resource(k, j)' = Resource(k, j)
        /\ Resource(k, j) \in live[k] /\ ~PutOff(k, Resource(k, j))
        /\ \A l \in Indices(k) : Resource(k, l) = Resource(k, j) => j = l
    BY <1>1, <1>3, <1>5 DEF Owns
  <2>2. ~PutOff(k, Resource(k, j))'
    BY <1>2, <2>1 DEF PutOff
  <2> QED
    BY <1>2, <1>3, <2>1, <2>2
<1>6. /\ live'[k] \subseteq 1 .. created'[k] /\ held'[k] \subseteq live'[k]
      /\ \A x \in held'[k] : ~PutOff(k, x)'
      /\ \A x \in Resources : PutOff(k, x)' => x \in live'[k]
  BY <1>1, <1>2, <1>4 DEF Owns
<1> QED
  BY <1>2, <1>5, <1>6 DEF Owns

(* A step that leaves the slots of a kind and what is put off as they are.   *)
LEMMA KeptOwn ==
  ASSUME NEW k, Owns(k), slots'[k] = slots[k],
         live[k] \subseteq live'[k], live'[k] \subseteq 1 .. created'[k],
         held'[k] \subseteq live'[k], \A r \in held'[k] : ~PutOff(k, r),
         \A r : PutOff(k, r)' <=> PutOff(k, r), PutOffOnce(k)'
  PROVE  Owns(k)'
<1>1. \A j : (Valid(k, j)' <=> Valid(k, j)) /\ Resource(k, j)' = Resource(k, j)
  BY DEF Valid, Resource
<1>2. \A j : ~PutOff(k, Resource(k, j)) => ~PutOff(k, Resource(k, j))'
  BY <1>1 DEF PutOff
<1>3. \A i \in Indices(k) : Valid(k, i)' =>
        /\ Resource(k, i)' \in live'[k] /\ ~PutOff(k, Resource(k, i))'
        /\ \A j \in Indices(k) : Resource(k, j)' = Resource(k, i)' => i = j
  BY <1>1, <1>2 DEF Owns
<1>4. /\ \A r \in held'[k] : ~PutOff(k, r)'
      /\ \A r \in Resources : PutOff(k, r)' => r \in live'[k]
  BY DEF Owns
<1> QED
  BY <1>3, <1>4 DEF Owns

LEMMA SamePutOff ==
  ASSUME NEW k, UNCHANGED pending_destructions, PutOffOnce(k)
  PROVE  (\A r : PutOff(k, r)' <=> PutOff(k, r)) /\ PutOffOnce(k)'
BY DEF PutOff, PutOffOnce

LEMMA OtherPutOff ==
  ASSUME NEW k, NEW pd, Appended(pd), PutOffOnce(k), pd.kind # k
  PROVE  (\A r : PutOff(k, r)' <=> PutOff(k, r)) /\ PutOffOnce(k)'
BY AppendedPutOff

(* What a step does to the storage: a resource that stops existing was put   *)
(* off frames_in_flight frames ago, or earlier if a call of create_frame_set *)
(* has thrown since, or the manager goes.                                    *)
Releases ==
  \A k \in Kinds : \A r \in live[k] \ live'[k] :
    \E i \in DOMAIN pending_destructions :
      LET pd == pending_destructions[i]
          late == global_frame_counter' - pd.requested_at_frame - frames_in_flight
      IN /\ pd.kind = k /\ pd.resource = r
         /\ \/ late >= 0 /\ (late > 0 => set_failures > 0)
            \/ phase' = "destroyed"

LEMMA FlushReleases ==
  ASSUME RInv, NEW d \in 0 .. Len(pending_destructions), Flushed(d),
         \/ phase' = "destroyed"
         \/ /\ global_frame_counter' = global_frame_counter + 1
            /\ \A n \in 1 .. d : Due(pending_destructions[n], global_frame_counter + 1)
  PROVE  Releases
<1> DEFINE late(i) ==
      global_frame_counter' - pending_destructions[i].requested_at_frame - frames_in_flight
<1> SUFFICES ASSUME NEW k \in Kinds, NEW r \in live[k] \ live'[k]
             PROVE  \E i \in DOMAIN pending_destructions :
                      /\ pending_destructions[i].kind = k
                      /\ pending_destructions[i].resource = r
                      /\ \/ late(i) >= 0 /\ (late(i) > 0 => set_failures > 0)
                         \/ phase' = "destroyed"
  BY DEF Releases
<1>1. PICK n \in 1 .. d : pending_destructions[n].kind = k /\ pending_destructions[n].resource = r
  BY DEF Flushed, Freeds
<1>2. PendingTypes /\ PhaseTypes /\ FrameTypes /\ Times
  BY TypesAre DEF RInv, SInv, AInv
<1>3. n \in DOMAIN pending_destructions
  BY <1>2 DEF PendingTypes
<1>4. ASSUME global_frame_counter' = global_frame_counter + 1,
             Due(pending_destructions[n], global_frame_counter + 1)
      PROVE  late(n) >= 0 /\ (late(n) > 0 => set_failures > 0)
  <2> DEFINE at == pending_destructions[n].requested_at_frame
  <2>1. pending_destructions[n] \in PendingDestruction
    BY <1>2, <1>3 DEF PendingTypes
  <2>2. /\ at \in Nat /\ global_frame_counter \in Nat /\ frames_in_flight \in Nat
        /\ set_failures \in Nat
    BY <1>2, <2>1, FramesAssumption, BoundsAssumption DEF PendingDestruction, PhaseTypes, FrameTypes
  <2>3. set_failures = 0 => global_frame_counter - at < frames_in_flight
    BY <1>2, <1>3 DEF Times
  <2>4. (global_frame_counter + 1) - at >= frames_in_flight
    BY <1>4, Zenon DEF Due
  <2>5. late(n) = (global_frame_counter + 1) - at - frames_in_flight
    BY <1>4, Zenon
  <2> HIDE DEF at, late
  <2>6. /\ (global_frame_counter + 1) - at - frames_in_flight >= 0
        /\ (global_frame_counter + 1) - at - frames_in_flight > 0 => set_failures > 0
    BY <2>2, <2>3, <2>4
  <2> QED
    BY <2>5, <2>6
<1> HIDE DEF late
<1> QED
  BY <1>1, <1>3, <1>4

LEMMA ResourcesStep ==
  ASSUME RInv, [Next]_vars
  PROVE  RInv' /\ Releases
<1>0. SInv /\ SInv'
  BY SetsStep DEF RInv
<1>1. /\ AInv /\ AInv' /\ TInv /\ SlotTypes /\ StorageTypes /\ PhaseTypes /\ FrameTypes
      /\ Times /\ \A k \in Kinds : Owns(k)
  BY <1>0, TypesAre DEF RInv, SInv, AInv
<1>2. \A k \in Kinds : PutOffOnce(k) /\ live[k] \subseteq 1 .. created[k]
                       /\ held[k] \subseteq live[k] /\ \A r \in held[k] : ~PutOff(k, r)
  BY <1>1 DEF Owns
<1> DEFINE Goal == Times' /\ (\A k \in Kinds : Owns(k)') /\ Releases
<1>3. set_failures' = 0 => set_failures = 0
  BY <1>0, UnfailedStep
<1>4. ASSUME UNCHANGED <<pending_destructions, global_frame_counter>>
      PROVE  Times'
  <2>1. Times
    BY <1>1
  <2> QED
    BY <2>1, <1>3, <1>4 DEF Times
<1>5. ASSUME NEW k \in Kinds, live[k] \subseteq live'[k],
             \A q \in Kinds \ {k} : live'[q] = live[q]
      PROVE  Releases
  BY <1>5 DEF Releases
<1>6. ASSUME NEW k \in Kinds, UNCHANGED pending_destructions,
             \A q \in Kinds \ {k} : /\ live'[q] = live[q] /\ created'[q] = created[q]
                                    /\ held'[q] = held[q] /\ slots'[q] = slots[q]
      PROVE  \A q \in Kinds \ {k} : Owns(q)'
  BY <1>1, <1>2, <1>6, SamePutOff, KeptOwn
<1>7. ASSUME NEW k \in Kinds, NEW pd, Appended(pd), pd.kind = k,
             \A q \in Kinds \ {k} : /\ live'[q] = live[q] /\ created'[q] = created[q]
                                    /\ held'[q] = held[q] /\ slots'[q] = slots[q]
      PROVE  \A q \in Kinds \ {k} : Owns(q)'
  BY <1>1, <1>2, <1>7, OtherPutOff, KeptOwn
<1>8. ASSUME NEW k \in Kinds, NEW name \in Names \union {NoName}, AddBindless(k, name)
      PROVE  Goal
  <2> DEFINE new == created[k] + 1
  <2>1. /\ new \in Resources /\ new \notin live[k] /\ ~PutOff(k, new)
        /\ live[k] \union {new} = live'[k] /\ live'[k] \subseteq 1 .. created'[k]
        /\ \A q \in Kinds \ {k} : live'[q] = live[q] /\ created'[q] = created[q]
    BY <1>8, CreatesOwn DEF AddBindless
  <2>2. UNCHANGED <<held, pending_destructions, global_frame_counter>>
    BY <1>8 DEF AddBindless
  <2>3. Times' /\ Releases
    BY <1>4, <1>5, <2>1, <2>2
  <2>4. CASE Registers(k, new, name)
    <3>1. PICK i \in Indices(k) : Takes(k, i, new, name)
      BY <1>1, <2>4, RegistersEffect
    <3>2. new \notin Registered(k)
      <4>1. new # None
        BY <2>1 DEF Resources, None
      <4> QED
        BY <1>1, <2>1, <4>1 DEF Owns, Registered, Valid, Resource
    <3>3. Owns(k)'
      BY <2>1, <2>2, <3>1, <3>2, TakesOwn
    <3>4. \A q \in Kinds \ {k} : slots'[q] = slots[q]
      BY <1>1, <3>1 DEF Takes, SlotTypes
    <3>5. \A q \in Kinds \ {k} : Owns(q)'
      BY <1>6, <2>1, <2>2, <3>4
    <3> QED
      BY <2>3, <3>3, <3>5
  <2>5. CASE UNCHANGED slotVars
    <3>1. UNCHANGED slots
      BY <2>5 DEF slotVars
    <3>2. Owns(k)'
      BY <1>1, <1>2, <2>1, <2>2, <3>1, SamePutOff, KeptOwn
    <3>3. \A q \in Kinds \ {k} : Owns(q)'
      BY <1>6, <2>1, <2>2, <3>1
    <3> QED
      BY <2>3, <3>2, <3>3
  <2> QED
    BY <1>8, <2>4, <2>5 DEF AddBindless
<1>9. ASSUME NEW k \in Kinds, NEW name \in Names \union {NoName}, NEW r \in held[k],
             Register(k, r, name)
      PROVE  Goal
  <2>1. /\ r \in Resources /\ r \in live[k] /\ ~PutOff(k, r) /\ r \notin Registered(k)
        /\ UNCHANGED <<live, created, held, pending_destructions, global_frame_counter>>
    BY <1>1, <1>2, <1>9 DEF Register, StorageTypes, storageVars
  <2>2. PICK i \in Indices(k) : Takes(k, i, r, name)
    BY <1>1, <1>9, RegistersEffect DEF Register
  <2>3. Owns(k)'
    BY <1>2, <2>1, <2>2, TakesOwn
  <2>4. \A q \in Kinds \ {k} : slots'[q] = slots[q]
    BY <1>1, <2>2 DEF Takes, SlotTypes
  <2>5. \A q \in Kinds \ {k} : Owns(q)'
    BY <1>6, <2>1, <2>4
  <2> QED
    BY <1>4, <1>5, <2>1, <2>3, <2>5
<1>10. ASSUME NEW k \in Kinds, AddResource(k)
      PROVE  Goal
  <2> DEFINE new == created[k] + 1
  <2>1. /\ new \in Resources /\ new \notin live[k] /\ ~PutOff(k, new)
        /\ live[k] \union {new} = live'[k] /\ live'[k] \subseteq 1 .. created'[k]
        /\ \A q \in Kinds \ {k} : live'[q] = live[q] /\ created'[q] = created[q]
    BY <1>10, CreatesOwn DEF AddResource
  <2>2. /\ UNCHANGED <<slots, pending_destructions, global_frame_counter>>
        /\ held'[k] = held[k] \union {new} /\ \A q \in Kinds \ {k} : held'[q] = held[q]
    BY <1>1, <1>10 DEF AddResource, slotVars, StorageTypes
  <2>3. Owns(k)'
    BY <1>1, <1>2, <2>1, <2>2, SamePutOff, KeptOwn
  <2>4. \A q \in Kinds \ {k} : Owns(q)'
    BY <1>6, <2>1, <2>2
  <2> QED
    BY <1>4, <1>5, <2>1, <2>2, <2>3, <2>4
<1>11. ASSUME NEW k \in Kinds, NEW h \in issued[k], NEW r \in Resources \union {None},
              Release(k, h, r), \A q \in Kinds \ {k} : held'[q] = held[q],
              \/ r = None /\ held'[k] = held[k]
              \/ r = Resource(k, h.id) /\ held'[k] = held[k] \ {r}
       PROVE  Goal
  <2>1. h.id \in Indices(k) /\ Vacates(k, h.id, h, r)
    BY <1>1, <1>11, ReleaseEffect
  <2>2. UNCHANGED <<live, created, global_frame_counter>>
    BY <1>11 DEF Release
  <2>3. Appended(Defer(k, r, h.id, NoSet)) /\ Defer(k, r, h.id, NoSet).kind = k
        /\ Defer(k, r, h.id, NoSet).requested_at_frame = global_frame_counter
    BY <2>1 DEF Vacates, Defer
  <2>4. Times'
    BY <1>1, <2>2, <2>3, <1>3, AppendedTimes
  <2>5. Owns(k)'
    BY <1>11, <2>1, <2>2, VacatesOwn
  <2>6. \A q \in Kinds \ {k} : slots'[q] = slots[q]
    BY <1>1, <2>1 DEF Vacates, SlotTypes
  <2>7. \A q \in Kinds \ {k} : Owns(q)'
    BY <1>7, <1>11, <2>2, <2>3, <2>6
  <2> QED
    BY <1>5, <2>2, <2>4, <2>5, <2>7
<1>12. ASSUME NEW k \in Kinds, NEW h \in issued[k], Destroy(k, h)
       PROVE  Goal
  <2>1. h.id \in Indices(k)
    BY <1>1, <1>12, KindsAre DEF Destroy, Release, Resolves, SlotTypes, Indices, Handle
  <2>2. slots[k][h.id].resource \in Resources \union {None}
    BY <1>1, <2>1 DEF SlotTypes, Slot
  <2>3. /\ held'[k] = held[k] \ {slots[k][h.id].resource}
        /\ \A q \in Kinds \ {k} : held'[q] = held[q]
    BY <1>1, <1>12 DEF Destroy, StorageTypes
  <2> QED
    BY <1>11, <1>12, <2>2, <2>3 DEF Destroy, Resource
<1>13. ASSUME NEW k \in Kinds, NEW h \in issued[k], Unregister(k, h)
       PROVE  Goal
  BY <1>11, <1>13 DEF Unregister
<1>14. ASSUME NEW k \in Kinds, NEW r \in held[k], DestroyResource(k, r)
       PROVE  Goal
  <2> DEFINE pd == Defer(k, r, invalid_id, NoSet)
  <2>1. /\ r \in live[k] /\ ~PutOff(k, r) /\ r \notin Registered(k) /\ r \in Resources
        /\ UNCHANGED <<live, created, slots, global_frame_counter>>
        /\ held'[k] = held[k] \ {r} /\ \A q \in Kinds \ {k} : held'[q] = held[q]
    BY <1>1, <1>2, <1>14 DEF DestroyResource, StorageTypes, slotVars
  <2>2. pd \in PendingDestruction
    BY <1>1, NoSetType DEF Defer, PendingDestruction, None, PhaseTypes, StorageTypes
  <2>3. /\ Appended(pd) /\ pd.kind = k /\ pd.resource = r
        /\ pd.requested_at_frame = global_frame_counter
    BY <1>1, <1>14, <2>2, AppendEffect DEF DestroyResource, Defer
  <2> HIDE DEF pd
  <2>4. Times'
    BY <1>1, <2>1, <2>3, <1>3, AppendedTimes
  <2>5. (\A x : PutOff(k, x)' <=> PutOff(k, x) \/ x = r) /\ PutOffOnce(k)'
    BY <1>2, <2>1, <2>3, AppendedPutOff
  <2>6. ASSUME NEW i \in Indices(k), Valid(k, i)'
        PROVE  /\ Resource(k, i)' \in live'[k] /\ ~PutOff(k, Resource(k, i))'
               /\ \A j \in Indices(k) : Resource(k, j)' = Resource(k, i)' => i = j
    <3>1. Valid(k, i) /\ \A j \in Indices(k) : Resource(k, j)' = Resource(k, j)
      BY <2>1, <2>6 DEF Valid, Resource
    <3>2. Resource(k, i) # r
      BY <2>1 DEF Registered, Resource
    <3>3. ~PutOff(k, Resource(k, i))'
      BY <1>1, <2>5, <3>1, <3>2 DEF Owns, PutOff
    <3> QED
      BY <1>1, <2>1, <3>1, <3>3 DEF Owns
  <2>7. /\ \A x \in held'[k] : ~PutOff(k, x)'
        /\ \A x \in Resources : PutOff(k, x)' => x \in live'[k]
        /\ live'[k] \subseteq 1 .. created'[k] /\ held'[k] \subseteq live'[k]
    BY <1>1, <2>1, <2>5 DEF Owns
  <2>8. Owns(k)'
    BY <2>5, <2>6, <2>7 DEF Owns
  <2>9. \A q \in Kinds \ {k} : Owns(q)'
    BY <1>7, <2>1, <2>3
  <2> QED
    BY <1>5, <2>1, <2>4, <2>8, <2>9
<1>15. ASSUME BeginFrame
       PROVE  Goal
  <2>1. /\ global_frame_counter + 1 \in Nat /\ global_frame_counter' = global_frame_counter + 1
        /\ Flush(global_frame_counter + 1, FALSE, {}) /\ UNCHANGED <<created, held>>
    <3>1. global_frame_counter + 1 \in Nat
      BY <1>1 DEF PhaseTypes
    <3> QED
      BY <1>15, <3>1 DEF BeginFrame
  <2>2. PICK d \in 0 .. Len(pending_destructions) :
          /\ \A n \in 1 .. d : Due(pending_destructions[n], global_frame_counter + 1)
          /\ d < Len(pending_destructions) =>
               ~Due(pending_destructions[d + 1], global_frame_counter + 1)
          /\ Flushed(d)
    BY <1>1, <2>1, FlushEffect
  <2>3. Times'
    BY <1>1, <2>1, <2>2, <1>3, FlushedTimes
  <2>4. Releases
    BY <2>1, <2>2, FlushReleases
  <2>5. \A k \in Kinds : Owns(k)'
    BY <2>1, <2>2, FlushedOwn
  <2> QED
    BY <2>3, <2>4, <2>5
<1>16. ASSUME Destruct
       PROVE  Goal
  <2>1. PICK d \in 0 .. Len(pending_destructions) : Flushed(d)
    BY <1>1, <1>16, FlushEffect DEF Destruct, PhaseTypes
  <2>2. UNCHANGED <<created, held, global_frame_counter>> /\ phase' = "destroyed"
    BY <1>16 DEF Destruct
  <2>3. Times'
    BY <1>1, <2>1, <2>2, <1>3, FlushedTimes
  <2>4. Releases
    BY <2>1, <2>2, FlushReleases
  <2>5. \A k \in Kinds : Owns(k)'
    BY <2>1, <2>2, FlushedOwn
  <2> QED
    BY <2>3, <2>4, <2>5
<1>17. ASSUME UNCHANGED <<live, created, held, slots, pending_destructions, global_frame_counter>>
       PROVE  Goal
  <2>1. \A k \in Kinds : Owns(k)'
    BY <1>1, <1>2, <1>17, SamePutOff, KeptOwn
  <2>2. Releases
    BY <1>17 DEF Releases
  <2> QED
    BY <1>4, <1>17, <2>1, <2>2
<1>18. ASSUME UNCHANGED <<live, created, held, slots, global_frame_counter>>,
              pending_destructions' = Append(pending_destructions,
                Defer("set", None, invalid_id, frame_sets[current_frame]))
       PROVE  Goal
  <2> DEFINE pd == Defer("set", None, invalid_id, frame_sets[current_frame])
  <2>1. Appended(pd) /\ pd.requested_at_frame = global_frame_counter /\ pd.kind = "set"
    BY <1>1, <1>18, SetDeferred
  <2> HIDE DEF pd
  <2>2. Times'
    BY <1>1, <1>3, <1>18, <2>1, AppendedTimes
  <2>3. \A k \in Kinds : (\A r : PutOff(k, r)' <=> PutOff(k, r)) /\ PutOffOnce(k)'
    BY <1>2, <2>1, KindsAre, OtherPutOff
  <2>4. \A k \in Kinds : Owns(k)'
    BY <1>1, <1>2, <1>18, <2>3, KeptOwn
  <2>5. Releases
    BY <1>18 DEF Releases
  <2> QED
    BY <2>2, <2>4, <2>5
<1>19. ASSUME WriteDescriptors
       PROVE  Goal
  <2>1. UNCHANGED <<live, created, held, slots, global_frame_counter>>
    BY <1>19 DEF WriteDescriptors, storageVars, slotVars
  <2>2. CASE CreateFrameSet(current_frame)
    BY <1>18, <2>1, <2>2 DEF CreateFrameSet
  <2>3. CASE KeepFrameSet(current_frame)
    BY <1>17, <2>1, <2>3 DEF KeepFrameSet
  <2> QED
    BY <1>19, <2>2, <2>3 DEF WriteDescriptors
<1>20. ASSUME EndFrame
       PROVE  Goal
  BY <1>17, <1>20 DEF EndFrame, storageVars, slotVars
<1>21. ASSUME UNCHANGED vars
       PROVE  Goal
  BY <1>17, <1>21 DEF vars, storageVars, slotVars
<1>22. ASSUME CreateFrameSetThrows
       PROVE  Goal
  BY <1>18, <1>22 DEF CreateFrameSetThrows, storageVars, slotVars
<1>23. ASSUME FlushThrows
       PROVE  Goal
  <2>1. /\ global_frame_counter' = global_frame_counter + 1
        /\ \E d \in 0 .. Len(pending_destructions) :
             /\ \A n \in 1 .. d : Due(pending_destructions[n], global_frame_counter + 1)
             /\ Flushed(d)
    BY <1>1, <1>23, FlushThrowsEffect
  <2>2. PICK d \in 0 .. Len(pending_destructions) :
          /\ \A n \in 1 .. d : Due(pending_destructions[n], global_frame_counter + 1)
          /\ Flushed(d)
    BY <2>1
  <2>3. UNCHANGED <<created, held>> /\ phase' # "destroyed"
    BY <1>23 DEF FlushThrows
  <2>4. set_failures' # 0
    BY <1>0, <1>23, <2>3, UnfailedStep
  <2>5. Times'
    BY <1>1, <2>1, <2>2, <2>4, FlushedTimes
  <2>6. Releases
    BY <2>1, <2>2, FlushReleases
  <2>7. \A k \in Kinds : Owns(k)'
    BY <2>2, <2>3, FlushedOwn
  <2> QED
    BY <2>5, <2>6, <2>7
<1>24. ASSUME DestructThrows
       PROVE  Goal
  BY <1>17, <1>24 DEF DestructThrows, storageVars, slotVars
<1>25. Goal
  BY <1>22, <1>23, <1>24, <1>8, <1>9, <1>10, <1>12, <1>13, <1>14, <1>15, <1>16, <1>19, <1>20, <1>21
  DEF Next, Call, Destroyed
<1> QED
  BY <1>0, <1>25 DEF RInv

-----------------------------------------------------------------------------
(* Every variable has its type.                                             *)
THEOREM TypesAlways == Spec => []TypeOK
<1>1. AInv => TypeOK
  BY DEF AInv, TInv
<1> QED
  BY <1>1, AccountsStart, AccountsStep, PTL DEF Spec

(* Every slot is in use, reusable or waiting for its destruction, and only   *)
(* one of these, once: none is lost and none is handed out twice.            *)
THEOREM SlotsAccounted == Spec => []SlotAccounting
BY AccountsStart, AccountsStep, AccountsSound, PTL DEF Spec

(* A handle resolves until it is destroyed or unregistered and never again,  *)
(* a name leads to the open handle it was given for, and no handle is        *)
(* returned twice.                                                           *)
THEOREM HandlesAlwaysSound == Spec => HandlesSound
<1>1. HInv /\ [Next]_vars =>
        [/\ Resolve'
         /\ \A k \in Kinds : (open'[k] \ open[k]) \intersect issued[k] = {}]_vars
  <2>1. HInv' => Resolve'
    BY HandlesResolve, PTL
  <2> QED
    BY <2>1, HandlesStep
<1> QED
  BY <1>1, HandlesStart, HandlesStep, PTL DEF Spec, HandlesSound

(* What a slot holds exists and what is put off exists; it is destroyed by   *)
(* the begin_frame that comes frames_in_flight frames after it was asked     *)
(* for, or with the manager: never earlier, and later only if a call of      *)
(* create_frame_set has thrown.                                              *)
THEOREM ReleasesOnTime == Spec => ReleasedOnTime
<1>1. RInv /\ [Next]_vars =>
        [/\ Awaited'
         /\ \A k \in Kinds : \A r \in live[k] \ live'[k] :
              \E i \in DOMAIN pending_destructions :
                LET pd == pending_destructions[i]
                    late == global_frame_counter' - pd.requested_at_frame - frames_in_flight
                IN /\ pd.kind = k /\ pd.resource = r
                   /\ \/ late >= 0 /\ (late > 0 => set_failures > 0)
                      \/ phase' = "destroyed"]_vars
  <2>1. RInv' => Awaited'
    BY ResourcesSound, PTL
  <2> QED
    BY <2>1, ResourcesStep DEF Releases
<1> QED
  BY <1>1, ResourcesStart, ResourcesStep, PTL DEF Spec, ReleasedOnTime

(* A frame slot's tables differ from the slots only where a write is         *)
(* pending, and every pending write fits the tables it goes to.              *)
THEOREM TablesAlwaysTrack == Spec => []TablesTrackSlots
BY TablesStart, TablesStep, TablesSound, PTL DEF Spec

-----------------------------------------------------------------------------
(* What frames rely on: what exists when a frame may use it first exists     *)
(* until the frame is frames_in_flight frames old, as long as no call of     *)
(* create_frame_set has thrown.                                              *)

KeptSince(k, r, n) ==
  /\ r \in live[k]
  /\ \A p \in DOMAIN pending_destructions :
       pending_destructions[p].kind = k /\ pending_destructions[p].resource = r =>
         pending_destructions[p].requested_at_frame >= n
SetKeptSince(s, n) ==
  /\ s \in sets
  /\ \A p \in DOMAIN pending_destructions :
       s \in PutOffParts(p) => pending_destructions[p].requested_at_frame >= n
TableKeptSince(f, n) ==
  \A k \in Kinds : \A i \in Indices(k) :
    tables[f][k][i].generation # invalid_id => KeptSince(k, tables[f][k][i].resource, n)

FramesInv == RInv /\ TabInv

LEMMA FramesStart == Init => FramesInv
BY ResourcesStart, TablesStart DEF FramesInv

(* What is put off after a step was put off before, or now.                  *)
LEMMA PendingKept ==
  ASSUME FramesInv, [Next]_vars, phase' # "destroyed", set_failures' = 0
  PROVE  \A p \in DOMAIN pending_destructions' :
           \/ \E q \in DOMAIN pending_destructions :
                pending_destructions'[p] = pending_destructions[q]
           \/ pending_destructions'[p].requested_at_frame = global_frame_counter
<1> DEFINE Goal == \A p \in DOMAIN pending_destructions' :
                     \/ \E q \in DOMAIN pending_destructions :
                          pending_destructions'[p] = pending_destructions[q]
                     \/ pending_destructions'[p].requested_at_frame = global_frame_counter
<1>1. SInv /\ AInv /\ TInv /\ PhaseTypes
  BY TypesAre DEF FramesInv, RInv, SInv, AInv
<1>2. ASSUME NEW pd, Appended(pd), pd.requested_at_frame = global_frame_counter
      PROVE  Goal
  <2> DEFINE len == Len(pending_destructions)
  <2>1. /\ len \in Nat /\ DOMAIN pending_destructions = 1 .. len
        /\ DOMAIN pending_destructions' = 1 .. len + 1
        /\ \A n \in 1 .. len : pending_destructions'[n] = pending_destructions[n]
        /\ pending_destructions'[len + 1] = pd
    BY <1>2 DEF Appended
  <2> HIDE DEF len
  <2>2. \A n \in 1 .. len + 1 : n \in 1 .. len \/ n = len + 1
    BY <2>1
  <2> QED
    BY <1>2, <2>1, <2>2
<1>3. ASSUME NEW d \in 0 .. Len(pending_destructions), Flushed(d),
             \A n \in DOMAIN pending_destructions' :
               pending_destructions'[n] = pending_destructions[n + d]
      PROVE  Goal
  BY <1>3 DEF Flushed, Left
<1>4. CASE BeginFrame
  <2>1. /\ global_frame_counter + 1 \in Nat /\ global_frame_counter' = global_frame_counter + 1
        /\ Flush(global_frame_counter + 1, FALSE, {})
    <3>1. global_frame_counter + 1 \in Nat
      BY <1>1 DEF PhaseTypes
    <3> QED
      BY <1>4, <3>1 DEF BeginFrame
  <2> QED
    BY <1>1, <1>3, <2>1, FlushEffect
<1>5. ~FlushThrows /\ ~CreateFrameSetThrows /\ ~DestructThrows /\ ~Destruct
  BY <1>1, UnfailedStep DEF Destruct
<1>6. CASE WriteDescriptors
  <2> DEFINE pd == Defer("set", None, invalid_id, frame_sets[current_frame])
  <2>1. CASE CreateFrameSet(current_frame)
    <3>1. Appended(pd) /\ pd.requested_at_frame = global_frame_counter
      BY <1>1, <2>1, SetDeferred DEF CreateFrameSet
    <3> QED
      BY <1>2, <3>1
  <2>2. CASE KeepFrameSet(current_frame)
    BY <2>2 DEF KeepFrameSet
  <2> QED
    BY <1>6, <2>1, <2>2 DEF WriteDescriptors
<1> QED
  BY <1>1, <1>2, <1>4, <1>5, <1>6, FrameSteps DEF Defers

(* A part that stops existing was put off frames_in_flight frames ago.       *)
LEMMA SetsReleased ==
  ASSUME FramesInv, [Next]_vars, phase' # "destroyed", set_failures' = 0,
         NEW s \in sets, s \notin sets'
  PROVE  \E p \in DOMAIN pending_destructions :
           /\ s \in PutOffParts(p)
           /\ global_frame_counter' - pending_destructions[p].requested_at_frame >= frames_in_flight
<1>1. SInv /\ AInv /\ PhaseTypes
  BY TypesAre DEF FramesInv, RInv, SInv, AInv
<1>2. BeginFrame
  <2>1. WriteDescriptors => sets \subseteq sets'
    BY DEF WriteDescriptors, CreateFrameSet, KeepFrameSet
  <2>2. ~FlushThrows /\ ~CreateFrameSetThrows /\ ~DestructThrows /\ ~Destruct
    BY <1>1, UnfailedStep DEF Destruct
  <2> QED
    BY <1>1, <2>1, <2>2, FrameSteps
<1>3. /\ global_frame_counter + 1 \in Nat /\ global_frame_counter' = global_frame_counter + 1
      /\ Flush(global_frame_counter + 1, FALSE, {})
  <2>1. global_frame_counter + 1 \in Nat
    BY <1>1 DEF PhaseTypes
  <2> QED
    BY <1>2, <2>1 DEF BeginFrame
<1>4. PICK d \in 0 .. Len(pending_destructions) :
        /\ \A n \in 1 .. d : Due(pending_destructions[n], global_frame_counter + 1)
        /\ sets' = sets \ ({} \union
             UNION {PartsOf(pending_destructions[n].set) : n \in 1 .. d})
  BY <1>1, <1>3, FlushEffect
<1>5. PICK n \in 1 .. d : s \in PutOffParts(n)
  BY <1>4 DEF PutOffParts
<1>6. n \in DOMAIN pending_destructions
  <2>1. pending_destructions \in Seq(PendingDestruction)
    BY <1>1 DEF AInv, TInv, TypeOK
  <2> QED
    BY <1>4, <1>5, <2>1
<1>7. (global_frame_counter + 1) - pending_destructions[n].requested_at_frame >= frames_in_flight
  BY <1>4, <1>5, Zenon DEF Due
<1> QED
  BY <1>3, <1>5, <1>6, <1>7

LEMMA PendingFields ==
  ASSUME FramesInv, NEW p \in DOMAIN pending_destructions
  PROVE  /\ pending_destructions[p].requested_at_frame \in Nat
         /\ global_frame_counter \in Nat /\ frames_in_flight \in Nat
<1>1. pending_destructions \in Seq(PendingDestruction) /\ global_frame_counter \in Nat
  BY TypesAre DEF FramesInv, RInv, SInv, AInv, PendingTypes, PhaseTypes
<1>2. pending_destructions[p] \in PendingDestruction
  BY <1>1
<1> QED
  BY <1>1, <1>2, FramesAssumption DEF PendingDestruction

LEMMA KeptStep ==
  ASSUME FramesInv, [Next]_vars, phase' # "destroyed", set_failures' = 0, NEW n \in Nat,
         n <= global_frame_counter, global_frame_counter' < n + frames_in_flight
  PROVE  /\ \A k \in Kinds : \A r : KeptSince(k, r, n) => KeptSince(k, r, n)'
         /\ \A s : SetKeptSince(s, n) => SetKeptSince(s, n)'
<1>1. Releases
  BY ResourcesStep DEF FramesInv
<1>2. /\ global_frame_counter \in Nat /\ frames_in_flight \in Nat
      /\ global_frame_counter' \in Nat /\ set_failures = 0
  <2>1. AInv' /\ AInv /\ set_failures = 0
    BY AccountsStep, UnfailedStep DEF FramesInv, RInv, SInv
  <2> QED
    BY <2>1, FramesAssumption DEF AInv, TInv, TypeOK
<1>3. ASSUME NEW p \in DOMAIN pending_destructions,
             pending_destructions[p].requested_at_frame >= n
      PROVE  /\ ~(global_frame_counter' - pending_destructions[p].requested_at_frame
                    >= frames_in_flight)
             /\ ~(global_frame_counter' - pending_destructions[p].requested_at_frame
                    - frames_in_flight >= 0)
  BY <1>2, <1>3, PendingFields
<1>4. ASSUME NEW k \in Kinds, NEW r, KeptSince(k, r, n)
      PROVE  KeptSince(k, r, n)'
  <2>1. r \in live'[k]
    BY <1>1, <1>3, <1>4 DEF KeptSince, Releases
  <2>2. ASSUME NEW p \in DOMAIN pending_destructions',
               pending_destructions'[p].kind = k, pending_destructions'[p].resource = r
        PROVE  pending_destructions'[p].requested_at_frame >= n
    BY <1>2, <1>4, <2>2, PendingKept DEF KeptSince
  <2> QED
    BY <2>1, <2>2 DEF KeptSince
<1>5. ASSUME NEW s, SetKeptSince(s, n)
      PROVE  SetKeptSince(s, n)'
  <2>1. s \in sets'
    BY <1>3, <1>5, SetsReleased DEF SetKeptSince
  <2>2. ASSUME NEW p \in DOMAIN pending_destructions', s \in PutOffParts(p)'
        PROVE  pending_destructions'[p].requested_at_frame >= n
    BY <1>2, <1>5, <2>2, PendingKept DEF SetKeptSince, PutOffParts
  <2> QED
    BY <2>1, <2>2 DEF SetKeptSince
<1> QED
  BY <1>4, <1>5

LEMMA FramesStep ==
  ASSUME FramesInv, [Next]_vars
  PROVE  FramesInv'
BY ResourcesStep, TablesStep DEF FramesInv

(* Nor does it matter to what exists if the phase is left for another.       *)
LEMMA PhaseKept ==
  ASSUME FramesInv, phase # "destroyed", phase' = "outside",
         UNCHANGED <<storageVars, slotVars, pending_destructions, global_frame_counter,
                     pending_writes, frameVars, sets, current_frame>>
  PROVE  FramesInv'
<1>1. AInv'
  BY DEF FramesInv, RInv, SInv, AInv, TInv, TypeOK, storageVars, slotVars, frameVars, FreeOnce,
         Accounted, InFree, InPending, Valid
<1>2. SetsInv'
  BY DEF FramesInv, RInv, SInv, SetsInv, SetsWhole, SetParts, PutOffParts, frameVars
<1>3. Times' /\ \A k \in Kinds : Owns(k)'
  BY DEF FramesInv, RInv, Times, Owns, Valid, Resource, PutOff, PutOffOnce, storageVars, slotVars,
         frameVars
<1>4. (\A k \in Kinds : Fits(k)') /\ \A f \in FrameSlots : Tracks(f)'
  BY DEF FramesInv, TabInv, Fits, Tracks, Says, Valid, slotVars, frameVars
<1> QED
  BY <1>1, <1>2, <1>3, <1>4 DEF FramesInv, RInv, SInv, TabInv

(* What the application can name is not put off, nor is a frame slot's set.  *)
LEMMA UsableKept ==
  ASSUME FramesInv, phase # "destroyed"
  PROVE  /\ \A k \in Kinds : \A r \in (held[k] \union Registered(k)) \ {None} :
              \A n : KeptSince(k, r, n)
         /\ set_failures = 0 =>
              \A f \in FrameSlots : \A s \in PartsOf(frame_sets[f]) : \A n : SetKeptSince(s, n)
<1>1. ASSUME NEW k \in Kinds, NEW r \in (held[k] \union Registered(k)) \ {None}
      PROVE  r \in live[k] /\ ~PutOff(k, r)
  <2>1. Owns(k)
    BY DEF FramesInv, RInv
  <2> QED
    BY <2>1 DEF Owns, Registered, Valid, Resource
<1>2. ASSUME set_failures = 0, NEW f \in FrameSlots, NEW s \in PartsOf(frame_sets[f]), NEW n
      PROVE  SetKeptSince(s, n)
  BY <1>2 DEF FramesInv, RInv, SInv, SetsInv, SetsWhole, SetParts, SetKeptSince
<1> QED
  BY <1>1, <1>2 DEF KeptSince, PutOff

(* The tables write_descriptors leaves lead to what the slots hold.          *)
LEMMA WrittenKept ==
  ASSUME FramesInv, WriteDescriptors
  PROVE  \A n : TableKeptSince(current_frame, n)'
<1>1. FramesInv'
  BY FramesStep DEF Next
<1>2. /\ current_frame \in FrameSlots /\ current_frame' = current_frame
      /\ \A k \in Kinds : pending_writes'[current_frame][k] = {}
  <2>1. WriteTypes /\ current_frame \in FrameSlots
    BY TypesAre DEF FramesInv, RInv, SInv, AInv, PhaseTypes
  <2> QED
    BY <2>1 DEF WriteDescriptors, WriteTypes
<1>3. ASSUME NEW k \in Kinds, NEW i \in Indices(k),
             tables'[current_frame][k][i].generation # invalid_id
      PROVE  Valid(k, i)' /\ tables'[current_frame][k][i].resource = slots'[k][i].resource
  <2>1. Says(tables[current_frame][k][i], k, i)'
    <3>1. \A f \in FrameSlots : Tracks(f)'
      BY <1>1 DEF FramesInv, TabInv
    <3> QED
      BY <1>2, <3>1 DEF Tracks
  <2> QED
    BY <1>2, <1>3, <2>1 DEF Says
<1>4. ASSUME NEW k \in Kinds, NEW i \in Indices(k), NEW n, Valid(k, i)'
      PROVE  KeptSince(k, slots[k][i].resource, n)'
  <2>1. Owns(k)'
    BY <1>1 DEF FramesInv, RInv
  <2> QED
    BY <1>4, <2>1 DEF Owns, PutOff, Resource, KeptSince
<1> QED
  BY <1>2, <1>3, <1>4 DEF TableKeptSince, KeptSince

LEMMA TablesKept ==
  ASSUME FramesInv, [Next]_vars, NEW f \in FrameSlots, ~(WriteDescriptors /\ f = current_frame)
  PROVE  tables'[f] = tables[f]
<1>1. AInv /\ FrameTypes
  BY TypesAre DEF FramesInv, RInv, SInv, AInv
<1>2. CASE WriteDescriptors
  BY <1>1, <1>2 DEF WriteDescriptors, CreateFrameSet, KeepFrameSet, FrameTypes
<1> QED
  BY <1>1, <1>2, FrameSteps DEF FramesKept, BeginFrame, FlushThrows, CreateFrameSetThrows,
                                Destruct, DestructThrows, frameVars
=============================================================================
