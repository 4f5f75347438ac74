--------------------------- MODULE Uploads_proofs ---------------------------
(***************************************************************************)
(* Proofs about Uploads for any devices, extents, layouts, buffer sizes,     *)
(* data, sets of queues and number of failing calls.                         *)
(*                                                                           *)
(* Three functions of the model are recursive: the choice of the families,   *)
(* the number of levels of an extent, and what the recording of the levels   *)
(* has done so far.  Every set of numbers has a least one, so a set that     *)
(* holds 0 and with n also n + 1 holds all (EveryNumber): that is the        *)
(* induction used here.  On top of it come what a barrier, a blit and a      *)
(* queue do with memory, and an invariant with one part per stage of the     *)
(* upload.                                                                   *)
(***************************************************************************)
EXTENDS Uploads, FiniteSetTheorems, SequenceTheorems, WellFoundedInduction, TLAPS

-----------------------------------------------------------------------------
(* Recursion over the natural numbers.                                       *)

Less == {p \in Nat \X Nat : p[1] < p[2]}

LEMMA LessWellFounded == IsWellFoundedOn(Less, Nat)
<1>1. OpToRel(<, Nat) = Less
  BY Zenon DEF OpToRel, Less
<1> QED
  BY <1>1, NatLessThanWellFounded, Zenon

LEMMA Least ==
  ASSUME NEW T, T \subseteq Nat, T # {}
  PROVE  \E x \in T : \A y \in T : x <= y
<1>1. PICK x \in T : \A y \in T : <<y, x>> \notin Less
  BY LessWellFounded, WFMin, Zenon
<1>2. ASSUME NEW y \in T
      PROVE  x <= y
  <2>1. x \in Nat /\ y \in Nat /\ <<y, x>> \notin Less
    BY <1>1
  <2>2. ~(y < x)
    BY <2>1 DEF Less
  <2> QED
    BY <2>1, <2>2
<1> QED
  BY <1>2

(* Induction over a set of numbers.                                          *)
LEMMA EveryNumber ==
  ASSUME NEW S, 0 \in S, \A n \in Nat : n \in S => n + 1 \in S
  PROVE  Nat \subseteq S
<1> SUFFICES ASSUME Nat \ S # {}
             PROVE  FALSE
  OBVIOUS
<1>1. PICK x \in Nat \ S : \A y \in Nat \ S : x <= y
  BY Least
<1>2. x # 0 /\ x \in Nat /\ x - 1 \in Nat
  BY <1>1
<1>3. x - 1 \in S
  BY <1>1, <1>2
<1>4. (x - 1) + 1 = x
  BY <1>2
<1> QED
  BY <1>1, <1>2, <1>3, <1>4

(* A function that is defined by recursion exists.                           *)
Follows(f, n, base, G) ==
  f = [m \in 0 .. n |-> IF m = 0 THEN base ELSE G[m][f[m - 1]]]

LEMMA RecursionExists ==
  ASSUME NEW N \in Nat, NEW C, NEW base \in C, NEW G \in [1 .. N -> [C -> C]]
  PROVE  \E f \in [0 .. N -> C] : Follows(f, N, base, G)
<1> DEFINE S == {n \in Nat : n <= N => \E f \in [0 .. n -> C] : Follows(f, n, base, G)}
<1>1. 0 \in S
  <2> DEFINE f == [m \in 0 .. 0 |-> base]
  <2>1. f \in [0 .. 0 -> C]
    OBVIOUS
  <2>2. Follows(f, 0, base, G)
    BY DEF Follows
  <2> QED
    BY <2>1, <2>2
<1>2. ASSUME NEW n \in Nat, n \in S
      PROVE  n + 1 \in S
  <2> SUFFICES ASSUME n + 1 <= N
               PROVE  \E f \in [0 .. n + 1 -> C] : Follows(f, n + 1, base, G)
    BY DEF S
  <2>1. PICK f \in [0 .. n -> C] : Follows(f, n, base, G)
    BY <1>2
  <2> DEFINE g == [m \in 0 .. n + 1 |-> IF m = n + 1 THEN G[n + 1][f[n]] ELSE f[m]]
  <2>2. n + 1 \in 1 .. N /\ n \in 0 .. n /\ f[n] \in C
    BY <2>1
  <2>3. G[n + 1] \in [C -> C] /\ G[n + 1][f[n]] \in C
    BY <2>2
  <2>4. g \in [0 .. n + 1 -> C]
    BY <2>1, <2>3
  <2>5. ASSUME NEW m \in 0 .. n + 1
        PROVE  g[m] = IF m = 0 THEN base ELSE G[m][g[m - 1]]
    <3>1. CASE m = n + 1
      <4>1. m # 0 /\ m - 1 = n /\ n # n + 1 /\ n \in 0 .. n + 1
        BY <3>1
      <4>2. g[n] = f[n] /\ g[m] = G[n + 1][f[n]]
        BY <3>1, <4>1
      <4> QED
        BY <3>1, <4>1, <4>2
    <3>2. CASE m # n + 1 /\ m = 0
      <4>1. 0 \in 0 .. n
        OBVIOUS
      <4>2. f[0] = base
        BY <2>1, <4>1 DEF Follows
      <4> QED
        BY <3>2, <4>2
    <3>3. CASE m # n + 1 /\ m # 0
      <4>1. m \in 0 .. n /\ m - 1 \in 0 .. n + 1 /\ m - 1 # n + 1
        BY <3>3
      <4>2. g[m] = f[m] /\ g[m - 1] = f[m - 1]
        BY <3>3, <4>1
      <4>3. f[m] = G[m][f[m - 1]]
        BY <2>1, <3>3, <4>1 DEF Follows
      <4> QED
        BY <3>3, <4>2, <4>3
    <3> QED
      BY <3>1, <3>2, <3>3
  <2>6. Follows(g, n + 1, base, G)
    <3> HIDE DEF g
    <3>1. DOMAIN g = 0 .. n + 1 /\ g = [m \in DOMAIN g |-> g[m]]
      BY <2>4
    <3> QED
      BY <2>5, <3>1 DEF Follows
  <2> QED
    BY <2>4, <2>6
<1>3. N \in S
  <2> HIDE DEF S
  <2> QED
    BY <1>1, <1>2, EveryNumber
<1> QED
  BY <1>3

(* What Levels says below n determines what it says at n, and so does Levels *)
(* exist.                                                                    *)
Counts(f, n) == f = [m \in 0 .. n |-> IF m <= 1 THEN 1 ELSE 1 + f[m \div 2]]

LEMMA Halves ==
  ASSUME NEW n \in Nat, n > 1
  PROVE  n \div 2 \in Nat /\ n \div 2 < n /\ n \div 2 >= 1
OBVIOUS

LEMMA CountsAgree ==
  ASSUME NEW a \in Nat, NEW b \in Nat, a <= b,
         NEW f, Counts(f, a), NEW g, Counts(g, b)
  PROVE  \A m \in 0 .. a : f[m] = g[m]
<1> DEFINE S == {n \in Nat : \A m \in 0 .. a : m <= n => f[m] = g[m]}
<1>1. \A m \in 0 .. a : f[m] = IF m <= 1 THEN 1 ELSE 1 + f[m \div 2]
  BY DEF Counts
<1>2. \A m \in 0 .. a : g[m] = IF m <= 1 THEN 1 ELSE 1 + g[m \div 2]
  <2>1. \A m \in 0 .. b : g[m] = IF m <= 1 THEN 1 ELSE 1 + g[m \div 2]
    BY DEF Counts
  <2>2. 0 .. a \subseteq 0 .. b
    OBVIOUS
  <2> QED
    BY <2>1, <2>2
<1>3. 0 \in S
  <2>1. ASSUME NEW m \in 0 .. a, m <= 0
        PROVE  f[m] = g[m]
    BY <1>1, <1>2, <2>1
  <2> QED
    BY <2>1
<1>4. ASSUME NEW n \in Nat, n \in S
      PROVE  n + 1 \in S
  <2>1. ASSUME NEW m \in 0 .. a, m <= n + 1
        PROVE  f[m] = g[m]
    <3>1. CASE m <= 1
      BY <1>1, <1>2, <3>1
    <3>2. CASE m > 1
      <4>1. m \div 2 \in 0 .. a /\ m \div 2 <= n
        BY <2>1, <3>2, Halves
      <4>2. f[m \div 2] = g[m \div 2]
        BY <1>4, <4>1
      <4> QED
        BY <1>1, <1>2, <3>2, <4>2
    <3> QED
      BY <3>1, <3>2
  <2> QED
    BY <2>1
<1>5. a \in S
  <2> HIDE DEF S
  <2> QED
    BY <1>3, <1>4, EveryNumber
<1> QED
  BY <1>5

LEMMA CountsExists ==
  ASSUME NEW n \in Nat
  PROVE  \E f : Counts(f, n)
<1> DEFINE S == {k \in Nat : \E f : Counts(f, k)}
<1>1. 0 \in S
  <2> DEFINE f == [m \in 0 .. 0 |-> 1]
  <2>1. Counts(f, 0)
    BY DEF Counts
  <2> QED
    BY <2>1
<1>2. ASSUME NEW k \in Nat, k \in S
      PROVE  k + 1 \in S
  <2>1. PICK f : Counts(f, k)
    BY <1>2
  <2> DEFINE c == IF k + 1 <= 1 THEN 1 ELSE 1 + f[(k + 1) \div 2]
             g == [m \in 0 .. k + 1 |-> IF m = k + 1 THEN c ELSE f[m]]
  <2>2. ASSUME NEW m \in 0 .. k + 1
        PROVE  g[m] = IF m <= 1 THEN 1 ELSE 1 + g[m \div 2]
    <3>1. CASE m <= 1
      <4>1. CASE m = k + 1
        BY <3>1, <4>1
      <4>2. CASE m # k + 1
        <5>1. m \in 0 .. k
          BY <4>2
        <5>2. f[m] = 1
          BY <2>1, <3>1, <5>1 DEF Counts
        <5> QED
          BY <3>1, <4>2, <5>2
      <4> QED
        BY <4>1, <4>2
    <3>2. CASE m > 1
      <4> DEFINE h == m \div 2
      <4>1. h \in 0 .. k + 1 /\ h # k + 1
        BY <3>2, Halves
      <4>2. g[h] = f[h]
        BY <4>1
      <4>3. g[m] = 1 + f[h]
        <5>1. CASE m = k + 1
          BY <3>2, <5>1
        <5>2. CASE m # k + 1
          <6>1. m \in 0 .. k /\ ~(m <= 1)
            BY <3>2, <5>2
          <6>2. f[m] = 1 + f[h]
            BY <2>1, <6>1 DEF Counts
          <6> QED
            BY <5>2, <6>2
        <5> QED
          BY <5>1, <5>2
      <4> HIDE DEF g, h
      <4>4. ~(m <= 1)
        BY <3>2
      <4> QED
        BY <4>2, <4>3, <4>4 DEF h
    <3> QED
      BY <3>1, <3>2
  <2>3. Counts(g, k + 1)
    <3>1. g = [m \in 0 .. k + 1 |-> g[m]]
      OBVIOUS
    <3> HIDE DEF g
    <3> QED
      BY <2>2, <3>1 DEF Counts
  <2> QED
    BY <2>3
<1>3. n \in S
  <2> HIDE DEF S
  <2> QED
    BY <1>1, <1>2, EveryNumber
<1> QED
  BY <1>3

(* Hence Levels is what its definition says.                                 *)
LEMMA LevelsIs ==
  ASSUME NEW n \in Nat
  PROVE  Levels[n] = IF n <= 1 THEN 1 ELSE 1 + Levels[n \div 2]
<1> DEFINE Upto(k) == CHOOSE f : Counts(f, k)
           L == [k \in Nat |-> Upto(k)[k]]
<1>1. ASSUME NEW k \in Nat
      PROVE  Counts(Upto(k), k)
  BY CountsExists, Zenon
<1>2. ASSUME NEW k \in Nat
      PROVE  L[k] = IF k <= 1 THEN 1 ELSE 1 + L[k \div 2]
  <2>1. Upto(k)[k] = IF k <= 1 THEN 1 ELSE 1 + Upto(k)[k \div 2]
    <3> HIDE DEF Upto
    <3>1. k \in 0 .. k
      OBVIOUS
    <3> QED
      BY <1>1, <3>1 DEF Counts
  <2>2. CASE k <= 1
    BY <2>1, <2>2
  <2>3. CASE k > 1
    <3> DEFINE h == k \div 2
    <3>1. h \in Nat /\ h <= k /\ h \in 0 .. h
      BY <2>3, Halves
    <3>2. Upto(h)[h] = Upto(k)[h]
      <4> HIDE DEF Upto, h
      <4> QED
        BY <1>1, <3>1, CountsAgree
    <3>3. L[k] = Upto(k)[k] /\ L[h] = Upto(h)[h]
      BY <3>1
    <3>4. ~(k <= 1)
      BY <2>3
    <3> HIDE DEF L, Upto
    <3> QED
      BY <2>1, <3>2, <3>3, <3>4
  <2> QED
    BY <2>2, <2>3
<1>3. L = [k \in Nat |-> IF k <= 1 THEN 1 ELSE 1 + L[k \div 2]]
  <2>1. L = [k \in Nat |-> L[k]]
    OBVIOUS
  <2> HIDE DEF L
  <2> QED
    BY <1>2, <2>1
<1>4. Levels = [k \in Nat |-> IF k <= 1 THEN 1 ELSE 1 + Levels[k \div 2]]
  <2> HIDE DEF L
  <2>1. \E f : f = [k \in Nat |-> IF k <= 1 THEN 1 ELSE 1 + f[k \div 2]]
    BY <1>3
  <2> QED
    BY <2>1 DEF Levels
<1> QED
  BY <1>4

LEMMA LevelsFit ==
  ASSUME NEW n \in Nat
  PROVE  Levels[n] \in Nat /\ Levels[n] >= 1
<1> DEFINE S == {k \in Nat : \A m \in 0 .. k : Levels[m] \in Nat /\ Levels[m] >= 1}
<1>1. 0 \in S
  BY LevelsIs
<1>2. ASSUME NEW k \in Nat, k \in S
      PROVE  k + 1 \in S
  <2>1. ASSUME NEW m \in 0 .. k + 1
        PROVE  Levels[m] \in Nat /\ Levels[m] >= 1
    <3>1. CASE m <= 1
      BY <3>1, LevelsIs
    <3>2. CASE m > 1
      <4>1. m \div 2 \in 0 .. k
        BY <3>2, Halves
      <4>2. Levels[m \div 2] \in Nat /\ Levels[m \div 2] >= 1
        BY <1>2, <4>1
      <4>3. Levels[m] = 1 + Levels[m \div 2]
        BY <3>2, LevelsIs
      <4> QED
        BY <4>2, <4>3
    <3> QED
      BY <3>1, <3>2
  <2> QED
    BY <2>1
<1>3. n \in S
  <2> HIDE DEF S
  <2> QED
    BY <1>1, <1>2, EveryNumber
<1> QED
  BY <1>3

-----------------------------------------------------------------------------
(* get of a set of queues.                                                   *)

Same(indices, k) == {j \in QueueKinds : indices[j] = indices[k]}

(* A mask has its own kind, and only kinds of the same family.               *)
Masking(indices, masks) ==
  /\ masks \in [QueueKinds -> SUBSET QueueKinds]
  /\ \A k \in QueueKinds : k \in masks[k] /\ masks[k] \subseteq Same(indices, k)

Grown(masks, more) == \A k \in QueueKinds : masks[k] \subseteq more[k]

LEMMA MergeMasks ==
  ASSUME NEW indices, NEW masks, Masking(indices, masks),
         NEW a \in QueueKinds, NEW b \in QueueKinds, a # b
  PROVE  LET more == Merge(masks, indices, a, b)
         IN /\ Masking(indices, more)
            /\ Grown(masks, more)
            /\ indices[a] = indices[b] => a \in more[b] /\ b \in more[a]
<1> DEFINE more == Merge(masks, indices, a, b)
<1>1. CASE indices[a] # indices[b]
  <2>1. more = masks
    BY <1>1 DEF Merge
  <2> QED
    BY <1>1, <2>1 DEF Grown
<1>2. CASE indices[a] = indices[b]
  <2>1. masks \in [QueueKinds -> SUBSET QueueKinds]
    BY DEF Masking
  <2>2. more = [k \in QueueKinds |-> IF k = a THEN masks[a] \union masks[b]
                                    ELSE IF k = b THEN masks[b] \union masks[a]
                                    ELSE masks[k]]
    <3>1. more = [masks EXCEPT ![a] = @ \union masks[b], ![b] = @ \union masks[a]]
      BY <1>2 DEF Merge
    <3> HIDE DEF more
    <3> QED
      BY <2>1, <3>1
  <2> HIDE DEF more
  <2>3. Same(indices, a) = Same(indices, b)
    BY <1>2 DEF Same
  <2>4. ASSUME NEW k \in QueueKinds
        PROVE  /\ masks[k] \subseteq more[k]
               /\ more[k] \subseteq Same(indices, k)
               /\ more[k] \subseteq QueueKinds
    BY <2>1, <2>2, <2>3 DEF Masking
  <2>5. more \in [QueueKinds -> SUBSET QueueKinds]
    BY <2>2, <2>4
  <2>6. a \in masks[a] /\ b \in masks[b]
    BY DEF Masking
  <2>7. a \in more[b] /\ b \in more[a]
    BY <2>2, <2>6
  <2>8. Masking(indices, more)
    BY <2>4, <2>5 DEF Masking
  <2> QED
    BY <2>4, <2>7, <2>8 DEF Grown, more
<1> QED
  BY <1>1, <1>2

LEMMA MasksExact ==
  ASSUME NEW indices, NEW k \in QueueKinds
  PROVE  Masks(indices)[k] = Same(indices, k)
<1> DEFINE m0 == [j \in QueueKinds |-> {j}]
           m1 == Merge(m0, indices, "graphics", "compute")
           m2 == Merge(m1, indices, "graphics", "transfer")
           m3 == Merge(m2, indices, "graphics", "present")
           m4 == Merge(m3, indices, "compute", "transfer")
           m5 == Merge(m4, indices, "compute", "present")
           m6 == Merge(m5, indices, "transfer", "present")
           Together(m, a, b) == indices[a] = indices[b] => a \in m[b] /\ b \in m[a]
<1>1. Masks(indices) = m6
  BY DEF Masks
<1>2. Masking(indices, m0)
  BY DEF Masking, Same
<1> HIDE DEF m0
<1>3. Masking(indices, m1) /\ Together(m1, "graphics", "compute")
  BY <1>2, MergeMasks DEF QueueKinds
<1> HIDE DEF m1
<1>4. Masking(indices, m2) /\ Together(m2, "graphics", "transfer") /\ Grown(m1, m2)
  BY <1>3, MergeMasks DEF QueueKinds
<1> HIDE DEF m2
<1>5. Masking(indices, m3) /\ Together(m3, "graphics", "present") /\ Grown(m2, m3)
  BY <1>4, MergeMasks DEF QueueKinds
<1> HIDE DEF m3
<1>6. Masking(indices, m4) /\ Together(m4, "compute", "transfer") /\ Grown(m3, m4)
  BY <1>5, MergeMasks DEF QueueKinds
<1> HIDE DEF m4
<1>7. Masking(indices, m5) /\ Together(m5, "compute", "present") /\ Grown(m4, m5)
  BY <1>6, MergeMasks DEF QueueKinds
<1> HIDE DEF m5
<1>8. Masking(indices, m6) /\ Together(m6, "transfer", "present") /\ Grown(m5, m6)
  BY <1>7, MergeMasks DEF QueueKinds
<1> HIDE DEF m6
<1>9. ASSUME NEW a \in QueueKinds, NEW b \in QueueKinds, indices[a] = indices[b]
      PROVE  a \in m6[b]
  <2>1. a \in m6[a]
    BY <1>8 DEF Masking
  <2>2. \A j \in QueueKinds : /\ m1[j] \subseteq m6[j] /\ m2[j] \subseteq m6[j]
                             /\ m3[j] \subseteq m6[j] /\ m4[j] \subseteq m6[j]
                             /\ m5[j] \subseteq m6[j]
    BY <1>4, <1>5, <1>6, <1>7, <1>8 DEF Grown
  <2> QED
    BY <1>3, <1>4, <1>5, <1>6, <1>7, <1>8, <1>9, <2>1, <2>2 DEF QueueKinds
<1> QED
  BY <1>1, <1>8, <1>9 DEF Masking, Same

(* The families found so far are those of the kinds that were looked at, and *)
(* what is left are the kinds whose families were not found.                 *)
Taking(indices, queues, kinds, got) ==
  /\ got.found \in Seq(Nat)
  /\ IsInjective(got.found)
  /\ ToSet(got.found) = {indices[k] : k \in queues \intersect kinds} \ {0}
  /\ got.queues = {k \in queues : indices[k] \notin ToSet(got.found)}

LEMMA ToSetAppend ==
  ASSUME NEW s \in Seq(Nat), NEW e \in Nat
  PROVE  /\ ToSet(Append(s, e)) = ToSet(s) \union {e}
         /\ IsInjective(s) /\ e \notin ToSet(s) => IsInjective(Append(s, e))
<1>1. Len(s) \in Nat /\ DOMAIN s = 1 .. Len(s)
  OBVIOUS
<1>2. /\ Append(s, e) \in Seq(Nat)
      /\ Len(Append(s, e)) = Len(s) + 1
      /\ \A i \in 1 .. Len(s) : Append(s, e)[i] = s[i]
      /\ Append(s, e)[Len(s) + 1] = e
  BY AppendProperties
<1> DEFINE t == Append(s, e)
<1>3. DOMAIN t = 1 .. Len(s) + 1
  BY <1>2
<1> HIDE DEF t
<1>4. \A i \in 1 .. Len(s) : t[i] = s[i]
  BY <1>2 DEF t
<1>5. t[Len(s) + 1] = e
  BY <1>2 DEF t
<1>6. ToSet(t) = ToSet(s) \union {e}
  <2>1. ASSUME NEW x \in ToSet(t)
        PROVE  x \in ToSet(s) \union {e}
    <3>1. PICK i \in DOMAIN t : x = t[i]
      BY DEF ToSet
    <3> QED
      BY <1>1, <1>3, <1>4, <1>5, <3>1 DEF ToSet
  <2>2. ASSUME NEW x \in ToSet(s) \union {e}
        PROVE  x \in ToSet(t)
    <3>1. CASE x = e
      BY <1>1, <1>3, <1>5, <3>1 DEF ToSet
    <3>2. CASE x \in ToSet(s)
      <4>1. PICK i \in DOMAIN s : x = s[i]
        BY <3>2 DEF ToSet
      <4>2. i \in DOMAIN t /\ x = t[i]
        BY <1>1, <1>3, <1>4, <4>1
      <4> QED
        BY <4>2 DEF ToSet
    <3> QED
      BY <3>1, <3>2
  <2> QED
    BY <2>1, <2>2
<1>7. ASSUME IsInjective(s), e \notin ToSet(s)
      PROVE  IsInjective(t)
  <2>1. ASSUME NEW i \in DOMAIN t, NEW j \in DOMAIN t, t[i] = t[j]
        PROVE  i = j
    <3>1. \A k \in 1 .. Len(s) : s[k] # e
      BY <1>1, <1>7 DEF ToSet
    <3>2. CASE i \in 1 .. Len(s) /\ j \in 1 .. Len(s)
      BY <1>1, <1>4, <1>7, <2>1, <3>2 DEF IsInjective
    <3>3. CASE i \notin 1 .. Len(s) \/ j \notin 1 .. Len(s)
      BY <1>1, <1>3, <1>4, <1>5, <2>1, <3>1, <3>3
    <3> QED
      BY <3>2, <3>3
  <2> QED
    BY <2>1 DEF IsInjective
<1> QED
  BY <1>6, <1>7 DEF t

LEMMA TakeKind ==
  ASSUME NEW indices \in [QueueKinds -> Nat], NEW queues \in SUBSET QueueKinds,
         NEW kinds \in SUBSET QueueKinds, NEW kind \in QueueKinds, NEW got,
         Taking(indices, queues, kinds, got)
  PROVE  Taking(indices, queues, kinds \union {kind}, Take(got, indices, kind))
<1> DEFINE Found(ks) == {indices[k] : k \in queues \intersect ks} \ {0}
<1>1. CASE kind \in got.queues /\ indices[kind] # 0
  <2> DEFINE found == Append(got.found, indices[kind])
  <2>1. Take(got, indices, kind) =
          [found |-> found, queues |-> got.queues \ Masks(indices)[kind]]
    BY <1>1 DEF Take
  <2>2. /\ got.found \in Seq(Nat)
        /\ indices[kind] \in Nat
        /\ kind \in queues
        /\ indices[kind] \notin ToSet(got.found)
        /\ IsInjective(got.found)
    BY <1>1 DEF Taking
  <2>3. found \in Seq(Nat) /\ IsInjective(found) /\ ToSet(found) = ToSet(got.found) \union {indices[kind]}
    BY <2>2, ToSetAppend, AppendProperties
  <2> HIDE DEF found
  <2>4. ToSet(found) = Found(kinds \union {kind})
    BY <1>1, <2>2, <2>3 DEF Taking
  <2>5. got.queues \ Masks(indices)[kind] = {k \in queues : indices[k] \notin ToSet(found)}
    BY <2>3, MasksExact DEF Taking, Same
  <2> QED
    BY <2>1, <2>3, <2>4, <2>5 DEF Taking
<1>2. CASE ~(kind \in got.queues /\ indices[kind] # 0)
  <2>1. Take(got, indices, kind) = got
    BY <1>2 DEF Take
  <2>2. kind \in queues /\ indices[kind] # 0 => indices[kind] \in ToSet(got.found)
    BY <1>2 DEF Taking
  <2>3. Found(kinds) = Found(kinds \union {kind})
    BY <2>2 DEF Taking
  <2> QED
    BY <2>1, <2>3 DEF Taking
<1> QED
  BY <1>1, <1>2

LEMMA GetExact ==
  ASSUME NEW indices \in [QueueKinds -> Nat]
  PROVE  GetIsExact(indices)
<1> SUFFICES ASSUME NEW queues \in SUBSET QueueKinds
             PROVE  /\ IsInjective(GetQueues(indices, queues))
                    /\ Families(indices, queues) = {indices[k] : k \in queues} \ {0}
  BY DEF GetIsExact
<1> DEFINE got == [found |-> <<>>, queues |-> queues]
           drawing == Take(got, indices, "graphics")
           computing == Take(drawing, indices, "compute")
           moving == Take(computing, indices, "transfer")
           presenting == Take(moving, indices, "present")
<1>1. Taking(indices, queues, {}, got)
  BY DEF Taking, ToSet, IsInjective
<1> HIDE DEF got
<1>2. Taking(indices, queues, {"graphics"}, drawing)
  <2>1. {} \union {"graphics"} = {"graphics"} /\ "graphics" \in QueueKinds
    BY DEF QueueKinds
  <2>2. Taking(indices, queues, {} \union {"graphics"}, drawing)
    BY <1>1, <2>1, TakeKind
  <2> QED
    BY <2>1, <2>2
<1> HIDE DEF drawing
<1>3. Taking(indices, queues, {"graphics", "compute"}, computing)
  <2>1. {"graphics"} \union {"compute"} = {"graphics", "compute"} /\ "compute" \in QueueKinds
        /\ {"graphics"} \subseteq QueueKinds
    BY DEF QueueKinds
  <2>2. Taking(indices, queues, {"graphics"} \union {"compute"}, computing)
    BY <1>2, <2>1, TakeKind
  <2> QED
    BY <2>1, <2>2
<1> HIDE DEF computing
<1>4. Taking(indices, queues, {"graphics", "compute", "transfer"}, moving)
  <2>1. /\ {"graphics", "compute"} \union {"transfer"} = {"graphics", "compute", "transfer"}
        /\ "transfer" \in QueueKinds /\ {"graphics", "compute"} \subseteq QueueKinds
    BY DEF QueueKinds
  <2>2. Taking(indices, queues, {"graphics", "compute"} \union {"transfer"}, moving)
    BY <1>3, <2>1, TakeKind
  <2> QED
    BY <2>1, <2>2
<1> HIDE DEF moving
<1>5. Taking(indices, queues, QueueKinds, presenting)
  <2>1. /\ {"graphics", "compute", "transfer"} \union {"present"} = QueueKinds
        /\ "present" \in QueueKinds /\ {"graphics", "compute", "transfer"} \subseteq QueueKinds
    BY DEF QueueKinds
  <2>2. Taking(indices, queues, {"graphics", "compute", "transfer"} \union {"present"}, presenting)
    BY <1>4, <2>1, TakeKind
  <2> QED
    BY <2>1, <2>2
<1>6. GetQueues(indices, queues) = presenting.found
  BY DEF GetQueues, got, drawing, computing, moving
<1> HIDE DEF presenting
<1>7. queues \intersect QueueKinds = queues
  OBVIOUS
<1> QED
  BY <1>5, <1>6, <1>7 DEF Taking, Families

-----------------------------------------------------------------------------
(* The choice of the families.                                               *)

Chosen == [indices: [QueueKinds -> Nat], scores: [QueueKinds -> Nat]]

LEMMA ScoreFits ==
  ASSUME NEW family \in Family, NEW kind
  PROVE  /\ QueueScore(family, kind) \in Nat
         /\ kind \in family.flags => QueueScore(family, kind) >= 1
<1>1. IsFiniteSet(Flags)
  <2>1. IsFiniteSet({})
    BY FS_EmptySet
  <2>2. IsFiniteSet({} \union {"graphics"})
    BY <2>1, FS_AddElement
  <2>3. IsFiniteSet({} \union {"graphics"} \union {"compute"})
    BY <2>2, FS_AddElement
  <2>4. IsFiniteSet({} \union {"graphics"} \union {"compute"} \union {"protected"})
    BY <2>3, FS_AddElement
  <2>5. IsFiniteSet({} \union {"graphics"} \union {"compute"} \union {"protected"} \union {"transfer"})
    BY <2>4, FS_AddElement
  <2>6. IsFiniteSet({} \union {"graphics"} \union {"compute"} \union {"protected"} \union {"transfer"}
                    \union {"sparse"})
    BY <2>5, FS_AddElement
  <2>7. Flags = {} \union {"graphics"} \union {"compute"} \union {"protected"} \union {"transfer"}
                  \union {"sparse"}
    BY DEF Flags
  <2> QED
    BY <2>6, <2>7
<1>2. IsFiniteSet(Flags \ family.flags)
  BY <1>1, FS_Difference
<1>3. Cardinality(Flags \ family.flags) \in Nat
  BY <1>2, FS_CardinalityType
<1> QED
  BY <1>3 DEF QueueScore

(* Of one kind: the better one of what was chosen and the family.            *)
BetterOf(old, new, kind, i, score) ==
  IF old.scores[kind] < score
  THEN new.indices[kind] = i /\ new.scores[kind] = score
  ELSE new.indices[kind] = old.indices[kind] /\ new.scores[kind] = old.scores[kind]

SameChoice(old, new, kinds) ==
  \A k \in kinds : new.indices[k] = old.indices[k] /\ new.scores[k] = old.scores[k]

LEMMA ChooseIs ==
  ASSUME NEW c \in Chosen, NEW kind \in QueueKinds, NEW i \in Nat, NEW score \in Nat
  PROVE  /\ Choose(c, kind, i, score) \in Chosen
         /\ Choose(c, kind, i, score).indices[kind] = i
         /\ Choose(c, kind, i, score).scores[kind] = score
         /\ SameChoice(c, Choose(c, kind, i, score), QueueKinds \ {kind})
<1>1. c.indices \in [QueueKinds -> Nat] /\ c.scores \in [QueueKinds -> Nat]
  BY DEF Chosen
<1>2. Choose(c, kind, i, score) =
        [indices |-> [c.indices EXCEPT ![kind] = i], scores |-> [c.scores EXCEPT ![kind] = score]]
  BY DEF Choose
<1> QED
  BY <1>1, <1>2 DEF Chosen, SameChoice

LEMMA ImproveIs ==
  ASSUME NEW c \in Chosen, NEW kind \in QueueKinds, NEW i \in Nat, NEW family \in Family
  PROVE  /\ Improve(c, kind, i, family) \in Chosen
         /\ BetterOf(c, Improve(c, kind, i, family), kind, i, QueueScore(family, kind))
         /\ SameChoice(c, Improve(c, kind, i, family), QueueKinds \ {kind})
<1>1. QueueScore(family, kind) \in Nat
  BY ScoreFits
<1>2. CASE c.scores[kind] < QueueScore(family, kind)
  <2>1. Improve(c, kind, i, family) = Choose(c, kind, i, QueueScore(family, kind))
    BY <1>2 DEF Improve
  <2> QED
    BY <1>1, <1>2, <2>1, ChooseIs DEF BetterOf
<1>3. CASE ~(c.scores[kind] < QueueScore(family, kind))
  <2>1. Improve(c, kind, i, family) = c
    BY <1>3 DEF Improve
  <2> QED
    BY <1>3, <2>1 DEF BetterOf, SameChoice
<1> QED
  BY <1>2, <1>3

(* The family that presents: it may change to one that presents, and there   *)
(* is one as soon as a family presents.                                      *)
PresentOf(old, new, i, family) ==
  /\ \/ new.indices.present = old.indices.present /\ new.scores.present = old.scores.present
     \/ new.indices.present = i /\ new.scores.present # 0 /\ family.present
  /\ family.present => new.scores.present # 0

LEMMA PresentIs ==
  ASSUME NEW c \in Chosen, NEW i \in Nat, NEW family \in Family
  PROVE  LET d == PresentWithGraphics(FirstPresent(c, i, family), i, family)
         IN /\ d \in Chosen
            /\ PresentOf(c, d, i, family)
            /\ SameChoice(c, d, QueueKinds \ {"present"})
<1> DEFINE f == FirstPresent(c, i, family)
           d == PresentWithGraphics(f, i, family)
<1>1. "present" \in QueueKinds /\ 1 \in Nat /\ 2 \in Nat
  BY DEF QueueKinds
<1>2. f \in Chosen /\ PresentOf(c, f, i, family) /\ SameChoice(c, f, QueueKinds \ {"present"})
  <2>1. CASE family.present /\ c.scores.present = 0
    <3>1. f = Choose(c, "present", i, 1)
      BY <2>1 DEF FirstPresent
    <3>2. f \in Chosen /\ f.indices["present"] = i /\ f.scores["present"] = 1
          /\ SameChoice(c, f, QueueKinds \ {"present"})
      BY <1>1, <3>1, ChooseIs
    <3> QED
      BY <2>1, <3>2 DEF PresentOf
  <2>2. CASE ~(family.present /\ c.scores.present = 0)
    <3>1. f = c
      BY <2>2 DEF FirstPresent
    <3> QED
      BY <2>2, <3>1 DEF PresentOf, SameChoice
  <2> QED
    BY <2>1, <2>2
<1> HIDE DEF f
<1>3. d \in Chosen /\ PresentOf(c, d, i, family) /\ SameChoice(f, d, QueueKinds \ {"present"})
  <2> DEFINE better == /\ f.scores.graphics < QueueScore(family, "graphics")
                       /\ family.present
                       /\ f.scores.present < 2
  <2>1. CASE better
    <3>1. d = Choose(f, "present", i, 2)
      BY <2>1 DEF PresentWithGraphics
    <3>2. d \in Chosen /\ d.indices["present"] = i /\ d.scores["present"] = 2
          /\ SameChoice(f, d, QueueKinds \ {"present"})
      BY <1>1, <1>2, <3>1, ChooseIs
    <3> QED
      BY <2>1, <3>2 DEF PresentOf
  <2>2. CASE ~better
    <3>1. d = f
      BY <2>2 DEF PresentWithGraphics
    <3> QED
      BY <1>2, <3>1 DEF SameChoice
  <2> QED
    BY <2>1, <2>2
<1>4. SameChoice(c, d, QueueKinds \ {"present"})
  BY <1>2, <1>3 DEF SameChoice
<1> QED
  BY <1>3, <1>4 DEF f

(* What considering a family does, kind by kind.                             *)
Considered(old, new, i, family) ==
  /\ \A k \in QueueKinds \ {"present"} : BetterOf(old, new, k, i, QueueScore(family, k))
  /\ PresentOf(old, new, i, family)

LEMMA ConsiderIs ==
  ASSUME NEW c \in Chosen, NEW i \in Nat, NEW family \in Family
  PROVE  Consider(c, i, family) \in Chosen /\ Considered(c, Consider(c, i, family), i, family)
<1> DEFINE presenting == PresentWithGraphics(FirstPresent(c, i, family), i, family)
           drawing == Improve(presenting, "graphics", i, family)
           computing == Improve(drawing, "compute", i, family)
           transferring == Improve(computing, "transfer", i, family)
<1>0. {"graphics", "compute", "transfer", "present"} = QueueKinds
  BY DEF QueueKinds
<1>1. Consider(c, i, family) = transferring
  BY DEF Consider
<1>2. /\ presenting \in Chosen
      /\ PresentOf(c, presenting, i, family)
      /\ SameChoice(c, presenting, QueueKinds \ {"present"})
  BY PresentIs
<1> HIDE DEF presenting
<1>3. /\ drawing \in Chosen
      /\ BetterOf(presenting, drawing, "graphics", i, QueueScore(family, "graphics"))
      /\ SameChoice(presenting, drawing, QueueKinds \ {"graphics"})
  BY <1>0, <1>2, ImproveIs
<1> HIDE DEF drawing
<1>4. /\ computing \in Chosen
      /\ BetterOf(drawing, computing, "compute", i, QueueScore(family, "compute"))
      /\ SameChoice(drawing, computing, QueueKinds \ {"compute"})
  BY <1>0, <1>3, ImproveIs
<1> HIDE DEF computing
<1>5. /\ transferring \in Chosen
      /\ BetterOf(computing, transferring, "transfer", i, QueueScore(family, "transfer"))
      /\ SameChoice(computing, transferring, QueueKinds \ {"transfer"})
  BY <1>0, <1>4, ImproveIs
<1> HIDE DEF transferring
<1>6. BetterOf(c, transferring, "graphics", i, QueueScore(family, "graphics"))
  BY <1>0, <1>2, <1>3, <1>4, <1>5 DEF BetterOf, SameChoice
<1>7. BetterOf(c, transferring, "compute", i, QueueScore(family, "compute"))
  BY <1>0, <1>2, <1>3, <1>4, <1>5 DEF BetterOf, SameChoice
<1>8. BetterOf(c, transferring, "transfer", i, QueueScore(family, "transfer"))
  BY <1>0, <1>2, <1>3, <1>4, <1>5 DEF BetterOf, SameChoice
<1>9. PresentOf(c, transferring, i, family)
  <2>1. /\ transferring.indices["present"] = presenting.indices["present"]
        /\ transferring.scores["present"] = presenting.scores["present"]
    BY <1>0, <1>3, <1>4, <1>5 DEF SameChoice
  <2> QED
    BY <1>2, <2>1 DEF PresentOf
<1> QED
  BY <1>0, <1>1, <1>5, <1>6, <1>7, <1>8, <1>9 DEF Considered

(* What holds of the choice among the first n families.                      *)
BestFor(offered_families, n, c, k) ==
  /\ \A j \in 1 .. n : QueueScore(offered_families[j], k) <= c.scores[k]
  /\ c.indices[k] \in 0 .. n
  /\ c.indices[k] = 0 => c.scores[k] = 0
  /\ c.indices[k] # 0 =>
       /\ c.scores[k] = QueueScore(offered_families[c.indices[k]], k)
       /\ \A j \in 1 .. c.indices[k] - 1 : QueueScore(offered_families[j], k) < c.scores[k]

PresentFor(offered_families, n, c) ==
  /\ c.indices.present \in 0 .. n
  /\ c.scores.present = 0 => \A j \in 1 .. n : ~offered_families[j].present
  /\ IF c.indices.present = 0 THEN c.scores.present = 0
     ELSE offered_families[c.indices.present].present

BestOf(offered_families, n, c) ==
  /\ \A k \in QueueKinds \ {"present"} : BestFor(offered_families, n, c, k)
  /\ PresentFor(offered_families, n, c)

LEMMA BestForNext ==
  ASSUME NEW fs \in Seq(Family), NEW n \in Nat, n + 1 <= Len(fs), NEW k \in QueueKinds,
         NEW c \in Chosen, NEW d \in Chosen, BestFor(fs, n, c, k),
         BetterOf(c, d, k, n + 1, QueueScore(fs[n + 1], k))
  PROVE  BestFor(fs, n + 1, d, k)
<1> DEFINE Score(j) == QueueScore(fs[j], k)
<1>1. \A j \in 1 .. Len(fs) : Score(j) \in Nat
  <2>1. \A j \in 1 .. Len(fs) : fs[j] \in Family
    OBVIOUS
  <2> QED
    BY <2>1, ScoreFits
<1>2. Len(fs) \in Nat /\ n + 1 \in 1 .. Len(fs) /\ 1 .. n \subseteq 1 .. Len(fs)
  OBVIOUS
<1>3. c.scores[k] \in Nat /\ d.scores[k] \in Nat /\ c.indices[k] \in Nat /\ d.indices[k] \in Nat
  BY DEF Chosen
<1>4. /\ \A j \in 1 .. n : Score(j) <= c.scores[k]
      /\ c.indices[k] \in 0 .. n
      /\ c.indices[k] = 0 => c.scores[k] = 0
      /\ c.indices[k] # 0 => c.scores[k] = Score(c.indices[k])
      /\ c.indices[k] # 0 => \A j \in 1 .. c.indices[k] - 1 : Score(j) < c.scores[k]
  BY DEF BestFor
<1>5. IF c.scores[k] < Score(n + 1)
      THEN d.indices[k] = n + 1 /\ d.scores[k] = Score(n + 1)
      ELSE d.indices[k] = c.indices[k] /\ d.scores[k] = c.scores[k]
  BY DEF BetterOf
<1> SUFFICES /\ \A j \in 1 .. n + 1 : Score(j) <= d.scores[k]
             /\ d.indices[k] \in 0 .. n + 1
             /\ d.indices[k] = 0 => d.scores[k] = 0
             /\ d.indices[k] # 0 => d.scores[k] = Score(d.indices[k])
             /\ d.indices[k] # 0 => \A j \in 1 .. d.indices[k] - 1 : Score(j) < d.scores[k]
  BY DEF BestFor
<1> HIDE DEF Score
<1>6. CASE c.scores[k] < Score(n + 1)
  <2>1. (n + 1) - 1 = n /\ n + 1 # 0 /\ n + 1 \in 0 .. n + 1
    OBVIOUS
  <2>2. d.indices[k] = n + 1 /\ d.scores[k] = Score(n + 1)
    BY <1>5, <1>6
  <2>3. \A j \in 1 .. n : Score(j) < Score(n + 1)
    BY <1>1, <1>2, <1>3, <1>4, <1>6
  <2>4. \A j \in 1 .. n + 1 : j = n + 1 \/ j \in 1 .. n
    OBVIOUS
  <2>5. \A j \in 1 .. n + 1 : Score(j) <= Score(n + 1)
    BY <1>1, <1>2, <2>3, <2>4
  <2> QED
    BY <2>1, <2>2, <2>3, <2>5
<1>7. CASE ~(c.scores[k] < Score(n + 1))
  <2>2. d.indices[k] = c.indices[k] /\ d.scores[k] = c.scores[k]
    BY <1>5, <1>7
  <2>3. Score(n + 1) <= c.scores[k]
    BY <1>1, <1>2, <1>3, <1>7
  <2>4. \A j \in 1 .. n + 1 : j = n + 1 \/ j \in 1 .. n
    OBVIOUS
  <2>5. \A j \in 1 .. n + 1 : Score(j) <= c.scores[k]
    BY <1>4, <2>3, <2>4
  <2> QED
    BY <1>4, <2>2, <2>5
<1> QED
  BY <1>6, <1>7

LEMMA BestNext ==
  ASSUME NEW fs \in Seq(Family), NEW n \in Nat, n + 1 <= Len(fs),
         NEW c \in Chosen, BestOf(fs, n, c)
  PROVE  BestOf(fs, n + 1, Consider(c, n + 1, fs[n + 1]))
<1> DEFINE d == Consider(c, n + 1, fs[n + 1])
<1>1. n + 1 \in Nat /\ fs[n + 1] \in Family
  OBVIOUS
<1>2. d \in Chosen /\ Considered(c, d, n + 1, fs[n + 1])
  BY <1>1, ConsiderIs
<1> HIDE DEF d
<1>3. ASSUME NEW k \in QueueKinds \ {"present"}
      PROVE  BestFor(fs, n + 1, d, k)
  <2>1. BetterOf(c, d, k, n + 1, QueueScore(fs[n + 1], k))
    BY <1>2 DEF Considered
  <2>2. BestFor(fs, n, c, k)
    BY DEF BestOf
  <2> QED
    BY <1>2, <2>1, <2>2, BestForNext
<1>4. PresentFor(fs, n + 1, d)
  <2>1. PresentOf(c, d, n + 1, fs[n + 1]) /\ PresentFor(fs, n, c)
    BY <1>2 DEF Considered, BestOf
  <2>2. \A j \in 1 .. n + 1 : j = n + 1 \/ j \in 1 .. n
    OBVIOUS
  <2>3. n + 1 # 0 /\ n + 1 \in 0 .. n + 1 /\ 0 .. n \subseteq 0 .. n + 1
    OBVIOUS
  <2> QED
    BY <2>1, <2>2, <2>3 DEF PresentOf, PresentFor
<1> QED
  BY <1>3, <1>4 DEF BestOf, d

LEMMA ChoicesExist ==
  ASSUME NEW fs \in Seq(Family)
  PROVE  /\ BestOfFirst(fs) \in [0 .. Len(fs) -> Chosen]
         /\ BestOfFirst(fs)[0] = NoChoice
         /\ \A n \in 1 .. Len(fs) :
              BestOfFirst(fs)[n] = Consider(BestOfFirst(fs)[n - 1], n, fs[n])
<1> DEFINE G == [n \in 1 .. Len(fs) |-> [c \in Chosen |-> Consider(c, n, fs[n])]]
           Recursive(f) ==
             f = [n \in 0 .. Len(fs) |-> IF n = 0 THEN NoChoice ELSE Consider(f[n - 1], n, fs[n])]
<1>1. Len(fs) \in Nat
  OBVIOUS
<1>2. NoChoice \in Chosen
  BY DEF NoChoice, Chosen
<1>3. ASSUME NEW n \in 1 .. Len(fs), NEW c \in Chosen
      PROVE  Consider(c, n, fs[n]) \in Chosen
  <2>1. n \in Nat /\ fs[n] \in Family
    OBVIOUS
  <2> QED
    BY <2>1, ConsiderIs
<1>4. G \in [1 .. Len(fs) -> [Chosen -> Chosen]]
  BY <1>3
<1>5. \A n \in 1 .. Len(fs) : \A c \in Chosen : G[n][c] = Consider(c, n, fs[n])
  OBVIOUS
<1> HIDE DEF G
<1>6. PICK f \in [0 .. Len(fs) -> Chosen] : Follows(f, Len(fs), NoChoice, G)
  BY <1>1, <1>2, <1>4, RecursionExists
<1>7. ASSUME NEW n \in 0 .. Len(fs), n # 0
      PROVE  G[n][f[n - 1]] = Consider(f[n - 1], n, fs[n])
  <2>1. n \in 1 .. Len(fs) /\ n - 1 \in 0 .. Len(fs)
    BY <1>7
  <2>2. f[n - 1] \in Chosen
    BY <2>1
  <2> QED
    BY <1>5, <2>1, <2>2
<1>8. Recursive(f)
  BY <1>6, <1>7 DEF Follows
<1>9. Recursive(BestOfFirst(fs))
  <2>1. BestOfFirst(fs) = CHOOSE g : Recursive(g)
    BY DEF BestOfFirst
  <2> HIDE DEF Recursive
  <2> QED
    BY <1>8, <2>1
<1> DEFINE best == BestOfFirst(fs)
<1>10. DOMAIN best = 0 .. Len(fs)
  BY <1>9
<1>11. best[0] = NoChoice
  <2>1. 0 \in 0 .. Len(fs)
    BY <1>1
  <2> QED
    BY <1>9, <2>1
<1>12. \A n \in 1 .. Len(fs) : best[n] = Consider(best[n - 1], n, fs[n])
  <2>1. \A n \in 1 .. Len(fs) : n \in 0 .. Len(fs) /\ n # 0
    OBVIOUS
  <2> QED
    BY <1>9, <2>1
<1> HIDE DEF best
<1>13. best \in [0 .. Len(fs) -> Chosen]
  <2> DEFINE S == {n \in Nat : n <= Len(fs) => best[n] \in Chosen}
  <2>1. 0 \in S
    BY <1>2, <1>11
  <2>2. ASSUME NEW n \in Nat, n \in S
        PROVE  n + 1 \in S
    <3> SUFFICES ASSUME n + 1 <= Len(fs)
                 PROVE  best[n + 1] \in Chosen
      OBVIOUS
    <3>1. best[n] \in Chosen
      BY <1>1, <2>2
    <3>2. n + 1 \in 1 .. Len(fs) /\ (n + 1) - 1 = n
      OBVIOUS
    <3> QED
      BY <1>3, <1>12, <3>1, <3>2
  <2> HIDE DEF S
  <2>3. Nat \subseteq S
    BY <2>1, <2>2, EveryNumber
  <2>4. \A n \in 0 .. Len(fs) : best[n] \in Chosen
    BY <2>3 DEF S
  <2>5. best = [n \in 0 .. Len(fs) |-> best[n]]
    BY <1>9 DEF best
  <2> QED
    BY <2>4, <2>5
<1> QED
  BY <1>11, <1>12, <1>13 DEF best

(* The families chosen are the most specialised ones, and presenting.        *)
LEMMA IndicesBest ==
  ASSUME NEW fs \in Seq(Family)
  PROVE  Indices(fs) \in [QueueKinds -> Nat] /\ ChoiceIsBest(fs, Indices(fs))
<1> DEFINE best == BestOfFirst(fs)
           S == {n \in Nat : n <= Len(fs) => BestOf(fs, n, best[n])}
<1>0. Len(fs) \in Nat /\ DOMAIN fs = 1 .. Len(fs) /\ \A j \in 1 .. Len(fs) : fs[j] \in Family
  OBVIOUS
<1>1. /\ best \in [0 .. Len(fs) -> Chosen]
      /\ best[0] = NoChoice
      /\ \A n \in 1 .. Len(fs) : best[n] = Consider(best[n - 1], n, fs[n])
  BY ChoicesExist
<1>2. 0 \in S
  <2>1. BestOf(fs, 0, NoChoice)
    BY DEF BestOf, BestFor, PresentFor, NoChoice, QueueKinds
  <2> QED
    BY <1>1, <2>1
<1> HIDE DEF best
<1>3. ASSUME NEW n \in Nat, n \in S
      PROVE  n + 1 \in S
  <2> SUFFICES ASSUME n + 1 <= Len(fs)
               PROVE  BestOf(fs, n + 1, best[n + 1])
    OBVIOUS
  <2>1. n \in 0 .. Len(fs) /\ n + 1 \in 1 .. Len(fs) /\ (n + 1) - 1 = n /\ n <= Len(fs)
    BY <1>0
  <2>2. BestOf(fs, n, best[n]) /\ best[n] \in Chosen
    BY <1>1, <1>3, <2>1
  <2>3. best[n + 1] = Consider(best[n], n + 1, fs[n + 1])
    BY <1>1, <2>1
  <2> QED
    BY <2>2, <2>3, BestNext
<1>4. BestOf(fs, Len(fs), best[Len(fs)]) /\ best[Len(fs)] \in Chosen
  <2> HIDE DEF S
  <2>1. Nat \subseteq S
    BY <1>2, <1>3, EveryNumber
  <2>2. Len(fs) \in 0 .. Len(fs)
    BY <1>0
  <2> QED
    BY <1>0, <1>1, <2>1, <2>2 DEF S
<1> DEFINE c == best[Len(fs)]
<1>5. Indices(fs) = c.indices
  BY DEF Indices, best
<1> HIDE DEF c
<1>6. c \in Chosen /\ BestOf(fs, Len(fs), c)
  BY <1>4 DEF c
<1>7. ASSUME NEW k \in QueueKinds \ {"present"}
      PROVE  IF c.indices[k] = 0 THEN \A j \in DOMAIN fs : k \notin fs[j].flags
             ELSE FirstBest(fs, k, c.indices[k])
  <2>1. BestFor(fs, Len(fs), c, k)
    BY <1>6 DEF BestOf
  <2>2. CASE c.indices[k] = 0
    <3>1. ASSUME NEW j \in DOMAIN fs, k \in fs[j].flags
          PROVE  FALSE
      <4>1. QueueScore(fs[j], k) \in Nat /\ QueueScore(fs[j], k) >= 1
        BY <1>0, <3>1, ScoreFits
      <4>2. QueueScore(fs[j], k) <= 0
        BY <1>0, <2>1, <2>2 DEF BestFor
      <4> QED
        BY <4>1, <4>2
    <3> QED
      BY <2>2, <3>1
  <2>3. CASE c.indices[k] # 0
    BY <1>0, <2>1, <2>3 DEF BestFor, FirstBest
  <2> QED
    BY <2>2, <2>3
<1>8. IF c.indices.present = 0 THEN \A j \in DOMAIN fs : ~fs[j].present
      ELSE fs[c.indices.present].present
  BY <1>0, <1>6 DEF BestOf, PresentFor
<1>9. ChoiceIsBest(fs, c.indices)
  BY <1>7, <1>8 DEF ChoiceIsBest
<1>10. c.indices \in [QueueKinds -> Nat]
  BY <1>6 DEF Chosen
<1> QED
  BY <1>5, <1>9, <1>10

-----------------------------------------------------------------------------
(* The inductive invariant.                                                  *)

LayoutKinds == Layouts \union {"undefined", "general", "transfer_dst", "transfer_src", "shader_read"}
Steps == {"none", "upload", "reduce", "prepare", "finish", "live"}
DeviceImages(n) ==
  [layouts: [1 .. n -> LayoutKinds], contents: [1 .. n -> {"data", Undefined}],
   shared: SUBSET Nat, owner: Nat]

(* Nothing is constructed without the families, which are the best ones.     *)
FamiliesInv ==
  /\ offered \in Seq(Family)
  /\ families = NotCreated => step = "none" /\ buffer = NotCreated
  /\ families # NotCreated =>
       /\ families \in [QueueKinds -> Nat]
       /\ families["graphics"] # 0 /\ families["transfer"] # 0
       /\ offered # <<>> => ChoiceIsBest(offered, families)

(* As long as no call fails, command buffers are ready and nothing is lost.  *)
CommandsInv ==
  /\ failures \in Nat
  /\ invalid \subseteq {"begin"}
  /\ one_time_cbs \in [OneTimeTypes -> {"ready", "recording"}]
  /\ failures = 0 =>
       /\ invalid = {}
       /\ \A t \in OneTimeTypes : one_time_cbs[t] = "ready"
       /\ leaked \subseteq {"replaced sampler"}

(* Memory belongs to nobody, or to a family it is shared by.                 *)
OwnerFits(memory) == memory.owner \in {0} \union memory.shared

(* The levels a device image has, of which mip_levels are counted.           *)
DeviceLevels == IF settings.has_data THEN MipLevels(extent) ELSE mip_levels

SettingsInv ==
  /\ step \in Steps
  /\ step = "none" => image = NotCreated /\ tmp_image = NotCreated /\ ~view /\ ~sampler
  /\ step # "none" =>
       /\ settings \in Settings /\ Legal(settings)
       /\ SamplerRefused(settings) => failures # 0
       /\ extent \in (Nat \ {0}) \X (Nat \ {0})
       /\ mip_levels \in Nat \ {0}
       /\ mip_levels <= DeviceLevels

(* The upload has put the data into the first level of its image.            *)
UploadingInv ==
  step = "upload" =>
    /\ settings.has_data
    /\ extent = settings.extent /\ mip_levels = UsedLevels(settings)
    /\ IF Reduces
       THEN /\ tmp_image \in DeviceImages(1)
            /\ tmp_image.layouts[1] = "general" /\ tmp_image.contents[1] = "data"
            /\ tmp_image.shared = SharedBy(TemporaryQueues) /\ tmp_image.owner = 0
       ELSE /\ tmp_image = NotCreated
            /\ image \in DeviceImages(DeviceLevels)
            /\ \A l \in 1 .. mip_levels : image.layouts[l] = "general"
            /\ image.contents[1] = "data"
            /\ image.shared = SharedBy(settings.queues) /\ image.owner = 0

ReducingInv ==
  step = "reduce" =>
    /\ settings.has_data
    /\ extent = settings.extent /\ mip_levels = UsedLevels(settings)
    /\ Reduces
    /\ tmp_image \in DeviceImages(1)
    /\ tmp_image.layouts[1] = "transfer_dst" /\ tmp_image.contents[1] = "data"
    /\ tmp_image.shared = SharedBy(TemporaryQueues)
    /\ tmp_image.owner = families["transfer"]

(* An image that families of the upload share keeps what it was given.       *)
Visible == {families["graphics"], families["transfer"]} \subseteq image.shared
FullLevels == IF settings.sampled /\ step # "prepare" THEN mip_levels ELSE 1

FilledInv ==
  step \in {"prepare", "finish", "live"} =>
    /\ tmp_image = NotCreated
    /\ image \in DeviceImages(DeviceLevels)
    /\ image.shared = SharedBy(settings.queues)
    /\ layout \in LayoutKinds
    /\ \A l \in 1 .. mip_levels : image.layouts[l] = layout
    /\ settings.has_data =>
         /\ layout # "undefined"
         /\ Visible => /\ OwnerFits(image)
                       /\ \A l \in 1 .. FullLevels : image.contents[l] = "data"

PreparingInv ==
  /\ step = "prepare" =>
       /\ settings.has_data
       /\ layout = "transfer_dst"
       /\ mip_levels > 1 => settings.filterable
  /\ step = "finish" => settings.has_data /\ settings.sampled

ImageInv == SettingsInv /\ UploadingInv /\ ReducingInv /\ FilledInv /\ PreparingInv

(* A buffer that the host reaches has what the host wrote.                   *)
Reachable == host_visible \/ families["transfer"] \in buffer.shared
BufferTypes ==
  [contents: Seq(Data \union {Undefined}), shared: SUBSET Nat, owner: Nat, copies: BOOLEAN]

HeldInv ==
  /\ buffer = NotCreated => transfer = NotCreated /\ obtained = NotCreated
  /\ buffer # NotCreated =>
       /\ buffer \in BufferTypes
       /\ written \in Seq(Data \union {Undefined})
       /\ buffer_queues \subseteq QueueKinds
       /\ buffer.shared = SharedBy(buffer_queues)
       /\ host_visible \in BOOLEAN
       /\ buffer.copies = ~host_visible
       /\ Reachable => buffer.contents = written /\ OwnerFits(buffer)
       /\ Reachable /\ obtained # NotCreated => obtained.read = obtained.expected

(* The staging buffer of a write has the bytes of its span.                  *)
StagedInv ==
  /\ staging # NotCreated <=> transfer # NotCreated
  /\ transfer # NotCreated =>
       /\ ~host_visible
       /\ transfer.span \in Spans
       /\ transfer.direction = "HostToBuffer" =>
            transfer.data \in Data /\ staging = [n \in 1 .. transfer.span.count |-> transfer.data]

BufferInv == HeldInv /\ StagedInv

IInv == FamiliesInv /\ CommandsInv /\ ImageInv /\ BufferInv

-----------------------------------------------------------------------------
(* Memory.                                                                   *)

LEMMA SharedIs ==
  ASSUME families \in [QueueKinds -> Nat], NEW queues \in SUBSET QueueKinds
  PROVE  SharedBy(queues) = {families[k] : k \in queues} \ {0} /\ SharedBy(queues) \subseteq Nat
<1>1. SharedBy(queues) = {families[k] : k \in queues} \ {0}
  BY GetExact DEF GetIsExact, SharedBy
<1> QED
  BY <1>1

LEMMA LoneFamily ==
  ASSUME families \in [QueueKinds -> Nat], NEW queues \in SUBSET QueueKinds,
         Cardinality(SharedBy(queues)) = 1
  PROVE  \E f : SharedBy(queues) = {f}
<1> DEFINE all == {} \union {families["graphics"]} \union {families["compute"]}
                    \union {families["transfer"]} \union {families["present"]}
<1>1. SharedBy(queues) \subseteq all
  BY SharedIs DEF QueueKinds
<1>2. IsFiniteSet(all)
  <2>1. IsFiniteSet({} \union {families["graphics"]})
    BY FS_EmptySet, FS_AddElement
  <2>2. IsFiniteSet({} \union {families["graphics"]} \union {families["compute"]})
    BY <2>1, FS_AddElement
  <2>3. IsFiniteSet({} \union {families["graphics"]} \union {families["compute"]}
                    \union {families["transfer"]})
    BY <2>2, FS_AddElement
  <2> QED
    BY <2>3, FS_AddElement
<1> HIDE DEF all
<1>3. IsFiniteSet(SharedBy(queues))
  BY <1>1, <1>2, FS_Subset
<1> QED
  BY <1>3, FS_Singleton

LEMMA Keeps ==
  ASSUME families \in [QueueKinds -> Nat], NEW queues \in SUBSET QueueKinds, NEW memory,
         memory.shared = SharedBy(queues), OwnerFits(memory),
         NEW kind \in QueueKinds, families[kind] \in memory.shared
  PROVE  ~Loses(memory, kind)
<1>1. CASE Cardinality(memory.shared) = 1
  <2>1. PICK f : memory.shared = {f}
    BY <1>1, LoneFamily
  <2> QED
    BY <1>1, <2>1 DEF Loses, OwnerFits
<1>2. CASE Cardinality(memory.shared) # 1
  BY <1>2 DEF Loses
<1> QED
  BY <1>1, <1>2

AcquiredImage(n, kind, before, after) ==
  /\ after \in DeviceImages(n)
  /\ after.layouts = before.layouts
  /\ after.shared = before.shared
  /\ after.owner = families[kind]
  /\ ~Loses(before, kind) => after.contents = before.contents

LEMMA AcquireImage ==
  ASSUME families \in [QueueKinds -> Nat], NEW n \in Nat, NEW memory \in DeviceImages(n),
         NEW kind \in QueueKinds
  PROVE  AcquiredImage(n, kind, memory, Acquire(memory, kind))
<1> DEFINE contents == IF Loses(memory, kind) THEN [l \in DOMAIN memory.contents |-> Undefined]
                       ELSE memory.contents
<1>1. memory.contents \in [1 .. n -> {"data", Undefined}]
  BY DEF DeviceImages
<1>2. contents \in [1 .. n -> {"data", Undefined}]
  BY <1>1
<1>3. Acquire(memory, kind) = [memory EXCEPT !.owner = families[kind], !.contents = contents]
  BY DEF Acquire
<1>4. ~Loses(memory, kind) => contents = memory.contents
  OBVIOUS
<1> HIDE DEF contents
<1> QED
  BY <1>2, <1>3, <1>4 DEF AcquiredImage, DeviceImages

BarrierDone(n, levels, old, new, before, after) ==
  /\ after \in DeviceImages(n)
  /\ \A l \in 1 .. n : after.layouts[l] = IF l \in levels THEN new ELSE before.layouts[l]
  /\ after.shared = before.shared
  /\ after.owner = before.owner
  /\ old # "undefined" => after.contents = before.contents

LEMMA BarrierIs ==
  ASSUME NEW n \in Nat, NEW memory \in DeviceImages(n), NEW levels,
         NEW old, NEW new \in LayoutKinds
  PROVE  BarrierDone(n, levels, old, new, memory, Barrier(memory, levels, old, new))
<1> DEFINE layouts == [l \in 1 .. n |-> IF l \in levels THEN new ELSE memory.layouts[l]]
           contents == [l \in 1 .. n |-> IF l \in levels /\ old = "undefined" THEN Undefined
                                         ELSE memory.contents[l]]
<1>1. /\ memory.contents \in [1 .. n -> {"data", Undefined}]
      /\ memory.layouts \in [1 .. n -> LayoutKinds]
  BY DEF DeviceImages
<1>2. contents \in [1 .. n -> {"data", Undefined}] /\ layouts \in [1 .. n -> LayoutKinds]
  BY <1>1
<1>3. Barrier(memory, levels, old, new) =
        [memory EXCEPT !.layouts = layouts, !.contents = contents]
  <2>1. DOMAIN memory.contents = 1 .. n /\ DOMAIN memory.layouts = 1 .. n
    BY <1>1
  <2> QED
    BY <2>1 DEF Barrier
<1>4. old # "undefined" => contents = memory.contents
  BY <1>1
<1>5. \A l \in 1 .. n : layouts[l] = IF l \in levels THEN new ELSE memory.layouts[l]
  OBVIOUS
<1> HIDE DEF contents, layouts
<1> QED
  BY <1>2, <1>3, <1>4, <1>5 DEF BarrierDone, DeviceImages

LEMMA NewImageIs ==
  ASSUME families \in [QueueKinds -> Nat], NEW n \in Nat, NEW queues \in SUBSET QueueKinds
  PROVE  /\ NewImage(n, queues) \in DeviceImages(n)
         /\ \A l \in 1 .. n : NewImage(n, queues).layouts[l] = "undefined"
         /\ NewImage(n, queues).shared = SharedBy(queues)
         /\ NewImage(n, queues).owner = 0
<1>1. SharedBy(queues) \in SUBSET Nat
  BY SharedIs
<1> QED
  BY <1>1 DEF NewImage, DeviceImages, LayoutKinds

-----------------------------------------------------------------------------
(* The commands that transition and blit levels.                             *)

Recordings(n) == [memory: DeviceImages(n), barrier: BOOLEAN, blit: BOOLEAN]

LEMMA GeneratingIs ==
  ASSUME NEW n \in Nat, NEW memory \in DeviceImages(n)
  PROVE  /\ Generating(memory) \in Recordings(n)
         /\ Generating(memory).memory = memory
         /\ Generating(memory).barrier = TRUE
         /\ Generating(memory).blit = TRUE
BY DEF Generating, Recordings

TransitionedTo(n, levels, old, new, before, after) ==
  /\ after \in Recordings(n)
  /\ BarrierDone(n, levels, old, new, before.memory, after.memory)
  /\ before.barrier /\ BarrierValid(before.memory, levels, old) => after.barrier
  /\ before.blit => after.blit

LEMMA TransitionedIs ==
  ASSUME NEW n \in Nat, NEW made \in Recordings(n), NEW levels, NEW old, NEW new \in LayoutKinds
  PROVE  TransitionedTo(n, levels, old, new, made, Transitioned(made, levels, old, new))
<1> DEFINE memory == Barrier(made.memory, levels, old, new)
           barrier == made.barrier /\ BarrierValid(made.memory, levels, old)
<1>1. made.memory \in DeviceImages(n) /\ made.barrier \in BOOLEAN /\ made.blit \in BOOLEAN
  BY DEF Recordings
<1>2. BarrierDone(n, levels, old, new, made.memory, memory)
  BY <1>1, BarrierIs
<1>3. memory \in DeviceImages(n)
  BY <1>2 DEF BarrierDone
<1>4. barrier \in BOOLEAN
  BY <1>1 DEF BarrierValid
<1>5. Transitioned(made, levels, old, new) = [made EXCEPT !.memory = memory, !.barrier = barrier]
  BY DEF Transitioned
<1>6. made.barrier /\ BarrierValid(made.memory, levels, old) => barrier
  OBVIOUS
<1> HIDE DEF memory, barrier
<1>7. DOMAIN made = {"memory", "barrier", "blit"}
  BY DEF Recordings
<1>8. /\ Transitioned(made, levels, old, new).memory = memory
      /\ Transitioned(made, levels, old, new).barrier = barrier
      /\ Transitioned(made, levels, old, new).blit = made.blit
      /\ Transitioned(made, levels, old, new) \in Recordings(n)
  BY <1>3, <1>4, <1>5, <1>7 DEF Recordings
<1> QED
  BY <1>1, <1>2, <1>6, <1>8 DEF TransitionedTo

(* A level that was blitted has what the level before it has.                *)
BlittedTo(n, level, before, after) ==
  /\ after \in Recordings(n)
  /\ after.memory.layouts = before.memory.layouts
  /\ after.memory.shared = before.memory.shared
  /\ after.memory.owner = before.memory.owner
  /\ \A l \in 1 .. n : after.memory.contents[l] =
        IF l = level + 1 THEN before.memory.contents[level] ELSE before.memory.contents[l]
  /\ after.barrier = before.barrier
  /\ before.blit /\ BlitValid(before.memory, level, before.memory, level + 1) => after.blit

LEMMA BlittedIs ==
  ASSUME NEW n \in Nat, NEW made \in Recordings(n), NEW level \in 1 .. n, level + 1 <= n,
         settings.filterable \in BOOLEAN
  PROVE  BlittedTo(n, level, made, Blitted(made, level))
<1> DEFINE m == made.memory
           contents == [m.contents EXCEPT ![level + 1] = m.contents[level]]
           memory == [m EXCEPT !.contents = contents]
           blit == made.blit /\ BlitValid(made.memory, level, made.memory, level + 1)
<1>1. m \in DeviceImages(n) /\ made.barrier \in BOOLEAN /\ made.blit \in BOOLEAN
  BY DEF Recordings
<1>2. m.contents \in [1 .. n -> {"data", Undefined}]
  BY <1>1 DEF DeviceImages
<1>3. contents \in [1 .. n -> {"data", Undefined}]
  BY <1>2
<1>4. \A l \in 1 .. n : contents[l] = IF l = level + 1 THEN m.contents[level] ELSE m.contents[l]
  BY <1>2
<1>5. Blit(m, level, m, level + 1) = memory
  BY DEF Blit
<1>6. Blitted(made, level) = [made EXCEPT !.memory = memory, !.blit = blit]
  BY <1>5 DEF Blitted
<1>7. blit \in BOOLEAN
  BY <1>1 DEF BlitValid
<1>8. made.blit /\ BlitValid(made.memory, level, made.memory, level + 1) => blit
  OBVIOUS
<1> HIDE DEF contents, blit
<1>9. /\ memory \in DeviceImages(n)
      /\ memory.layouts = m.layouts /\ memory.shared = m.shared /\ memory.owner = m.owner
      /\ memory.contents = contents
  BY <1>1, <1>3 DEF DeviceImages
<1> HIDE DEF memory, m
<1>10. DOMAIN made = {"memory", "barrier", "blit"}
  BY DEF Recordings
<1>11. /\ Blitted(made, level).memory = memory
       /\ Blitted(made, level).barrier = made.barrier
       /\ Blitted(made, level).blit = blit
       /\ Blitted(made, level) \in Recordings(n)
  BY <1>1, <1>6, <1>7, <1>9, <1>10 DEF Recordings
<1> QED
  BY <1>4, <1>8, <1>9, <1>11 DEF BlittedTo, m

(* A step of generate_mipmaps finds its levels in the layouts it names.      *)
LevelsMade(n, before, i, made) ==
  /\ made \in Recordings(n)
  /\ made.barrier /\ made.blit
  /\ made.memory.shared = before.shared /\ made.memory.owner = before.owner
  /\ \A l \in 1 .. mip_levels :
       made.memory.layouts[l] = IF l <= i THEN "shader_read" ELSE "transfer_dst"
  /\ before.contents[1] = "data" => \A l \in 1 .. i + 1 : made.memory.contents[l] = "data"

LEMMA MakeLevelTyped ==
  ASSUME NEW n \in Nat, NEW made \in Recordings(n), NEW level \in 1 .. n, level + 1 <= n,
         settings.filterable \in BOOLEAN
  PROVE  MakeLevel(made, level) \in Recordings(n)
<1> DEFINE first == Transitioned(made, {level}, "transfer_dst", "transfer_src")
           second == Blitted(first, level)
<1>0. "transfer_src" \in LayoutKinds /\ "shader_read" \in LayoutKinds
  BY DEF LayoutKinds
<1>1. first \in Recordings(n)
  BY <1>0, TransitionedIs DEF TransitionedTo
<1> HIDE DEF first
<1>2. second \in Recordings(n)
  BY <1>1, BlittedIs DEF BlittedTo
<1> HIDE DEF second
<1>3. Transitioned(second, {level}, "transfer_src", "shader_read") \in Recordings(n)
  BY <1>0, <1>2, TransitionedIs DEF TransitionedTo
<1> QED
  BY <1>3 DEF MakeLevel, first, second

LEMMA MakeLevelIs ==
  ASSUME NEW n \in Nat, NEW before \in DeviceImages(n), NEW made, NEW i \in Nat,
         mip_levels \in Nat, mip_levels <= n, i + 1 < mip_levels, settings.filterable = TRUE,
         LevelsMade(n, before, i, made)
  PROVE  LevelsMade(n, before, i + 1, MakeLevel(made, i + 1))
<1> DEFINE level == i + 1
           first == Transitioned(made, {level}, "transfer_dst", "transfer_src")
           second == Blitted(first, level)
           third == Transitioned(second, {level}, "transfer_src", "shader_read")
<1>0. /\ "transfer_src" \in LayoutKinds /\ "shader_read" \in LayoutKinds
      /\ level \in 1 .. n /\ level + 1 \in 1 .. n /\ level \in 1 .. mip_levels
      /\ level + 1 \in 1 .. mip_levels /\ 1 .. mip_levels \subseteq 1 .. n
      /\ level + 1 <= n /\ level # level + 1
  BY DEF LayoutKinds
<1>1. made \in Recordings(n) /\ made.memory \in DeviceImages(n)
  BY DEF LevelsMade, Recordings
<1>2. TransitionedTo(n, {level}, "transfer_dst", "transfer_src", made, first)
  BY <1>0, <1>1, TransitionedIs
<1> HIDE DEF first
<1>3. first \in Recordings(n) /\ BarrierDone(n, {level}, "transfer_dst", "transfer_src", made.memory, first.memory)
  BY <1>2 DEF TransitionedTo
<1>4. first.barrier /\ first.blit
  <2>1. made.memory.layouts[level] = "transfer_dst"
    BY <1>0 DEF LevelsMade
  <2>2. DOMAIN made.memory.layouts = 1 .. n
    BY <1>1 DEF DeviceImages
  <2>3. BarrierValid(made.memory, {level}, "transfer_dst")
    BY <1>0, <2>1, <2>2 DEF BarrierValid
  <2> QED
    BY <1>2, <2>3 DEF TransitionedTo, LevelsMade
<1>5. BlittedTo(n, level, first, second)
  BY <1>0, <1>3, BlittedIs
<1> HIDE DEF second
<1>6. /\ first.memory.layouts[level] = "transfer_src"
      /\ first.memory.layouts[level + 1] = "transfer_dst"
  <2>1. made.memory.layouts[level + 1] = "transfer_dst"
    BY <1>0 DEF LevelsMade
  <2> QED
    BY <1>0, <1>3, <2>1 DEF BarrierDone
<1>7. second \in Recordings(n) /\ second.barrier /\ second.blit
  <2>1. BlitValid(first.memory, level, first.memory, level + 1)
    BY <1>6 DEF BlitValid
  <2> QED
    BY <1>4, <1>5, <2>1 DEF BlittedTo
<1>8. TransitionedTo(n, {level}, "transfer_src", "shader_read", second, third)
  BY <1>0, <1>7, TransitionedIs
<1> HIDE DEF third
<1>9. third \in Recordings(n) /\ BarrierDone(n, {level}, "transfer_src", "shader_read", second.memory, third.memory)
  BY <1>8 DEF TransitionedTo
<1>10. third.barrier /\ third.blit
  <2>1. second.memory.layouts[level] = "transfer_src"
    BY <1>5, <1>6 DEF BlittedTo
  <2>2. DOMAIN second.memory.layouts = 1 .. n
    BY <1>7 DEF Recordings, DeviceImages
  <2>3. BarrierValid(second.memory, {level}, "transfer_src")
    BY <1>0, <2>1, <2>2 DEF BarrierValid
  <2> QED
    BY <1>7, <1>8, <2>3 DEF TransitionedTo
<1>11. third.memory.shared = before.shared /\ third.memory.owner = before.owner
  BY <1>3, <1>5, <1>9 DEF BarrierDone, BlittedTo, LevelsMade
<1>12. ASSUME NEW l \in 1 .. mip_levels
       PROVE  third.memory.layouts[l] = IF l <= level THEN "shader_read" ELSE "transfer_dst"
  <2>1. l \in 1 .. n
    BY <1>0
  <2>2. CASE l = level
    BY <1>9, <2>1, <2>2 DEF BarrierDone
  <2>3. CASE l # level
    <3>1. third.memory.layouts[l] = made.memory.layouts[l]
      BY <1>3, <1>5, <1>9, <2>1, <2>3 DEF BarrierDone, BlittedTo
    <3>2. l <= level <=> l <= i
      BY <2>3
    <3> QED
      BY <3>1, <3>2 DEF LevelsMade
  <2> QED
    BY <2>2, <2>3
<1>13. ASSUME before.contents[1] = "data", NEW l \in 1 .. level + 1
       PROVE  third.memory.contents[l] = "data"
  <2>1. l \in 1 .. n
    BY <1>0
  <2>2. third.memory.contents = second.memory.contents /\ first.memory.contents = made.memory.contents
    BY <1>3, <1>9 DEF BarrierDone
  <2>3. \A k \in 1 .. level : made.memory.contents[k] = "data"
    BY <1>13 DEF LevelsMade
  <2>4. CASE l = level + 1
    <3>1. level \in 1 .. level
      BY <1>0
    <3> QED
      BY <1>5, <2>1, <2>2, <2>3, <2>4, <3>1 DEF BlittedTo
  <2>5. CASE l # level + 1
    <3>1. l \in 1 .. level
      BY <2>5
    <3> QED
      BY <1>5, <2>1, <2>2, <2>3, <2>5, <3>1 DEF BlittedTo
  <2> QED
    BY <2>4, <2>5
<1>14. MakeLevel(made, i + 1) = third
  BY DEF MakeLevel, first, second, third
<1> QED
  BY <1>9, <1>10, <1>11, <1>12, <1>13, <1>14 DEF LevelsMade

LEMMA MadeLevelsExist ==
  ASSUME families \in [QueueKinds -> Nat], NEW n \in Nat, image \in DeviceImages(n),
         mip_levels \in Nat \ {0}, mip_levels <= n, settings.filterable \in BOOLEAN
  PROVE  /\ MadeLevels[0] = Generating(Acquire(image, "graphics"))
         /\ \A i \in 1 .. mip_levels - 1 : MadeLevels[i] = MakeLevel(MadeLevels[i - 1], i)
<1> DEFINE N == mip_levels - 1
           base == Generating(Acquire(image, "graphics"))
           G == [i \in 1 .. N |-> [made \in Recordings(n) |-> MakeLevel(made, i)]]
           Recursive(f) == f = [i \in 0 .. N |-> IF i = 0 THEN base ELSE MakeLevel(f[i - 1], i)]
<1>1. N \in Nat
  OBVIOUS
<1>2. base \in Recordings(n)
  <2>1. Acquire(image, "graphics") \in DeviceImages(n)
    BY AcquireImage DEF AcquiredImage, QueueKinds
  <2> QED
    BY <2>1, GeneratingIs
<1>3. ASSUME NEW i \in 1 .. N, NEW made \in Recordings(n)
      PROVE  MakeLevel(made, i) \in Recordings(n)
  <2>1. i \in 1 .. n /\ i + 1 <= n
    OBVIOUS
  <2> QED
    BY <2>1, MakeLevelTyped
<1>4. G \in [1 .. N -> [Recordings(n) -> Recordings(n)]]
  BY <1>3
<1>5. \A i \in 1 .. N : \A made \in Recordings(n) : G[i][made] = MakeLevel(made, i)
  OBVIOUS
<1> HIDE DEF G, base
<1>6. PICK f \in [0 .. N -> Recordings(n)] : Follows(f, N, base, G)
  <2> HIDE DEF N
  <2> QED
    BY <1>1, <1>2, <1>4, RecursionExists
<1>7. ASSUME NEW i \in 0 .. N, i # 0
      PROVE  G[i][f[i - 1]] = MakeLevel(f[i - 1], i)
  <2>1. i \in 1 .. N /\ i - 1 \in 0 .. N
    BY <1>7
  <2>2. f[i - 1] \in Recordings(n)
    BY <2>1
  <2> QED
    BY <1>5, <2>1, <2>2
<1>8. Recursive(f)
  BY <1>6, <1>7 DEF Follows
<1>9. Recursive(MadeLevels)
  <2>1. MadeLevels = CHOOSE g : Recursive(g)
    BY DEF MadeLevels, base
  <2> HIDE DEF Recursive
  <2> QED
    BY <1>8, <2>1
<1>10. MadeLevels[0] = base
  <2>1. 0 \in 0 .. N
    BY <1>1
  <2> QED
    BY <1>9, <2>1
<1>11. \A i \in 1 .. N : MadeLevels[i] = MakeLevel(MadeLevels[i - 1], i)
  <2>1. \A i \in 1 .. N : i \in 0 .. N /\ i # 0
    OBVIOUS
  <2> QED
    BY <1>9, <2>1
<1> QED
  BY <1>10, <1>11 DEF base

(* What a one-time submission that leaves the image to samplers has done.    *)
ReadyToSample(n, before, made) ==
  /\ made \in Recordings(n)
  /\ made.barrier /\ made.blit
  /\ made.memory.shared = before.shared
  /\ made.memory.owner = families["graphics"]
  /\ \A l \in 1 .. mip_levels : made.memory.layouts[l] = "shader_read"
  /\ ~Loses(before, "graphics") /\ before.contents[1] = "data" =>
       \A l \in 1 .. mip_levels : made.memory.contents[l] = "data"

LEMMA MipmapsAre ==
  ASSUME families \in [QueueKinds -> Nat], NEW n \in Nat, image \in DeviceImages(n),
         mip_levels \in Nat \ {0}, mip_levels <= n, settings.filterable = TRUE,
         \A l \in 1 .. mip_levels : image.layouts[l] = "transfer_dst"
  PROVE  ReadyToSample(n, image, Mipmaps)
<1> DEFINE before == Acquire(image, "graphics")
           S == {i \in Nat : i <= mip_levels - 1 => LevelsMade(n, before, i, MadeLevels[i])}
<1>1. AcquiredImage(n, "graphics", image, before)
  BY AcquireImage DEF QueueKinds
<1>2. before \in DeviceImages(n)
  BY <1>1 DEF AcquiredImage
<1>3. /\ MadeLevels[0] = Generating(before)
      /\ \A i \in 1 .. mip_levels - 1 : MadeLevels[i] = MakeLevel(MadeLevels[i - 1], i)
  BY MadeLevelsExist
<1> HIDE DEF before
<1>4. 0 \in S
  <2>1. /\ MadeLevels[0] \in Recordings(n)
        /\ MadeLevels[0].memory = before
        /\ MadeLevels[0].barrier = TRUE
        /\ MadeLevels[0].blit = TRUE
    BY <1>2, <1>3, GeneratingIs
  <2>2. \A l \in 1 .. mip_levels : before.layouts[l] = "transfer_dst" /\ ~(l <= 0)
    BY <1>1 DEF AcquiredImage
  <2>3. \A l \in 1 .. 0 + 1 : l = 1
    OBVIOUS
  <2>4. LevelsMade(n, before, 0, MadeLevels[0])
    BY <2>1, <2>2, <2>3 DEF LevelsMade
  <2> QED
    BY <2>4
<1>5. ASSUME NEW i \in Nat, i \in S
      PROVE  i + 1 \in S
  <2> SUFFICES ASSUME i + 1 <= mip_levels - 1
               PROVE  LevelsMade(n, before, i + 1, MadeLevels[i + 1])
    OBVIOUS
  <2>1. i + 1 \in 1 .. mip_levels - 1 /\ (i + 1) - 1 = i /\ i + 1 < mip_levels /\ mip_levels \in Nat
    OBVIOUS
  <2>2. LevelsMade(n, before, i, MadeLevels[i])
    BY <1>5
  <2>3. MadeLevels[i + 1] = MakeLevel(MadeLevels[i], i + 1)
    BY <1>3, <2>1
  <2> QED
    BY <1>2, <2>1, <2>2, <2>3, MakeLevelIs
<1> DEFINE last == MadeLevels[mip_levels - 1]
<1>6. LevelsMade(n, before, mip_levels - 1, last)
  <2> HIDE DEF S
  <2>1. Nat \subseteq S
    BY <1>4, <1>5, EveryNumber
  <2>2. mip_levels - 1 \in Nat /\ mip_levels - 1 <= mip_levels - 1
    OBVIOUS
  <2> QED
    BY <2>1, <2>2 DEF S
<1> HIDE DEF last
<1>7. "shader_read" \in LayoutKinds /\ last \in Recordings(n) /\ last.memory \in DeviceImages(n)
  BY <1>6 DEF LayoutKinds, LevelsMade, Recordings
<1>8. TransitionedTo(n, {mip_levels}, "transfer_dst", "shader_read", last, Mipmaps)
  <2>1. Mipmaps = Transitioned(last, {mip_levels}, "transfer_dst", "shader_read")
    BY DEF Mipmaps, last
  <2> QED
    BY <1>7, <2>1, TransitionedIs
<1>9. Mipmaps \in Recordings(n) /\ BarrierDone(n, {mip_levels}, "transfer_dst", "shader_read", last.memory, Mipmaps.memory)
  BY <1>8 DEF TransitionedTo
<1>10. Mipmaps.barrier /\ Mipmaps.blit
  <2>1. mip_levels \in 1 .. mip_levels /\ ~(mip_levels <= mip_levels - 1) /\ mip_levels \in 1 .. n
    OBVIOUS
  <2>2. last.memory.layouts[mip_levels] = "transfer_dst"
    BY <1>6, <2>1 DEF LevelsMade
  <2>3. DOMAIN last.memory.layouts = 1 .. n
    BY <1>7 DEF DeviceImages
  <2>4. BarrierValid(last.memory, {mip_levels}, "transfer_dst")
    BY <2>1, <2>2, <2>3 DEF BarrierValid
  <2> QED
    BY <1>6, <1>8, <2>4 DEF TransitionedTo, LevelsMade
<1>11. Mipmaps.memory.shared = image.shared /\ Mipmaps.memory.owner = families["graphics"]
  BY <1>1, <1>6, <1>9 DEF AcquiredImage, LevelsMade, BarrierDone
<1>12. ASSUME NEW l \in 1 .. mip_levels
       PROVE  Mipmaps.memory.layouts[l] = "shader_read"
  <2>1. l \in 1 .. n /\ (l # mip_levels => l <= mip_levels - 1)
    OBVIOUS
  <2>2. l # mip_levels => last.memory.layouts[l] = "shader_read"
    BY <1>6, <2>1 DEF LevelsMade
  <2> QED
    BY <1>9, <2>1, <2>2 DEF BarrierDone
<1>13. ASSUME ~Loses(image, "graphics"), image.contents[1] = "data", NEW l \in 1 .. mip_levels
       PROVE  Mipmaps.memory.contents[l] = "data"
  <2>1. before.contents[1] = "data"
    BY <1>1, <1>13 DEF AcquiredImage
  <2>2. l \in 1 .. (mip_levels - 1) + 1
    OBVIOUS
  <2>3. last.memory.contents[l] = "data"
    BY <1>6, <2>1, <2>2 DEF LevelsMade
  <2> QED
    BY <1>9, <2>3 DEF BarrierDone
<1> QED
  BY <1>9, <1>10, <1>11, <1>12, <1>13 DEF ReadyToSample

TransitionDone(n, old, new, before, made) ==
  /\ made \in Recordings(n)
  /\ made.barrier /\ made.blit
  /\ made.memory.shared = before.shared
  /\ made.memory.owner = families["graphics"]
  /\ \A l \in 1 .. mip_levels : made.memory.layouts[l] = new
  /\ ~Loses(before, "graphics") /\ old # "undefined" => made.memory.contents = before.contents

LEMMA TransitionIs ==
  ASSUME families \in [QueueKinds -> Nat], NEW n \in Nat, image \in DeviceImages(n),
         mip_levels \in Nat \ {0}, mip_levels <= n, NEW new \in LayoutKinds,
         \A l \in 1 .. mip_levels : image.layouts[l] = layout
  PROVE  TransitionDone(n, layout, new, image, Transition(new))
<1> DEFINE before == Acquire(image, "graphics")
           made == Generating(before)
<1>1. AcquiredImage(n, "graphics", image, before)
  BY AcquireImage DEF QueueKinds
<1>2. before \in DeviceImages(n)
  BY <1>1 DEF AcquiredImage
<1>3. made \in Recordings(n) /\ made.memory = before /\ made.barrier = TRUE /\ made.blit = TRUE
  BY <1>2, GeneratingIs
<1>4. Transition(new) = Transitioned(made, 1 .. mip_levels, layout, new)
  BY DEF Transition
<1> HIDE DEF before, made
<1>5. TransitionedTo(n, 1 .. mip_levels, layout, new, made, Transition(new))
  BY <1>3, <1>4, TransitionedIs
<1>6. BarrierValid(made.memory, 1 .. mip_levels, layout)
  <2>1. DOMAIN made.memory.layouts = 1 .. n /\ made.memory.layouts = image.layouts
    BY <1>1, <1>2, <1>3 DEF DeviceImages, AcquiredImage
  <2>2. 1 \in 1 .. mip_levels /\ 1 .. mip_levels \subseteq 1 .. n
    OBVIOUS
  <2> QED
    BY <2>1, <2>2 DEF BarrierValid
<1>7. \A l \in 1 .. mip_levels : l \in 1 .. n
  OBVIOUS
<1> QED
  BY <1>1, <1>3, <1>5, <1>6, <1>7 DEF TransitionedTo, BarrierDone, TransitionDone, AcquiredImage

HostUploaded(n, levels, before, after) ==
  /\ after \in DeviceImages(n)
  /\ \A l \in 1 .. levels : after.layouts[l] = "general"
  /\ after.contents[1] = "data"
  /\ after.shared = before.shared
  /\ after.owner = before.owner

LEMMA HostUploadIs ==
  ASSUME NEW n \in Nat \ {0}, NEW memory \in DeviceImages(n), NEW levels \in 1 .. n
  PROVE  HostUploaded(n, levels, memory, HostUpload(memory, levels))
<1> DEFINE general == Barrier(memory, 1 .. levels, "undefined", "general")
<1>1. BarrierDone(n, 1 .. levels, "undefined", "general", memory, general)
  BY BarrierIs DEF LayoutKinds
<1>2. HostUpload(memory, levels) = [general EXCEPT !.contents[1] = "data"]
  BY DEF HostUpload
<1> HIDE DEF general
<1>3. general \in DeviceImages(n)
  BY <1>1 DEF BarrierDone
<1>4. 1 \in 1 .. n /\ 1 .. levels \subseteq 1 .. n
  OBVIOUS
<1> DEFINE contents == [general.contents EXCEPT ![1] = "data"]
<1>5. contents \in [1 .. n -> {"data", Undefined}] /\ contents[1] = "data"
  <2>1. general.contents \in [1 .. n -> {"data", Undefined}]
    BY <1>3 DEF DeviceImages
  <2> QED
    BY <1>4, <2>1
<1>6. HostUpload(memory, levels) = [general EXCEPT !.contents = contents]
  BY <1>2
<1> HIDE DEF contents
<1>7. /\ HostUpload(memory, levels) \in DeviceImages(n)
      /\ HostUpload(memory, levels).contents = contents
      /\ HostUpload(memory, levels).layouts = general.layouts
      /\ HostUpload(memory, levels).shared = general.shared
      /\ HostUpload(memory, levels).owner = general.owner
  BY <1>3, <1>5, <1>6 DEF DeviceImages
<1> QED
  BY <1>1, <1>4, <1>5, <1>7 DEF HostUploaded, BarrierDone

BlitDone(n, data, before, after) ==
  /\ after \in DeviceImages(n)
  /\ after.layouts = before.layouts
  /\ after.contents[1] = data
  /\ after.shared = before.shared
  /\ after.owner = before.owner

LEMMA BlitIs ==
  ASSUME NEW n \in Nat \ {0}, NEW source, source.contents[1] \in {"data", Undefined},
         NEW target \in DeviceImages(n)
  PROVE  BlitDone(n, source.contents[1], target, Blit(source, 1, target, 1))
<1> DEFINE contents == [target.contents EXCEPT ![1] = source.contents[1]]
<1>1. contents \in [1 .. n -> {"data", Undefined}] /\ contents[1] = source.contents[1]
  <2>1. target.contents \in [1 .. n -> {"data", Undefined}] /\ 1 \in 1 .. n
    BY DEF DeviceImages
  <2> QED
    BY <2>1
<1>2. Blit(source, 1, target, 1) = [target EXCEPT !.contents = contents]
  BY DEF Blit
<1> HIDE DEF contents
<1> QED
  BY <1>1, <1>2 DEF BlitDone, DeviceImages

-----------------------------------------------------------------------------
(* Extents and their levels.                                                 *)

LEMMA ExtentLevels ==
  ASSUME NEW wh \in (Nat \ {0}) \X (Nat \ {0})
  PROVE  Larger(wh) \in Nat \ {0} /\ MipLevels(wh) \in Nat \ {0}
<1>1. Larger(wh) \in Nat \ {0}
  BY DEF Larger
<1>2. Levels[Larger(wh)] \in Nat /\ Levels[Larger(wh)] >= 1
  BY <1>1, LevelsFit
<1> QED
  BY <1>1, <1>2 DEF MipLevels

LEMMA Halved ==
  ASSUME NEW n \in Nat \ {0}, Levels[n] > 1
  PROVE  n >= 2 /\ Levels[n \div 2] = Levels[n] - 1 /\ n \div 2 \in Nat \ {0}
<1>1. Levels[n] = IF n <= 1 THEN 1 ELSE 1 + Levels[n \div 2]
  BY LevelsIs
<1>2. n >= 2
  BY <1>1
<1>3. n \div 2 \in Nat \ {0}
  BY <1>2, Halves
<1>4. Levels[n \div 2] \in Nat
  BY <1>3, LevelsFit
<1> QED
  BY <1>1, <1>2, <1>3, <1>4

(* A reduced image has the levels that are left of the whole one.            *)
LEMMA ReducedLevels ==
  ASSUME NEW wh \in (Nat \ {0}) \X (Nat \ {0}), NEW lvl \in {1, 2}, lvl < MipLevels(wh)
  PROVE  /\ Reduced(wh, lvl) \in (Nat \ {0}) \X (Nat \ {0})
         /\ MipLevels(Reduced(wh, lvl)) = MipLevels(wh) - lvl
<1>1. Larger(wh) \in Nat \ {0} /\ MipLevels(wh) \in Nat /\ MipLevels(wh) = Levels[Larger(wh)]
  BY ExtentLevels DEF MipLevels
<1>2. PICK w \in Nat \ {0}, h \in Nat \ {0} : wh = <<w, h>>
  OBVIOUS
<1> DEFINE big == Larger(wh)
<1>3. big = (IF w > h THEN w ELSE h)
  BY <1>2 DEF Larger
<1> HIDE DEF big
<1>4. big \in Nat \ {0} /\ Levels[big] > 1 /\ Levels[big] \in Nat
  BY <1>1 DEF big
<1>5. big >= 2 /\ Levels[big \div 2] = Levels[big] - 1 /\ big \div 2 \in Nat \ {0}
  BY <1>4, Halved
<1>6. CASE lvl = 1
  <2>1. 2^lvl = 2
    BY <1>6
  <2>2. Reduced(wh, lvl) = <<AtLeastOne(w \div 2), AtLeastOne(h \div 2)>>
    BY <1>2, <2>1 DEF Reduced
  <2>3. AtLeastOne(w \div 2) \in Nat \ {0} /\ AtLeastOne(h \div 2) \in Nat \ {0}
    BY DEF AtLeastOne
  <2>4. Larger(Reduced(wh, lvl)) = big \div 2
    BY <1>3, <1>5, <2>2 DEF Larger, AtLeastOne
  <2> QED
    BY <1>1, <1>5, <1>6, <2>2, <2>3, <2>4 DEF MipLevels, big
<1>7. CASE lvl = 2
  <2>0. 2^2 = 4
    OBVIOUS
  <2>1. 2^lvl = 4
    BY <1>7, <2>0
  <2>2. Reduced(wh, lvl) = <<AtLeastOne(w \div 4), AtLeastOne(h \div 4)>>
    BY <1>2, <2>1 DEF Reduced
  <2>3. AtLeastOne(w \div 4) \in Nat \ {0} /\ AtLeastOne(h \div 4) \in Nat \ {0}
    BY DEF AtLeastOne
  <2>4. Levels[big \div 2] > 1
    BY <1>1, <1>4, <1>5, <1>7 DEF big
  <2>5. /\ Levels[(big \div 2) \div 2] = Levels[big \div 2] - 1
        /\ (big \div 2) \div 2 \in Nat \ {0}
    BY <1>5, <2>4, Halved
  <2>6. (big \div 2) \div 2 = big \div 4
    BY <1>4
  <2>7. Larger(Reduced(wh, lvl)) = big \div 4
    BY <1>3, <2>2, <2>5, <2>6 DEF Larger, AtLeastOne
  <2> QED
    BY <1>1, <1>4, <1>5, <1>7, <2>2, <2>3, <2>5, <2>6, <2>7 DEF MipLevels, big
<1> QED
  BY <1>6, <1>7

-----------------------------------------------------------------------------
(* One-time commands.                                                        *)

AllHold(rules) == \A r \in DOMAIN rules : rules[r]

LEMMA FailsCounts ==
  ASSUME CommandsInv, failures' = failures + 1
  PROVE  failures' \in Nat /\ failures' # 0
<1>1. failures \in Nat
  BY DEF CommandsInv
<1> QED
  BY <1>1

LEMMA BeginKeeps ==
  ASSUME NEW type, NEW rules, AllHold(rules), Begin(type, rules), invalid \subseteq {"begin"}
  PROVE  /\ invalid' \subseteq {"begin"}
         /\ invalid = {} /\ one_time_cbs[type] = "ready" => invalid' = {}
<1> DEFINE all == [r \in DOMAIN rules \union {"begin"} |->
                     IF r = "begin" THEN one_time_cbs[type] = "ready" ELSE rules[r]]
<1>1. invalid' = invalid \union {r \in DOMAIN all : ~all[r]}
  BY DEF Begin, Breaks
<1>2. \A r \in DOMAIN all : r # "begin" => all[r]
  BY DEF AllHold
<1>3. one_time_cbs[type] = "ready" => \A r \in DOMAIN all : all[r]
  BY DEF AllHold
<1> HIDE DEF all
<1> QED
  BY <1>1, <1>2, <1>3

LEMMA RunKeeps ==
  ASSUME CommandsInv, NEW type \in OneTimeTypes, NEW rules, AllHold(rules),
         RunOneTime(type, rules), UNCHANGED leaked
  PROVE  CommandsInv' /\ UNCHANGED <<offered, surface, families, failures>>
<1>1. /\ Begin(type, rules)
      /\ one_time_cbs' = [one_time_cbs EXCEPT ![type] = "ready"]
      /\ UNCHANGED <<offered, surface, families, failures>>
  BY DEF RunOneTime
<1>2. /\ invalid' \subseteq {"begin"}
      /\ invalid = {} /\ one_time_cbs[type] = "ready" => invalid' = {}
  BY <1>1, BeginKeeps DEF CommandsInv
<1> QED
  BY <1>1, <1>2 DEF CommandsInv

LEMMA ThrowKeeps ==
  ASSUME CommandsInv, NEW type \in OneTimeTypes, NEW rules, AllHold(rules),
         NEW state \in {"ready", "recording"}, RunOneTimeThrows(type, rules, state)
  PROVE  CommandsInv' /\ UNCHANGED <<offered, surface, families>> /\ failures' # 0
<1>1. /\ Begin(type, rules)
      /\ one_time_cbs' = [one_time_cbs EXCEPT ![type] = state]
      /\ UNCHANGED <<offered, surface, families>>
      /\ failures' = failures + 1
  BY DEF RunOneTimeThrows, Fails
<1>2. invalid' \subseteq {"begin"}
  BY <1>1, BeginKeeps DEF CommandsInv
<1>3. failures' \in Nat /\ failures' # 0
  BY <1>1, FailsCounts
<1>4. one_time_cbs' \in [OneTimeTypes -> {"ready", "recording"}]
  BY <1>1 DEF CommandsInv
<1> QED
  BY <1>1, <1>2, <1>3, <1>4 DEF CommandsInv

LEMMA FailKeeps ==
  ASSUME CommandsInv, Fails, UNCHANGED <<one_time_cbs, invalid>>
  PROVE  CommandsInv' /\ failures' # 0
<1>1. failures' \in Nat /\ failures' # 0
  BY FailsCounts DEF Fails
<1> QED
  BY <1>1 DEF CommandsInv

LEMMA NoCommandKeeps ==
  ASSUME CommandsInv, UNCHANGED <<one_time_cbs, invalid, failures, leaked>>
  PROVE  CommandsInv'
BY DEF CommandsInv

-----------------------------------------------------------------------------
(* What a step of one resource leaves alone.                                 *)

LEMMA FamiliesKept ==
  ASSUME FamiliesInv, families # NotCreated, UNCHANGED <<offered, surface, families>>
  PROVE  FamiliesInv'
BY DEF FamiliesInv

LEMMA BufferKept ==
  ASSUME BufferInv, UNCHANGED <<bufferVars, families>>
  PROVE  BufferInv'
<1>1. /\ UNCHANGED <<buffer, host_visible, buffer_queues, staging, transfer, written, obtained>>
      /\ UNCHANGED families
  BY DEF bufferVars
<1>2. HeldInv'
  BY <1>1 DEF BufferInv, HeldInv, Reachable, OwnerFits, SharedBy
<1>3. StagedInv'
  BY <1>1 DEF BufferInv, StagedInv, Spans, ByteSize
<1> QED
  BY <1>2, <1>3 DEF BufferInv

LEMMA ImageKept ==
  ASSUME ImageInv, UNCHANGED <<imageVars, families>>, failures # 0 => failures' # 0
  PROVE  ImageInv'
<1>1. /\ UNCHANGED <<settings, step, extent, mip_levels, layout, tmp_image, image, view, sampler>>
      /\ UNCHANGED families
  BY DEF imageVars
<1>2. SettingsInv'
  BY <1>1 DEF ImageInv, SettingsInv, DeviceLevels
<1>3. UploadingInv'
  BY <1>1 DEF ImageInv, UploadingInv, DeviceLevels, Reduces, SharedBy
<1>4. ReducingInv'
  BY <1>1 DEF ImageInv, ReducingInv, Reduces, SharedBy
<1>5. FilledInv'
  BY <1>1 DEF ImageInv, FilledInv, DeviceLevels, SharedBy, Visible, OwnerFits, FullLevels
<1>6. PreparingInv'
  BY <1>1 DEF ImageInv, PreparingInv
<1> QED
  BY <1>2, <1>3, <1>4, <1>5, <1>6 DEF ImageInv

LEMMA ForgetKeeps ==
  ASSUME Forget
  PROVE  ImageInv'
<1>1. /\ step' = "none" /\ image' = NotCreated /\ tmp_image' = NotCreated
      /\ view' = FALSE /\ sampler' = FALSE
  BY DEF Forget
<1>2. SettingsInv' /\ UploadingInv' /\ ReducingInv' /\ FilledInv' /\ PreparingInv'
  BY <1>1 DEF SettingsInv, UploadingInv, ReducingInv, FilledInv, PreparingInv, Steps
<1> QED
  BY <1>2 DEF ImageInv

-----------------------------------------------------------------------------
(* The steps of an image.                                                    *)

LEMMA FamiliesTyped ==
  ASSUME FamiliesInv, families # NotCreated
  PROVE  /\ families \in [QueueKinds -> Nat]
         /\ families["graphics"] \in Nat \ {0} /\ families["transfer"] \in Nat \ {0}
BY DEF FamiliesInv, QueueKinds

LEMMA SettingsFit ==
  ASSUME NEW s \in Settings, Legal(s)
  PROVE  /\ s.extent \in (Nat \ {0}) \X (Nat \ {0})
         /\ s.queues \in SUBSET QueueKinds
         /\ s.filterable \in BOOLEAN /\ s.sampled \in BOOLEAN
         /\ MipLevels(s.extent) \in Nat \ {0}
         /\ UsedLevels(s) \in 1 .. MipLevels(s.extent)
         /\ UsedLevels(s) > 1 => s.filterable
         /\ UsedBase(s) > 0 => /\ UsedBase(s) \in {1, 2}
                               /\ UsedBase(s) < MipLevels(s.extent)
                               /\ UsedLevels(s) = MipLevels(s.extent)
                               /\ s.filterable = TRUE
<1>1. /\ s.extent \in Extents /\ s.queues \in ImageQueues /\ s.base_mip_map_lvl \in 0 .. 2
      /\ s.filterable \in BOOLEAN /\ s.sampled \in BOOLEAN /\ s.use_mip_maps \in BOOLEAN
  BY DEF Settings
<1>2. s.extent \in (Nat \ {0}) \X (Nat \ {0}) /\ s.queues \in SUBSET QueueKinds
  BY <1>1, ImageAssumption
<1>3. MipLevels(s.extent) \in Nat \ {0}
  BY <1>2, ExtentLevels
<1>4. UsedLevels(s) \in 1 .. MipLevels(s.extent) /\ (UsedLevels(s) > 1 => s.filterable)
  BY <1>3 DEF UsedLevels
<1>5. ASSUME UsedBase(s) > 0
      PROVE  /\ UsedBase(s) \in {1, 2}
             /\ UsedBase(s) < MipLevels(s.extent)
             /\ UsedLevels(s) = MipLevels(s.extent)
             /\ s.filterable = TRUE
  <2>1. s.filterable /\ UsedBase(s) = s.base_mip_map_lvl
    BY <1>1, <1>5 DEF UsedBase
  <2>2. s.base_mip_map_lvl \in {1, 2} /\ s.base_mip_map_lvl > 0
    BY <1>1, <1>5, <2>1
  <2>3. s.use_mip_maps /\ s.base_mip_map_lvl < MipLevels(s.extent)
    BY <2>2 DEF Legal
  <2> QED
    BY <1>1, <2>1, <2>2, <2>3 DEF UsedLevels
<1> QED
  BY <1>1, <1>2, <1>3, <1>4, <1>5

LEMMA CreateEmptyKeeps ==
  ASSUME FamiliesInv, families # NotCreated, ImageInv, step = "none",
         NEW s \in Settings, Legal(s), CreateEmpty(s)
  PROVE  ImageInv'
<1>1. /\ ~s.has_data /\ ~SamplerRefused(s)
      /\ settings' = s /\ step' = "live" /\ extent' = s.extent /\ layout' = "undefined"
      /\ mip_levels' = IF s.use_mip_maps THEN MipLevels(s.extent) ELSE 1
      /\ image' = NewImage(mip_levels', s.queues)
      /\ UNCHANGED <<tmp_image, deviceVars>>
  BY DEF CreateEmpty
<1>2. UNCHANGED <<families, failures>>
  BY <1>1 DEF deviceVars
<1>3. tmp_image' = NotCreated
  BY <1>1 DEF ImageInv, SettingsInv
<1>4. /\ s.extent \in (Nat \ {0}) \X (Nat \ {0}) /\ s.queues \in SUBSET QueueKinds
      /\ mip_levels' \in Nat \ {0}
  <2>1. /\ s.extent \in (Nat \ {0}) \X (Nat \ {0}) /\ s.queues \in SUBSET QueueKinds
        /\ MipLevels(s.extent) \in Nat \ {0}
    BY SettingsFit
  <2> QED
    BY <1>1, <2>1
<1>5. DeviceLevels' = mip_levels'
  BY <1>1 DEF DeviceLevels
<1>6. families \in [QueueKinds -> Nat]
  BY FamiliesTyped
<1> DEFINE n == mip_levels'
<1>7. /\ image' \in DeviceImages(n)
      /\ \A l \in 1 .. n : image'.layouts[l] = "undefined"
      /\ image'.shared = SharedBy(s.queues)
  <2>1. n \in Nat /\ image' = NewImage(n, s.queues)
    BY <1>1, <1>4
  <2> HIDE DEF n
  <2> QED
    BY <1>4, <1>6, <2>1, NewImageIs
<1>8. SharedBy(settings.queues)' = SharedBy(s.queues)
  BY <1>1, <1>2 DEF SharedBy
<1>9. SettingsInv'
  BY <1>1, <1>4, <1>5 DEF SettingsInv, Steps
<1>10. UploadingInv' /\ ReducingInv' /\ PreparingInv'
  BY <1>1 DEF UploadingInv, ReducingInv, PreparingInv
<1>11. FilledInv'
  BY <1>1, <1>3, <1>5, <1>7, <1>8 DEF FilledInv, LayoutKinds
<1> QED
  BY <1>9, <1>10, <1>11 DEF ImageInv

LEMMA CreateForUploadKeeps ==
  ASSUME FamiliesInv, families # NotCreated, CommandsInv, ImageInv, step = "none",
         NEW s \in Settings, Legal(s), CreateForUpload(s)
  PROVE  ImageInv'
<1>1. /\ s.has_data
      /\ SamplerRefused(s) => Fails
      /\ settings' = s /\ step' = "upload" /\ extent' = s.extent /\ mip_levels' = UsedLevels(s)
      /\ UNCHANGED <<view, sampler, families>>
  BY DEF CreateForUpload
<1>2. IF UsedBase(s) > 0
      THEN /\ tmp_image' = HostUpload(NewImage(1, TemporaryQueues), 1)
           /\ UNCHANGED image
      ELSE /\ image' = HostUpload(NewImage(MipLevels(s.extent), s.queues), UsedLevels(s))
           /\ UNCHANGED tmp_image
  BY DEF CreateForUpload
<1>3. SamplerRefused(s) => failures' # 0
  <2>1. Fails => failures' # 0
    BY FailsCounts DEF Fails
  <2> QED
    BY <1>1, <2>1
<1>4. /\ s.extent \in (Nat \ {0}) \X (Nat \ {0}) /\ s.queues \in SUBSET QueueKinds
      /\ MipLevels(s.extent) \in Nat \ {0}
      /\ UsedLevels(s) \in 1 .. MipLevels(s.extent)
  BY SettingsFit
<1>5. DeviceLevels' = MipLevels(s.extent) /\ Reduces' = (UsedBase(s) > 0)
  BY <1>1 DEF DeviceLevels, Reduces
<1>6. families \in [QueueKinds -> Nat]
  BY FamiliesTyped
<1>7. tmp_image = NotCreated
  BY DEF ImageInv, SettingsInv
<1>8. SettingsInv'
  BY <1>1, <1>3, <1>4, <1>5 DEF SettingsInv, Steps
<1>9. ReducingInv' /\ PreparingInv' /\ FilledInv'
  BY <1>1 DEF ReducingInv, PreparingInv, FilledInv
<1>10. UploadingInv'
  <2>1. CASE UsedBase(s) > 0
    <3> DEFINE m == NewImage(1, TemporaryQueues)
    <3>1. TemporaryQueues \in SUBSET QueueKinds
      BY DEF TemporaryQueues, QueueKinds
    <3>2. m \in DeviceImages(1) /\ m.shared = SharedBy(TemporaryQueues) /\ m.owner = 0
      BY <1>6, <3>1, NewImageIs
    <3> HIDE DEF m
    <3>3. HostUploaded(1, 1, m, HostUpload(m, 1))
      BY <3>2, HostUploadIs
    <3>4. tmp_image' = HostUpload(m, 1)
      BY <1>2, <2>1 DEF m
    <3>5. SharedBy(TemporaryQueues)' = SharedBy(TemporaryQueues)
      BY <1>1 DEF SharedBy, TemporaryQueues
    <3>6. /\ tmp_image' \in DeviceImages(1)
          /\ tmp_image'.layouts[1] = "general" /\ tmp_image'.contents[1] = "data"
          /\ tmp_image'.shared = SharedBy(TemporaryQueues) /\ tmp_image'.owner = 0
      BY <3>2, <3>3, <3>4 DEF HostUploaded
    <3> QED
      BY <1>1, <1>5, <2>1, <3>5, <3>6 DEF UploadingInv
  <2>2. CASE ~(UsedBase(s) > 0)
    <3> DEFINE n == MipLevels(s.extent)
               m == NewImage(n, s.queues)
    <3>0. n \in Nat \ {0} /\ UsedLevels(s) \in 1 .. n
      BY <1>4
    <3>1. image' = HostUpload(m, UsedLevels(s)) /\ tmp_image' = NotCreated
      BY <1>2, <1>7, <2>2
    <3>2. DeviceLevels' = n
      BY <1>5
    <3> HIDE DEF n
    <3>3. m \in DeviceImages(n) /\ m.shared = SharedBy(s.queues) /\ m.owner = 0
      BY <1>4, <1>6, <3>0, NewImageIs
    <3> HIDE DEF m
    <3>4. HostUploaded(n, UsedLevels(s), m, HostUpload(m, UsedLevels(s)))
      BY <3>0, <3>3, HostUploadIs
    <3>5. /\ image' \in DeviceImages(n)
          /\ \A l \in 1 .. UsedLevels(s) : image'.layouts[l] = "general"
          /\ image'.contents[1] = "data"
          /\ image'.shared = SharedBy(s.queues) /\ image'.owner = 0
      BY <3>1, <3>3, <3>4 DEF HostUploaded
    <3>6. SharedBy(settings.queues)' = SharedBy(s.queues)
      BY <1>1 DEF SharedBy
    <3> QED
      BY <1>1, <1>5, <2>2, <3>1, <3>2, <3>5, <3>6 DEF UploadingInv
  <2> QED
    BY <2>1, <2>2
<1> QED
  BY <1>8, <1>9, <1>10 DEF ImageInv

(* What is known of an image that is there or on its way.                    *)
LEMMA SettingsKnown ==
  ASSUME FamiliesInv, ImageInv, step # "none"
  PROVE  /\ families # NotCreated /\ families \in [QueueKinds -> Nat]
         /\ families["graphics"] \in Nat \ {0} /\ families["transfer"] \in Nat \ {0}
         /\ settings \in Settings /\ Legal(settings)
         /\ settings.queues \in SUBSET QueueKinds
         /\ settings.filterable \in BOOLEAN /\ settings.sampled \in BOOLEAN
         /\ SamplerRefused(settings) => failures # 0
         /\ extent \in (Nat \ {0}) \X (Nat \ {0})
         /\ MipLevels(extent) \in Nat \ {0}
         /\ mip_levels \in Nat \ {0}
         /\ mip_levels <= DeviceLevels
         /\ DeviceLevels \in Nat \ {0}
<1>1. families # NotCreated
  BY DEF FamiliesInv
<1>2. /\ settings \in Settings /\ Legal(settings)
      /\ SamplerRefused(settings) => failures # 0
      /\ extent \in (Nat \ {0}) \X (Nat \ {0})
      /\ mip_levels \in Nat \ {0}
      /\ mip_levels <= DeviceLevels
  BY DEF ImageInv, SettingsInv
<1>3. /\ settings.queues \in SUBSET QueueKinds
      /\ settings.filterable \in BOOLEAN /\ settings.sampled \in BOOLEAN
  BY <1>2, SettingsFit
<1>4. MipLevels(extent) \in Nat \ {0}
  BY <1>2, ExtentLevels
<1>5. DeviceLevels \in Nat \ {0}
  BY <1>2, <1>4 DEF DeviceLevels
<1>6. /\ families \in [QueueKinds -> Nat]
      /\ families["graphics"] \in Nat \ {0} /\ families["transfer"] \in Nat \ {0}
  BY <1>1, FamiliesTyped
<1> QED
  BY <1>1, <1>2, <1>3, <1>4, <1>5, <1>6

LEMMA SharedKept ==
  ASSUME UNCHANGED <<settings, families>>
  PROVE  /\ SharedBy(settings.queues)' = SharedBy(settings.queues)
         /\ SharedBy(TemporaryQueues)' = SharedBy(TemporaryQueues)
BY DEF SharedBy, TemporaryQueues

(* The barrier of the upload.                                                *)
Unloaded(n, before, after) ==
  /\ after \in DeviceImages(n)
  /\ after.shared = before.shared
  /\ after.owner = families["transfer"]
  /\ ~Loses(before, "transfer") => after.contents = before.contents

LEMMA UploadedIs ==
  ASSUME families \in [QueueKinds -> Nat], NEW n \in Nat, NEW memory \in DeviceImages(n),
         NEW levels \in 1 .. n, \A l \in 1 .. levels : memory.layouts[l] = "general",
         NEW after, after = Barrier(Acquire(memory, "transfer"), 1 .. levels, "general", "transfer_dst")
  PROVE  /\ Unloaded(n, memory, after)
         /\ \A l \in 1 .. levels : after.layouts[l] = "transfer_dst"
         /\ BarrierValid(memory, 1 .. levels, "general")
<1> DEFINE acquired == Acquire(memory, "transfer")
<1>1. AcquiredImage(n, "transfer", memory, acquired)
  BY AcquireImage DEF QueueKinds
<1> HIDE DEF acquired
<1>2. BarrierDone(n, 1 .. levels, "general", "transfer_dst", acquired, after)
  <2>1. acquired \in DeviceImages(n) /\ "transfer_dst" \in LayoutKinds
    BY <1>1 DEF AcquiredImage, LayoutKinds
  <2>2. after = Barrier(acquired, 1 .. levels, "general", "transfer_dst")
    BY DEF acquired
  <2> QED
    BY <2>1, <2>2, BarrierIs
<1>3. 1 .. levels \subseteq 1 .. n /\ 1 \in 1 .. levels /\ DOMAIN memory.layouts = 1 .. n
  BY DEF DeviceImages
<1> QED
  BY <1>1, <1>2, <1>3 DEF AcquiredImage, BarrierDone, Unloaded, BarrierValid

LEMMA UploadTemporaryKeeps ==
  ASSUME FamiliesInv, ImageInv, UploadTemporary, UNCHANGED <<families, failures>>
  PROVE  ImageInv'
<1>1. /\ step = "upload" /\ Reduces /\ tmp_image' = Uploaded /\ step' = "reduce"
      /\ UNCHANGED <<settings, extent, mip_levels, layout, image, view, sampler, families, failures>>
  BY DEF UploadTemporary
<1>2. /\ families \in [QueueKinds -> Nat]
      /\ families["graphics"] \in Nat \ {0} /\ families["transfer"] \in Nat \ {0}
  BY <1>1, SettingsKnown
<1>3. /\ settings.has_data
      /\ extent = settings.extent /\ mip_levels = UsedLevels(settings)
      /\ tmp_image \in DeviceImages(1)
      /\ tmp_image.layouts[1] = "general" /\ tmp_image.contents[1] = "data"
      /\ tmp_image.shared = SharedBy(TemporaryQueues) /\ tmp_image.owner = 0
  BY <1>1 DEF ImageInv, UploadingInv
<1>4. Uploaded = Barrier(Acquire(tmp_image, "transfer"), 1 .. 1, "general", "transfer_dst")
  <2>1. 1 .. 1 = {1}
    OBVIOUS
  <2> QED
    BY <1>1, <2>1 DEF Uploaded, UploadTarget, UploadLevels
<1>5. Unloaded(1, tmp_image, tmp_image') /\ tmp_image'.layouts[1] = "transfer_dst"
  <2> DEFINE n == 1
             levels == 1
  <2>1. /\ n \in Nat /\ levels \in 1 .. n /\ 1 \in 1 .. levels
        /\ tmp_image \in DeviceImages(n)
        /\ \A l \in 1 .. levels : tmp_image.layouts[l] = "general"
    BY <1>3
  <2>2. tmp_image' = Barrier(Acquire(tmp_image, "transfer"), 1 .. levels, "general", "transfer_dst")
    BY <1>1, <1>4
  <2> HIDE DEF n, levels
  <2>3. /\ Unloaded(n, tmp_image, tmp_image')
        /\ \A l \in 1 .. levels : tmp_image'.layouts[l] = "transfer_dst"
    BY <1>2, <2>1, <2>2, UploadedIs
  <2> QED
    BY <2>1, <2>3 DEF n
<1>6. ~Loses(tmp_image, "transfer")
  <2>1. TemporaryQueues \in SUBSET QueueKinds /\ "transfer" \in TemporaryQueues /\ "transfer" \in QueueKinds
    BY DEF TemporaryQueues, QueueKinds
  <2>2. families["transfer"] \in SharedBy(TemporaryQueues)
    BY <1>2, <2>1, SharedIs
  <2>3. OwnerFits(tmp_image)
    BY <1>3 DEF OwnerFits
  <2> QED
    BY <1>2, <1>3, <2>1, <2>2, <2>3, Keeps
<1>7. /\ tmp_image' \in DeviceImages(1)
      /\ tmp_image'.layouts[1] = "transfer_dst" /\ tmp_image'.contents[1] = "data"
      /\ tmp_image'.shared = SharedBy(TemporaryQueues)
      /\ tmp_image'.owner = families["transfer"]
  BY <1>3, <1>5, <1>6 DEF Unloaded
<1>8. SharedBy(TemporaryQueues)' = SharedBy(TemporaryQueues)
  BY <1>1, SharedKept
<1>9. SettingsInv'
  BY <1>1 DEF ImageInv, SettingsInv, Steps, DeviceLevels
<1>10. ReducingInv'
  BY <1>1, <1>3, <1>7, <1>8 DEF ReducingInv, Reduces
<1>11. UploadingInv' /\ FilledInv' /\ PreparingInv'
  BY <1>1 DEF UploadingInv, FilledInv, PreparingInv
<1> QED
  BY <1>9, <1>10, <1>11 DEF ImageInv

LEMMA UploadKeeps ==
  ASSUME FamiliesInv, ImageInv, Upload, UNCHANGED <<families, failures>>
  PROVE  ImageInv'
<1>1. /\ step = "upload" /\ ~Reduces /\ image' = Uploaded /\ step' = "prepare"
      /\ layout' = "transfer_dst"
      /\ UNCHANGED <<settings, extent, mip_levels, tmp_image, view, sampler, families, failures>>
  BY DEF Upload
<1>2. /\ families \in [QueueKinds -> Nat]
      /\ families["transfer"] \in Nat \ {0}
      /\ settings \in Settings /\ Legal(settings) /\ settings.queues \in SUBSET QueueKinds
      /\ mip_levels \in Nat \ {0} /\ mip_levels <= DeviceLevels /\ DeviceLevels \in Nat \ {0}
  BY <1>1, SettingsKnown
<1>3. /\ settings.has_data
      /\ mip_levels = UsedLevels(settings)
      /\ tmp_image = NotCreated
      /\ image \in DeviceImages(DeviceLevels)
      /\ \A l \in 1 .. mip_levels : image.layouts[l] = "general"
      /\ image.contents[1] = "data"
      /\ image.shared = SharedBy(settings.queues) /\ image.owner = 0
  BY <1>1 DEF ImageInv, UploadingInv
<1> DEFINE n == DeviceLevels
<1>4. image' = Barrier(Acquire(image, "transfer"), 1 .. mip_levels, "general", "transfer_dst")
  BY <1>1 DEF Uploaded, UploadTarget, UploadLevels
<1>5. /\ Unloaded(n, image, image')
      /\ \A l \in 1 .. mip_levels : image'.layouts[l] = "transfer_dst"
  <2>1. n \in Nat /\ mip_levels \in 1 .. n /\ image \in DeviceImages(n)
    BY <1>2, <1>3
  <2> HIDE DEF n
  <2> QED
    BY <1>2, <1>3, <1>4, <2>1, UploadedIs
<1>6. /\ SharedBy(settings.queues)' = SharedBy(settings.queues)
      /\ DeviceLevels' = DeviceLevels
      /\ Visible' = ({families["graphics"], families["transfer"]} \subseteq image'.shared)
      /\ FullLevels' = 1
  BY <1>1, SharedKept DEF DeviceLevels, Visible, FullLevels
<1>7. ASSUME Visible'
      PROVE  OwnerFits(image)' /\ image'.contents[1] = "data"
  <2>1. families["transfer"] \in image.shared
    BY <1>5, <1>6, <1>7 DEF Unloaded
  <2>2. ~Loses(image, "transfer")
    <3>1. OwnerFits(image) /\ "transfer" \in QueueKinds
      BY <1>3 DEF OwnerFits, QueueKinds
    <3> QED
      BY <1>2, <1>3, <2>1, <3>1, Keeps
  <2> QED
    BY <1>3, <1>5, <2>1, <2>2 DEF Unloaded, OwnerFits
<1>8. SettingsInv'
  BY <1>1 DEF ImageInv, SettingsInv, Steps, DeviceLevels
<1>9. FilledInv'
  <2>1. image' \in DeviceImages(DeviceLevels) /\ image'.shared = SharedBy(settings.queues)
    BY <1>3, <1>5 DEF Unloaded
  <2>2. \A l \in 1 .. FullLevels' : l = 1
    BY <1>6
  <2> QED
    BY <1>1, <1>3, <1>5, <1>6, <1>7, <2>1, <2>2 DEF FilledInv, LayoutKinds
<1>10. PreparingInv'
  <2>1. mip_levels > 1 => settings.filterable
    BY <1>2, <1>3, SettingsFit
  <2> QED
    BY <1>1, <1>3, <2>1 DEF PreparingInv
<1>11. UploadingInv' /\ ReducingInv'
  BY <1>1 DEF UploadingInv, ReducingInv
<1> QED
  BY <1>8, <1>9, <1>10, <1>11 DEF ImageInv

LEMMA UploadRulesHold ==
  ASSUME FamiliesInv, ImageInv, step = "upload"
  PROVE  AllHold(UploadRules)
<1>1. /\ families \in [QueueKinds -> Nat]
      /\ mip_levels \in Nat \ {0} /\ mip_levels <= DeviceLevels /\ DeviceLevels \in Nat \ {0}
  BY SettingsKnown
<1>2. BarrierValid(UploadTarget, UploadLevels, "general")
  <2>1. CASE Reduces
    <3>1. tmp_image \in DeviceImages(1) /\ tmp_image.layouts[1] = "general"
      BY <2>1 DEF ImageInv, UploadingInv
    <3>2. DOMAIN tmp_image.layouts = 1 .. 1
      BY <3>1 DEF DeviceImages
    <3> QED
      BY <2>1, <3>1, <3>2 DEF UploadTarget, UploadLevels, BarrierValid
  <2>2. CASE ~Reduces
    <3>1. /\ image \in DeviceImages(DeviceLevels)
          /\ \A l \in 1 .. mip_levels : image.layouts[l] = "general"
      BY <2>2 DEF ImageInv, UploadingInv
    <3>2. DOMAIN image.layouts = 1 .. DeviceLevels
      BY <3>1 DEF DeviceImages
    <3>3. 1 \in 1 .. mip_levels /\ 1 .. mip_levels \subseteq 1 .. DeviceLevels
      BY <1>1
    <3> QED
      BY <2>2, <3>1, <3>2, <3>3 DEF UploadTarget, UploadLevels, BarrierValid
  <2> QED
    BY <2>1, <2>2
<1> QED
  BY <1>2 DEF UploadRules, AllHold

(* The blit of the temporary image.                                          *)
SourceReady ==
  /\ Source.layouts[1] = "transfer_src"
  /\ Source.contents[1] = "data"
  /\ tmp_image.layouts[1] = "transfer_dst"
  /\ DOMAIN tmp_image.layouts = 1 .. 1

TargetReady(n) ==
  /\ Target \in DeviceImages(n)
  /\ \A l \in 1 .. n : Target.layouts[l] = "transfer_dst"
  /\ Target.shared = SharedBy(settings.queues)
  /\ Target.owner = families["graphics"]

LEMMA SourceIs ==
  ASSUME FamiliesInv, ImageInv, step = "reduce"
  PROVE  SourceReady
<1>1. /\ families \in [QueueKinds -> Nat]
      /\ families["graphics"] \in Nat \ {0} /\ families["transfer"] \in Nat \ {0}
  BY SettingsKnown
<1>2. /\ tmp_image \in DeviceImages(1)
      /\ tmp_image.layouts[1] = "transfer_dst" /\ tmp_image.contents[1] = "data"
      /\ tmp_image.shared = SharedBy(TemporaryQueues)
      /\ tmp_image.owner = families["transfer"]
  BY DEF ImageInv, ReducingInv
<1>3. ~Loses(tmp_image, "graphics")
  <2>1. /\ TemporaryQueues \in SUBSET QueueKinds /\ "transfer" \in TemporaryQueues
        /\ "graphics" \in TemporaryQueues /\ "graphics" \in QueueKinds
    BY DEF TemporaryQueues, QueueKinds
  <2>2. {families["graphics"], families["transfer"]} \subseteq SharedBy(TemporaryQueues)
    BY <1>1, <2>1, SharedIs
  <2>3. OwnerFits(tmp_image)
    BY <1>2, <2>2 DEF OwnerFits
  <2> QED
    BY <1>1, <1>2, <2>1, <2>2, <2>3, Keeps
<1> DEFINE n == 1
           acquired == Acquire(tmp_image, "graphics")
<1>4. n \in Nat /\ tmp_image \in DeviceImages(n) /\ 1 \in 1 .. n
  BY <1>2
<1> HIDE DEF n
<1>5. AcquiredImage(n, "graphics", tmp_image, acquired)
  BY <1>1, <1>4, AcquireImage DEF QueueKinds
<1>6. Source = Barrier(acquired, {1}, "transfer_dst", "transfer_src")
  BY DEF Source
<1> HIDE DEF acquired
<1>7. BarrierDone(n, {1}, "transfer_dst", "transfer_src", acquired, Source)
  <2>1. acquired \in DeviceImages(n) /\ "transfer_src" \in LayoutKinds
    BY <1>5 DEF AcquiredImage, LayoutKinds
  <2> QED
    BY <1>4, <1>6, <2>1, BarrierIs
<1>8. Source.contents[1] = "data"
  BY <1>2, <1>3, <1>5, <1>7 DEF AcquiredImage, BarrierDone
<1>9. Source.layouts[1] = "transfer_src"
  BY <1>4, <1>7 DEF BarrierDone
<1>10. DOMAIN tmp_image.layouts = 1 .. 1
  BY <1>2 DEF DeviceImages
<1> QED
  BY <1>2, <1>8, <1>9, <1>10 DEF SourceReady

LEMMA Remaining ==
  ASSUME FamiliesInv, ImageInv, step = "reduce"
  PROVE  /\ RemainingLevels \in Nat \ {0}
         /\ MipLevels(ReducedExtent) = RemainingLevels
         /\ ReducedExtent \in (Nat \ {0}) \X (Nat \ {0})
         /\ settings.filterable = TRUE
<1>1. settings \in Settings /\ Legal(settings) /\ extent \in (Nat \ {0}) \X (Nat \ {0})
  BY SettingsKnown
<1>2. extent = settings.extent /\ mip_levels = UsedLevels(settings) /\ UsedBase(settings) > 0
  BY DEF ImageInv, ReducingInv, Reduces
<1>3. /\ UsedBase(settings) \in {1, 2} /\ UsedBase(settings) < MipLevels(extent)
      /\ mip_levels = MipLevels(extent) /\ settings.filterable = TRUE
      /\ MipLevels(extent) \in Nat \ {0}
  BY <1>1, <1>2, SettingsFit
<1>4. /\ Reduced(extent, UsedBase(settings)) \in (Nat \ {0}) \X (Nat \ {0})
      /\ MipLevels(Reduced(extent, UsedBase(settings))) = MipLevels(extent) - UsedBase(settings)
  BY <1>1, <1>3, ReducedLevels
<1> QED
  BY <1>3, <1>4 DEF ReducedExtent, RemainingLevels

LEMMA TargetIs ==
  ASSUME FamiliesInv, ImageInv, step = "reduce"
  PROVE  TargetReady(RemainingLevels)
<1>1. families \in [QueueKinds -> Nat] /\ settings.queues \in SUBSET QueueKinds
  BY SettingsKnown
<1> DEFINE n == RemainingLevels
           m == NewImage(n, settings.queues)
           acquired == Acquire(m, "graphics")
<1>2. n \in Nat /\ Target = Barrier(acquired, 1 .. n, "undefined", "transfer_dst")
  BY Remaining DEF Target
<1> HIDE DEF n
<1>3. m \in DeviceImages(n) /\ m.shared = SharedBy(settings.queues)
  BY <1>1, <1>2, NewImageIs
<1> HIDE DEF m
<1>4. AcquiredImage(n, "graphics", m, acquired)
  BY <1>1, <1>2, <1>3, AcquireImage DEF QueueKinds
<1> HIDE DEF acquired
<1>5. BarrierDone(n, 1 .. n, "undefined", "transfer_dst", acquired, Target)
  <2>1. acquired \in DeviceImages(n) /\ "transfer_dst" \in LayoutKinds
    BY <1>4 DEF AcquiredImage, LayoutKinds
  <2> QED
    BY <1>2, <2>1, BarrierIs
<1>6. TargetReady(n)
  BY <1>3, <1>4, <1>5 DEF AcquiredImage, BarrierDone, TargetReady
<1> QED
  BY <1>6 DEF n

LEMMA ReduceRulesHold ==
  ASSUME FamiliesInv, ImageInv, step = "reduce"
  PROVE  AllHold(ReduceRules)
<1>1. RemainingLevels \in Nat \ {0} /\ settings.filterable = TRUE
  BY Remaining
<1>2. SourceReady /\ TargetReady(RemainingLevels)
  BY SourceIs, TargetIs
<1>3. BarrierValid(tmp_image, {1}, "transfer_dst")
  BY <1>2 DEF BarrierValid, SourceReady
<1>4. DOMAIN Target.layouts = 1 .. RemainingLevels
  BY <1>2 DEF TargetReady, DeviceImages
<1>5. BlitValid(Source, 1, Target, 1)
  <2>1. 1 \in 1 .. RemainingLevels
    BY <1>1
  <2> QED
    BY <1>1, <1>2, <2>1 DEF BlitValid, SourceReady, TargetReady
<1> QED
  BY <1>3, <1>4, <1>5 DEF AllHold, ReduceRules

LEMMA ReduceKeeps ==
  ASSUME FamiliesInv, ImageInv, Reduce, UNCHANGED <<families, failures>>
  PROVE  ImageInv'
<1>1. /\ step = "reduce" /\ image' = Blit(Source, 1, Target, 1) /\ extent' = ReducedExtent
      /\ mip_levels' = RemainingLevels /\ tmp_image' = NotCreated /\ step' = "prepare"
      /\ layout' = "transfer_dst"
      /\ UNCHANGED <<settings, view, sampler, families, failures>>
  BY DEF Reduce
<1>2. /\ families \in [QueueKinds -> Nat]
      /\ settings \in Settings /\ Legal(settings) /\ settings.queues \in SUBSET QueueKinds
      /\ SamplerRefused(settings) => failures # 0
  BY <1>1, SettingsKnown
<1>3. settings.has_data
  BY <1>1 DEF ImageInv, ReducingInv
<1> DEFINE n == RemainingLevels
<1>4. /\ n \in Nat \ {0} /\ MipLevels(ReducedExtent) = n
      /\ ReducedExtent \in (Nat \ {0}) \X (Nat \ {0}) /\ settings.filterable = TRUE
  BY <1>1, Remaining
<1>5. SourceReady /\ TargetReady(n)
  BY <1>1, SourceIs, TargetIs
<1>6. BlitDone(n, "data", Target, image')
  <2> HIDE DEF n
  <2>1. Target \in DeviceImages(n) /\ Source.contents[1] = "data"
    BY <1>5 DEF SourceReady, TargetReady
  <2>2. BlitDone(n, Source.contents[1], Target, Blit(Source, 1, Target, 1))
    BY <1>4, <2>1, BlitIs
  <2> QED
    BY <1>1, <2>1, <2>2
<1>7. /\ image' \in DeviceImages(n)
      /\ \A l \in 1 .. n : image'.layouts[l] = "transfer_dst"
      /\ image'.contents[1] = "data"
      /\ image'.shared = SharedBy(settings.queues)
      /\ image'.owner = families["graphics"]
  BY <1>5, <1>6 DEF TargetReady, BlitDone
<1>8. /\ SharedBy(settings.queues)' = SharedBy(settings.queues)
      /\ DeviceLevels' = n
      /\ Visible' = ({families["graphics"], families["transfer"]} \subseteq image'.shared)
      /\ FullLevels' = 1
  BY <1>1, <1>3, <1>4, SharedKept DEF DeviceLevels, Visible, FullLevels
<1>9. SettingsInv'
  BY <1>1, <1>2, <1>4, <1>8 DEF SettingsInv, Steps
<1>10. Visible' => OwnerFits(image)'
  BY <1>7, <1>8 DEF OwnerFits
<1>11. FilledInv'
  <2>1. \A l \in 1 .. FullLevels' : l = 1
    BY <1>8
  <2> QED
    BY <1>1, <1>7, <1>8, <1>10, <2>1 DEF FilledInv, LayoutKinds
<1>12. PreparingInv'
  BY <1>1, <1>3, <1>4 DEF PreparingInv
<1>13. UploadingInv' /\ ReducingInv'
  BY <1>1 DEF UploadingInv, ReducingInv
<1> QED
  BY <1>9, <1>11, <1>12, <1>13 DEF ImageInv

(* The levels that follow, and the other transitions.                        *)
LEMMA PreparedIs ==
  ASSUME FamiliesInv, ImageInv, step = "prepare"
  PROVE  ReadyToSample(DeviceLevels, image, Prepared)
<1> DEFINE n == DeviceLevels
<1>1. /\ families \in [QueueKinds -> Nat] /\ settings.filterable \in BOOLEAN
      /\ mip_levels \in Nat \ {0} /\ mip_levels <= n /\ n \in Nat \ {0}
  BY SettingsKnown
<1>2. image \in DeviceImages(n) /\ \A l \in 1 .. mip_levels : image.layouts[l] = layout
  BY DEF ImageInv, FilledInv
<1>3. layout = "transfer_dst" /\ (mip_levels > 1 => settings.filterable)
  BY DEF ImageInv, PreparingInv
<1> HIDE DEF n
<1>4. CASE mip_levels > 1
  <2>1. settings.filterable = TRUE /\ n \in Nat
    BY <1>1, <1>3, <1>4
  <2>2. \A l \in 1 .. mip_levels : image.layouts[l] = "transfer_dst"
    BY <1>2, <1>3
  <2>3. ReadyToSample(n, image, Mipmaps)
    BY <1>1, <1>2, <2>1, <2>2, MipmapsAre
  <2> QED
    BY <1>4, <2>3 DEF Prepared, n
<1>5. CASE ~(mip_levels > 1)
  <2>1. n \in Nat /\ "shader_read" \in LayoutKinds /\ layout # "undefined"
    BY <1>1, <1>3 DEF LayoutKinds
  <2>2. TransitionDone(n, layout, "shader_read", image, Transition("shader_read"))
    BY <1>1, <1>2, <2>1, TransitionIs
  <2>3. \A l \in 1 .. mip_levels : l = 1
    BY <1>1, <1>5
  <2>4. ReadyToSample(n, image, Transition("shader_read"))
    BY <2>1, <2>2, <2>3 DEF ReadyToSample, TransitionDone
  <2> QED
    BY <1>5, <2>4 DEF Prepared, n
<1> QED
  BY <1>4, <1>5

LEMMA PreparedRulesHold ==
  ASSUME FamiliesInv, ImageInv, step = "prepare"
  PROVE  AllHold(RulesOf(Prepared))
<1>1. Prepared.barrier /\ Prepared.blit
  BY PreparedIs DEF ReadyToSample
<1> QED
  BY <1>1 DEF AllHold, RulesOf

LEMMA VisibleKeeps ==
  ASSUME FamiliesInv, ImageInv, step \in {"prepare", "live"}, Visible, settings.has_data,
         NEW kind \in QueueKinds, families[kind] \in image.shared
  PROVE  ~Loses(image, kind)
<1>1. families \in [QueueKinds -> Nat] /\ settings.queues \in SUBSET QueueKinds
  BY SettingsKnown
<1>2. image.shared = SharedBy(settings.queues) /\ OwnerFits(image)
  BY DEF ImageInv, FilledInv
<1> QED
  BY <1>1, <1>2, Keeps

LEMMA PrepareSamplingKeeps ==
  ASSUME FamiliesInv, ImageInv, PrepareSampling, UNCHANGED <<families, failures>>
  PROVE  ImageInv'
<1>1. /\ step = "prepare" /\ settings.sampled /\ image' = Prepared.memory
      /\ layout' = "shader_read" /\ step' = "finish"
      /\ UNCHANGED <<settings, extent, mip_levels, tmp_image, view, sampler, families, failures>>
  BY DEF PrepareSampling
<1>2. /\ tmp_image = NotCreated
      /\ image.shared = SharedBy(settings.queues)
      /\ settings.has_data
      /\ Visible => image.contents[1] = "data"
  <2>1. /\ tmp_image = NotCreated
        /\ image.shared = SharedBy(settings.queues)
        /\ settings.has_data
        /\ Visible => \A l \in 1 .. FullLevels : image.contents[l] = "data"
    BY <1>1 DEF ImageInv, FilledInv, PreparingInv
  <2>2. 1 \in 1 .. FullLevels
    BY <1>1 DEF FullLevels
  <2> QED
    BY <2>1, <2>2
<1>3. ReadyToSample(DeviceLevels, image, Prepared)
  BY <1>1, PreparedIs
<1>4. /\ image' \in DeviceImages(DeviceLevels)
      /\ image'.shared = image.shared
      /\ image'.owner = families["graphics"]
      /\ \A l \in 1 .. mip_levels : image'.layouts[l] = "shader_read"
      /\ ~Loses(image, "graphics") /\ image.contents[1] = "data" =>
           \A l \in 1 .. mip_levels : image'.contents[l] = "data"
  BY <1>1, <1>3 DEF ReadyToSample, Recordings
<1>5. /\ SharedBy(settings.queues)' = SharedBy(settings.queues)
      /\ DeviceLevels' = DeviceLevels
      /\ Visible' = Visible
      /\ FullLevels' = mip_levels
  BY <1>1, <1>4, SharedKept DEF DeviceLevels, Visible, FullLevels
<1>6. ASSUME Visible
      PROVE  OwnerFits(image)' /\ \A l \in 1 .. mip_levels : image'.contents[l] = "data"
  <2>1. families["graphics"] \in image.shared
    BY <1>6 DEF Visible
  <2>2. ~Loses(image, "graphics")
    BY <1>1, <1>2, <1>6, <2>1, VisibleKeeps DEF QueueKinds
  <2> QED
    BY <1>2, <1>4, <1>6, <2>1, <2>2 DEF OwnerFits
<1>7. SettingsInv'
  BY <1>1 DEF ImageInv, SettingsInv, Steps, DeviceLevels
<1>8. FilledInv'
  BY <1>1, <1>2, <1>4, <1>5, <1>6 DEF FilledInv, LayoutKinds
<1>9. PreparingInv'
  BY <1>1, <1>2 DEF PreparingInv
<1>10. UploadingInv' /\ ReducingInv'
  BY <1>1 DEF UploadingInv, ReducingInv
<1> QED
  BY <1>7, <1>8, <1>9, <1>10 DEF ImageInv

LEMMA FinishKeeps ==
  ASSUME FamiliesInv, ImageInv, Finish
  PROVE  ImageInv'
<1>1. /\ step = "finish" \/ (step = "prepare" /\ ~settings.sampled)
      /\ step' = "live"
      /\ UNCHANGED <<settings, extent, mip_levels, layout, tmp_image, image, families, failures>>
  BY DEF Finish, Finishing, deviceVars
<1>2. /\ SharedBy(settings.queues)' = SharedBy(settings.queues)
      /\ DeviceLevels' = DeviceLevels
      /\ Visible' = Visible
      /\ FullLevels' = FullLevels
      /\ OwnerFits(image)' = OwnerFits(image)
  BY <1>1, SharedKept DEF DeviceLevels, Visible, FullLevels, OwnerFits
<1>3. SettingsInv'
  BY <1>1 DEF ImageInv, SettingsInv, Steps, DeviceLevels
<1>4. FilledInv'
  BY <1>1, <1>2 DEF ImageInv, FilledInv
<1>5. UploadingInv' /\ ReducingInv' /\ PreparingInv'
  BY <1>1 DEF UploadingInv, ReducingInv, PreparingInv
<1> QED
  BY <1>3, <1>4, <1>5 DEF ImageInv

LEMMA TransitionRulesHold ==
  ASSUME FamiliesInv, ImageInv, step = "live", NEW new \in Layouts
  PROVE  /\ AllHold(RulesOf(Transition(new)))
         /\ TransitionDone(DeviceLevels, layout, new, image, Transition(new))
<1> DEFINE n == DeviceLevels
<1>1. /\ families \in [QueueKinds -> Nat]
      /\ mip_levels \in Nat \ {0} /\ mip_levels <= n /\ n \in Nat
  BY SettingsKnown
<1>2. image \in DeviceImages(n) /\ \A l \in 1 .. mip_levels : image.layouts[l] = layout
  BY DEF ImageInv, FilledInv
<1> HIDE DEF n
<1>3. TransitionDone(n, layout, new, image, Transition(new))
  <2>1. new \in LayoutKinds
    BY DEF LayoutKinds
  <2> QED
    BY <1>1, <1>2, <2>1, TransitionIs
<1>4. Transition(new).barrier /\ Transition(new).blit
  BY <1>3 DEF TransitionDone
<1> QED
  BY <1>3, <1>4 DEF AllHold, RulesOf, n

LEMMA TransitionKeeps ==
  ASSUME FamiliesInv, ImageInv, NEW new \in Layouts, TransitionImageLayout(new),
         UNCHANGED <<families, failures>>
  PROVE  ImageInv'
<1>1. /\ step = "live" /\ image' = Transition(new).memory /\ layout' = new
      /\ UNCHANGED <<settings, step, extent, mip_levels, tmp_image, view, sampler, families,
                     failures>>
  BY DEF TransitionImageLayout
<1>2. TransitionDone(DeviceLevels, layout, new, image, Transition(new))
  BY <1>1, TransitionRulesHold
<1>3. /\ tmp_image = NotCreated
      /\ image.shared = SharedBy(settings.queues)
      /\ settings.has_data =>
           /\ layout # "undefined"
           /\ Visible => \A l \in 1 .. FullLevels : image.contents[l] = "data"
  BY <1>1 DEF ImageInv, FilledInv
<1>4. /\ image' \in DeviceImages(DeviceLevels)
      /\ image'.shared = image.shared
      /\ image'.owner = families["graphics"]
      /\ \A l \in 1 .. mip_levels : image'.layouts[l] = new
      /\ ~Loses(image, "graphics") /\ layout # "undefined" => image'.contents = image.contents
  BY <1>1, <1>2 DEF TransitionDone, Recordings
<1>5. /\ SharedBy(settings.queues)' = SharedBy(settings.queues)
      /\ DeviceLevels' = DeviceLevels
      /\ Visible' = Visible
      /\ FullLevels' = FullLevels
  BY <1>1, <1>4, SharedKept DEF DeviceLevels, Visible, FullLevels
<1>6. new # "undefined" /\ new \in LayoutKinds
  BY ImageAssumption DEF LayoutKinds
<1>7. ASSUME settings.has_data, Visible
      PROVE  OwnerFits(image)' /\ \A l \in 1 .. FullLevels : image'.contents[l] = "data"
  <2>1. families["graphics"] \in image.shared
    BY <1>7 DEF Visible
  <2>2. ~Loses(image, "graphics")
    BY <1>1, <1>7, <2>1, VisibleKeeps DEF QueueKinds
  <2> QED
    BY <1>3, <1>4, <1>7, <2>1, <2>2 DEF OwnerFits
<1>8. SettingsInv'
  BY <1>1 DEF ImageInv, SettingsInv, Steps, DeviceLevels
<1>9. FilledInv'
  BY <1>1, <1>3, <1>4, <1>5, <1>6, <1>7 DEF FilledInv
<1>10. UploadingInv' /\ ReducingInv' /\ PreparingInv'
  BY <1>1 DEF UploadingInv, ReducingInv, PreparingInv
<1> QED
  BY <1>8, <1>9, <1>10 DEF ImageInv

LEMMA CreateSamplerKeeps ==
  ASSUME ImageInv, CreateSampler
  PROVE  ImageInv'
<1>1. /\ step = "live"
      /\ UNCHANGED <<settings, step, extent, mip_levels, layout, tmp_image, image, families,
                     failures>>
  BY DEF CreateSampler
<1>2. SettingsInv'
  BY <1>1 DEF ImageInv, SettingsInv, Steps, DeviceLevels
<1>3. UploadingInv' /\ ReducingInv' /\ PreparingInv'
  BY <1>1 DEF UploadingInv, ReducingInv, PreparingInv
<1>4. FilledInv'
  BY <1>1 DEF ImageInv, FilledInv, DeviceLevels, SharedBy, Visible, OwnerFits, FullLevels
<1> QED
  BY <1>2, <1>3, <1>4 DEF ImageInv

LEMMA UseImageKeeps ==
  ASSUME FamiliesInv, ImageInv, NEW kind \in QueueKinds, UseImage(kind)
  PROVE  ImageInv'
<1>1. /\ step = "live" /\ kind \in settings.queues /\ families[kind] # 0
      /\ image' = Acquire(image, kind)
      /\ UNCHANGED <<settings, step, extent, mip_levels, layout, tmp_image, families, failures>>
  BY DEF UseImage, deviceVars
<1>2. /\ families \in [QueueKinds -> Nat] /\ settings.queues \in SUBSET QueueKinds
      /\ DeviceLevels \in Nat
  BY <1>1, SettingsKnown
<1>3. /\ tmp_image = NotCreated
      /\ image \in DeviceImages(DeviceLevels)
      /\ image.shared = SharedBy(settings.queues)
      /\ layout \in LayoutKinds
      /\ \A l \in 1 .. mip_levels : image.layouts[l] = layout
      /\ settings.has_data =>
           /\ layout # "undefined"
           /\ Visible => \A l \in 1 .. FullLevels : image.contents[l] = "data"
  BY <1>1 DEF ImageInv, FilledInv
<1>4. AcquiredImage(DeviceLevels, kind, image, image')
  BY <1>1, <1>2, <1>3, AcquireImage
<1>5. /\ SharedBy(settings.queues)' = SharedBy(settings.queues)
      /\ DeviceLevels' = DeviceLevels
      /\ Visible' = Visible
      /\ FullLevels' = FullLevels
  BY <1>1, <1>4, SharedKept DEF DeviceLevels, Visible, FullLevels, AcquiredImage
<1>6. families[kind] \in image.shared
  BY <1>1, <1>2, <1>3, SharedIs
<1>7. ASSUME settings.has_data, Visible
      PROVE  OwnerFits(image)' /\ image'.contents = image.contents
  <2>1. ~Loses(image, kind)
    BY <1>1, <1>6, <1>7, VisibleKeeps
  <2> QED
    BY <1>4, <1>6, <2>1 DEF OwnerFits, AcquiredImage
<1>8. SettingsInv'
  BY <1>1 DEF ImageInv, SettingsInv, Steps, DeviceLevels
<1>9. FilledInv'
  BY <1>1, <1>3, <1>4, <1>5, <1>7 DEF FilledInv, AcquiredImage
<1>10. UploadingInv' /\ ReducingInv' /\ PreparingInv'
  BY <1>1 DEF UploadingInv, ReducingInv, PreparingInv
<1> QED
  BY <1>8, <1>9, <1>10 DEF ImageInv

(* A failed constructor leaves nothing that counts.                          *)
ImageSteps == FamiliesInv' /\ CommandsInv' /\ ImageInv'

LEMMA CreatingSteps ==
  ASSUME FamiliesInv, CommandsInv, ImageInv, families # NotCreated, step = "none",
         NEW s \in Settings, Legal(s),
         CreateEmpty(s) \/ CreateEmptyThrows(s) \/ CreateForUpload(s) \/ CreateForUploadThrows(s)
  PROVE  ImageSteps /\ UNCHANGED families
<1>1. CASE CreateEmpty(s)
  <2>1. UNCHANGED <<offered, surface, families, one_time_cbs, failures, leaked, invalid>>
    BY <1>1 DEF CreateEmpty, deviceVars
  <2> QED
    BY <1>1, <2>1, CreateEmptyKeeps, NoCommandKeeps, FamiliesKept DEF ImageSteps
<1>2. CASE CreateEmptyThrows(s) \/ CreateForUploadThrows(s)
  <2>1. Fails /\ UNCHANGED <<imageVars, offered, surface, families, one_time_cbs, invalid>>
    BY <1>2 DEF CreateEmptyThrows, CreateForUploadThrows
  <2>2. CommandsInv' /\ failures' # 0
    BY <2>1, FailKeeps
  <2> QED
    BY <2>1, <2>2, ImageKept, FamiliesKept DEF ImageSteps
<1>3. CASE CreateForUpload(s)
  <2>1. /\ IF SamplerRefused(s) THEN Fails ELSE UNCHANGED failures
        /\ UNCHANGED <<offered, surface, families, one_time_cbs, leaked, invalid>>
    BY <1>3 DEF CreateForUpload
  <2>2. CommandsInv'
    BY <2>1, FailKeeps, NoCommandKeeps
  <2> QED
    BY <1>3, <2>1, <2>2, CreateForUploadKeeps, FamiliesKept DEF ImageSteps
<1> QED
  BY <1>1, <1>2, <1>3

(* What the one-time submissions of an image do.                             *)
LEMMA RunningSteps ==
  ASSUME FamiliesInv, CommandsInv, ImageInv, families # NotCreated,
         UploadTemporary \/ Upload \/ Reduce \/ PrepareSampling
         \/ \E new \in Layouts : TransitionImageLayout(new)
  PROVE  ImageSteps /\ UNCHANGED families
<1> DEFINE Ran == CommandsInv' /\ UNCHANGED <<offered, surface, families, failures>>
<1>1. Ran
  <2>0. "transfer" \in OneTimeTypes /\ "graphics" \in OneTimeTypes
    BY DEF OneTimeTypes
  <2>1. CASE UploadTemporary
    <3>1. step = "upload" /\ RunOneTime("transfer", UploadRules) /\ UNCHANGED leaked
      BY <2>1 DEF UploadTemporary
    <3> QED
      BY <2>0, <3>1, UploadRulesHold, RunKeeps
  <2>2. CASE Upload
    <3>1. step = "upload" /\ RunOneTime("transfer", UploadRules) /\ UNCHANGED leaked
      BY <2>2 DEF Upload
    <3> QED
      BY <2>0, <3>1, UploadRulesHold, RunKeeps
  <2>3. CASE Reduce
    <3>1. step = "reduce" /\ RunOneTime("graphics", ReduceRules) /\ UNCHANGED leaked
      BY <2>3 DEF Reduce
    <3> QED
      BY <2>0, <3>1, ReduceRulesHold, RunKeeps
  <2>4. CASE PrepareSampling
    <3>1. step = "prepare" /\ RunOneTime("graphics", RulesOf(Prepared)) /\ UNCHANGED leaked
      BY <2>4 DEF PrepareSampling
    <3> QED
      BY <2>0, <3>1, PreparedRulesHold, RunKeeps
  <2>5. ASSUME NEW new \in Layouts, TransitionImageLayout(new)
        PROVE  Ran
    <3>1. /\ step = "live" /\ RunOneTime("graphics", RulesOf(Transition(new))) /\ UNCHANGED leaked
      BY <2>5 DEF TransitionImageLayout
    <3> QED
      BY <2>0, <3>1, TransitionRulesHold, RunKeeps
  <2> QED
    BY <2>1, <2>2, <2>3, <2>4, <2>5
<1>2. FamiliesInv'
  BY <1>1, FamiliesKept
<1>3. ImageInv'
  BY <1>1, UploadTemporaryKeeps, UploadKeeps, ReduceKeeps, PrepareSamplingKeeps, TransitionKeeps
<1> QED
  BY <1>1, <1>2, <1>3 DEF ImageSteps

LEMMA ThrowingSteps ==
  ASSUME FamiliesInv, CommandsInv, ImageInv, families # NotCreated,
         UploadThrows \/ ReduceThrows \/ PrepareSamplingThrows
         \/ \E new \in Layouts : TransitionImageLayoutThrows(new)
  PROVE  ImageSteps /\ UNCHANGED families
<1> DEFINE Thrown == /\ CommandsInv' /\ UNCHANGED <<offered, surface, families>> /\ failures' # 0
                     /\ Forget \/ UNCHANGED imageVars
<1>1. Thrown
  <2>0. "transfer" \in OneTimeTypes /\ "graphics" \in OneTimeTypes
    BY DEF OneTimeTypes
  <2>1. CASE UploadThrows
    <3>1. step = "upload" /\ RunOneTimeThrows("transfer", UploadRules, "ready") /\ Forget
      BY <2>1 DEF UploadThrows, ConstructorThrows
    <3> QED
      BY <2>0, <3>1, UploadRulesHold, ThrowKeeps
  <2>2. CASE ReduceThrows
    <3>1. /\ step = "reduce" /\ Forget
          /\ \/ RunOneTimeThrows("graphics", [begin |-> TRUE], "recording")
             \/ RunOneTimeThrows("graphics", ReduceRules, "ready")
      BY <2>2 DEF ReduceThrows, ConstructorThrows
    <3>2. AllHold([begin |-> TRUE])
      BY DEF AllHold
    <3> QED
      BY <2>0, <3>1, <3>2, ReduceRulesHold, ThrowKeeps
  <2>3. CASE PrepareSamplingThrows
    <3>1. /\ step = "prepare" /\ Forget
          /\ RunOneTimeThrows("graphics", RulesOf(Prepared), "ready")
      BY <2>3 DEF PrepareSamplingThrows, ConstructorThrows
    <3> QED
      BY <2>0, <3>1, PreparedRulesHold, ThrowKeeps
  <2>4. ASSUME NEW new \in Layouts, TransitionImageLayoutThrows(new)
        PROVE  Thrown
    <3>1. /\ step = "live" /\ UNCHANGED imageVars
          /\ RunOneTimeThrows("graphics", RulesOf(Transition(new)), "ready")
      BY <2>4 DEF TransitionImageLayoutThrows
    <3> QED
      BY <2>0, <3>1, TransitionRulesHold, ThrowKeeps
  <2> QED
    BY <2>1, <2>2, <2>3, <2>4
<1>2. FamiliesInv'
  BY <1>1, FamiliesKept
<1>3. ImageInv'
  BY <1>1, ForgetKeeps, ImageKept
<1> QED
  BY <1>1, <1>2, <1>3 DEF ImageSteps

LEMMA OtherImageSteps ==
  ASSUME FamiliesInv, CommandsInv, ImageInv, families # NotCreated,
         Finish \/ FinishThrows \/ CreateSampler \/ DestroyImage
         \/ \E kind \in QueueKinds : UseImage(kind)
  PROVE  ImageSteps /\ UNCHANGED families
<1>1. CASE Finish \/ DestroyImage \/ \E kind \in QueueKinds : UseImage(kind)
  <2>1. UNCHANGED <<offered, surface, families, one_time_cbs, failures, leaked, invalid>>
    BY <1>1 DEF Finish, DestroyImage, UseImage, deviceVars
  <2>2. DestroyImage => Forget
    BY DEF DestroyImage
  <2>3. ImageInv'
    BY <1>1, <2>2, FinishKeeps, ForgetKeeps, UseImageKeeps
  <2> QED
    BY <2>1, <2>3, NoCommandKeeps, FamiliesKept DEF ImageSteps
<1>2. CASE CreateSampler
  <2>1. /\ UNCHANGED <<offered, surface, families, one_time_cbs, failures, invalid>>
        /\ leaked' = leaked \union IF sampler THEN {"replaced sampler"} ELSE {}
    BY <1>2 DEF CreateSampler
  <2>2. leaked' \subseteq leaked \union {"replaced sampler"}
    BY <2>1
  <2>3. CommandsInv'
    BY <2>1, <2>2 DEF CommandsInv
  <2> QED
    BY <1>2, <2>1, <2>3, CreateSamplerKeeps, FamiliesKept DEF ImageSteps
<1>3. CASE FinishThrows
  <2>1. /\ step \in {"finish", "prepare"} /\ Forget
        /\ \/ SamplerRefused(settings) /\ UNCHANGED failures
           \/ Fails
        /\ UNCHANGED <<offered, surface, families, one_time_cbs, invalid>>
    BY <1>3 DEF FinishThrows, Finishing, ConstructorThrows
  <2>2. failures' \in Nat /\ failures' # 0
    <3>1. CASE Fails
      BY <3>1, FailsCounts DEF Fails
    <3>2. CASE SamplerRefused(settings) /\ UNCHANGED failures
      <4>1. failures # 0
        BY <2>1, <3>2, SettingsKnown
      <4> QED
        BY <3>2, <4>1 DEF CommandsInv
    <3> QED
      BY <2>1, <3>1, <3>2
  <2>3. CommandsInv'
    BY <2>1, <2>2 DEF CommandsInv
  <2> QED
    BY <2>1, <2>3, ForgetKeeps, FamiliesKept DEF ImageSteps
<1> QED
  BY <1>1, <1>2, <1>3

LEMMA ImageNextKeeps ==
  ASSUME IInv, ImageNext, UNCHANGED bufferVars
  PROVE  IInv'
<1>1. FamiliesInv /\ CommandsInv /\ ImageInv /\ BufferInv
  BY DEF IInv
<1>2. step # "none" => families # NotCreated
  BY <1>1 DEF FamiliesInv
<1>3. ImageSteps /\ UNCHANGED families
  <2>1. ASSUME DeviceConstructed, step = "none", NEW s \in Settings, Legal(s),
               CreateEmpty(s) \/ CreateEmptyThrows(s) \/ CreateForUpload(s)
               \/ CreateForUploadThrows(s)
        PROVE  ImageSteps /\ UNCHANGED families
    <3>1. families # NotCreated
      BY <2>1 DEF DeviceConstructed
    <3> QED
      BY <1>1, <2>1, <3>1, CreatingSteps
  <2>2. ASSUME UploadTemporary \/ Upload \/ Reduce \/ PrepareSampling
               \/ \E new \in Layouts : TransitionImageLayout(new)
        PROVE  ImageSteps /\ UNCHANGED families
    <3>1. step # "none"
      BY <2>2 DEF UploadTemporary, Upload, Reduce, PrepareSampling, TransitionImageLayout
    <3> QED
      BY <1>1, <1>2, <2>2, <3>1, RunningSteps
  <2>3. ASSUME UploadThrows \/ ReduceThrows \/ PrepareSamplingThrows
               \/ \E new \in Layouts : TransitionImageLayoutThrows(new)
        PROVE  ImageSteps /\ UNCHANGED families
    <3>1. step # "none"
      BY <2>3 DEF UploadThrows, ReduceThrows, PrepareSamplingThrows, TransitionImageLayoutThrows
    <3> QED
      BY <1>1, <1>2, <2>3, <3>1, ThrowingSteps
  <2>4. ASSUME Finish \/ FinishThrows \/ CreateSampler \/ DestroyImage
               \/ \E kind \in QueueKinds : UseImage(kind)
        PROVE  ImageSteps /\ UNCHANGED families
    <3>1. step # "none"
      BY <2>4 DEF Finish, FinishThrows, Finishing, CreateSampler, DestroyImage, UseImage
    <3> QED
      BY <1>1, <1>2, <2>4, <3>1, OtherImageSteps
  <2> QED
    BY <2>1, <2>2, <2>3, <2>4 DEF ImageNext
<1>4. BufferInv'
  BY <1>1, <1>3, BufferKept
<1> QED
  BY <1>3, <1>4 DEF ImageSteps, IInv

-----------------------------------------------------------------------------
(* The bytes of a buffer.                                                    *)

Contents == Seq(Data \union {Undefined})
SpanOf(n) == {s \in [offset: 0 .. n, count: 1 .. n] : s.offset + s.count <= n}

LEMMA FilledWith ==
  ASSUME NEW n \in Nat, NEW data \in Data \union {Undefined}
  PROVE  /\ [i \in 1 .. n |-> data] \in Contents
         /\ Len([i \in 1 .. n |-> data]) = n
BY DEF Contents

LEMMA PutIs ==
  ASSUME NEW contents \in Contents, NEW span, NEW data \in Data \union {Undefined}
  PROVE  Put(contents, span, data) \in Contents
<1> DEFINE D == Data \union {Undefined}
           n == Len(contents)
<1>1. contents \in [1 .. n -> D] /\ n \in Nat /\ DOMAIN contents = 1 .. n
  BY DEF Contents
<1> DEFINE f == [i \in 1 .. n |-> IF i \in Bytes(span) THEN data ELSE contents[i]]
<1>2. Put(contents, span, data) = f
  BY <1>1 DEF Put
<1>3. f \in [1 .. n -> D]
  BY <1>1
<1> HIDE DEF f, n
<1>4. f \in Seq(D)
  BY <1>1, <1>3
<1> QED
  BY <1>2, <1>4 DEF Contents

LEMMA CopiedIs ==
  ASSUME NEW contents, NEW n \in Nat, NEW span \in SpanOf(n), NEW data
  PROVE  Copied(contents, span, [i \in 1 .. span.count |-> data]) = Put(contents, span, data)
<1>1. span.offset \in Nat /\ span.count \in Nat
  BY DEF SpanOf
<1>2. \A i \in Bytes(span) : i - span.offset \in 1 .. span.count
  BY <1>1 DEF Bytes
<1> QED
  BY <1>2 DEF Copied, Put

AcquiredBuffer(kind, before, after) ==
  /\ after \in BufferTypes
  /\ after.shared = before.shared
  /\ after.owner = families[kind]
  /\ after.copies = before.copies
  /\ ~Loses(before, kind) => after.contents = before.contents

LEMMA AcquireBuffer ==
  ASSUME families \in [QueueKinds -> Nat], NEW memory \in BufferTypes, NEW kind \in QueueKinds
  PROVE  AcquiredBuffer(kind, memory, Acquire(memory, kind))
<1> DEFINE contents == IF Loses(memory, kind) THEN [l \in DOMAIN memory.contents |-> Undefined]
                       ELSE memory.contents
           n == Len(memory.contents)
<1>1. memory.contents \in Contents /\ n \in Nat /\ DOMAIN memory.contents = 1 .. n
  BY DEF BufferTypes, Contents
<1>2. [l \in 1 .. n |-> Undefined] \in Contents
  <2> HIDE DEF n
  <2> QED
    BY <1>1, FilledWith
<1>3. contents \in Contents
  BY <1>1, <1>2
<1>4. Acquire(memory, kind) = [memory EXCEPT !.owner = families[kind], !.contents = contents]
  BY DEF Acquire
<1>5. ~Loses(memory, kind) => contents = memory.contents
  OBVIOUS
<1> HIDE DEF contents
<1> QED
  BY <1>3, <1>4, <1>5 DEF AcquiredBuffer, BufferTypes, Contents

LEMMA NewBufferIs ==
  ASSUME families \in [QueueKinds -> Nat], NEW size \in Nat, NEW queues \in SUBSET QueueKinds,
         NEW location
  PROVE  /\ NewBuffer(size, location, queues) \in BufferTypes
         /\ NewBuffer(size, location, queues).contents = [n \in 1 .. size |-> Undefined]
         /\ NewBuffer(size, location, queues).shared = SharedBy(queues)
         /\ NewBuffer(size, location, queues).owner = 0
         /\ NewBuffer(size, location, queues).copies = (location = "DeviceLocal")
<1>1. SharedBy(queues) \in SUBSET Nat
  BY SharedIs
<1>2. [n \in 1 .. size |-> Undefined] \in Contents
  BY FilledWith
<1> QED
  BY <1>1, <1>2 DEF NewBuffer, BufferTypes, Contents

(* A buffer is no missing object.                                            *)
LEMMA BufferThere ==
  ASSUME NEW memory \in BufferTypes
  PROVE  memory # NotCreated
BY NotCreatedAssumption DEF BufferTypes

LEMMA StagingThere ==
  ASSUME NEW n \in Nat, NEW bytes \in Contents, NEW span \in SpanOf(n),
         NEW direction \in {"HostToBuffer", "BufferToHost"}, NEW data \in Data \union {Undefined},
         NEW constructs \in BOOLEAN
  PROVE  /\ bytes # NotCreated
         /\ [direction |-> direction, span |-> span, data |-> data, constructs |-> constructs]
              # NotCreated
<1>1. span \in [offset: Nat, count: Nat]
  BY DEF SpanOf
<1> QED
  BY <1>1, NotCreatedAssumption DEF Contents

(* What is known of a buffer.                                                *)
LEMMA BufferKnown ==
  ASSUME FamiliesInv, BufferInv, buffer # NotCreated
  PROVE  /\ families # NotCreated /\ families \in [QueueKinds -> Nat]
         /\ families["transfer"] \in Nat \ {0}
         /\ buffer \in BufferTypes
         /\ written \in Contents /\ ByteSize \in Nat
         /\ buffer_queues \in SUBSET QueueKinds
         /\ buffer.shared = SharedBy(buffer_queues)
         /\ host_visible \in BOOLEAN
         /\ buffer.copies = ~host_visible
         /\ Reachable => buffer.contents = written /\ OwnerFits(buffer)
         /\ Reachable /\ obtained # NotCreated => obtained.read = obtained.expected
         /\ Spans = SpanOf(ByteSize)
<1>1. families # NotCreated
  BY DEF FamiliesInv
<1>2. families \in [QueueKinds -> Nat] /\ families["transfer"] \in Nat \ {0}
  BY <1>1, FamiliesTyped
<1>3. /\ buffer \in BufferTypes
      /\ written \in Contents
      /\ buffer_queues \in SUBSET QueueKinds
      /\ buffer.shared = SharedBy(buffer_queues)
      /\ host_visible \in BOOLEAN
      /\ buffer.copies = ~host_visible
      /\ Reachable => buffer.contents = written /\ OwnerFits(buffer)
      /\ Reachable /\ obtained # NotCreated => obtained.read = obtained.expected
  BY DEF BufferInv, HeldInv, Contents
<1>4. ByteSize \in Nat
  BY <1>3 DEF ByteSize, Contents
<1>5. Spans = SpanOf(ByteSize)
  BY DEF Spans, SpanOf
<1> QED
  BY <1>1, <1>2, <1>3, <1>4, <1>5

LEMMA ReachableKeeps ==
  ASSUME FamiliesInv, BufferInv, buffer # NotCreated, Reachable,
         NEW kind \in QueueKinds, families[kind] \in buffer.shared
  PROVE  ~Loses(buffer, kind)
BY BufferKnown, Keeps

-----------------------------------------------------------------------------
(* The steps of a buffer.                                                    *)

LEMMA CreateBufferKeeps ==
  ASSUME FamiliesInv, families # NotCreated, BufferInv,
         NEW size \in Sizes, NEW location \in Locations, NEW queues \in BufferQueues,
         CreateBuffer(size, location, queues)
  PROVE  BufferInv'
<1>1. PICK actual \in {location} \union Fallback(location) :
        /\ host_visible' = (actual # "DeviceLocal")
        /\ \/ CreateEmptyBuffer(size, queues, actual)
           \/ \E data \in Data :
                \/ CreateMappedBuffer(size, queues, actual, data)
                \/ CreateStagedBuffer(size, queues, actual, data)
  BY DEF CreateBuffer
<1>2. /\ buffer = NotCreated /\ buffer_queues' = queues
      /\ UNCHANGED <<obtained, families>>
  BY DEF CreateBuffer, deviceVars
<1>3. transfer = NotCreated /\ staging = NotCreated /\ obtained = NotCreated
  BY <1>2 DEF BufferInv, HeldInv, StagedInv
<1>4. size \in Nat \ {0} /\ queues \in SUBSET QueueKinds /\ families \in [QueueKinds -> Nat]
  BY BufferAssumption, FamiliesTyped
<1> DEFINE new == NewBuffer(size, actual, queues)
<1>5. /\ new \in BufferTypes
      /\ new.contents = [n \in 1 .. size |-> Undefined]
      /\ new.shared = SharedBy(queues)
      /\ new.owner = 0
      /\ new.copies = (actual = "DeviceLocal")
  BY <1>4, NewBufferIs
<1> HIDE DEF new
<1>6. SharedBy(buffer_queues)' = SharedBy(queues)
  BY <1>2 DEF SharedBy
<1>7. CASE CreateEmptyBuffer(size, queues, actual)
  <2>1. /\ buffer' = new /\ written' = [n \in 1 .. size |-> Undefined]
        /\ UNCHANGED <<staging, transfer>>
    BY <1>7 DEF CreateEmptyBuffer, new
  <2>2. written' \in Contents
    BY <1>4, <2>1, FilledWith
  <2>3. HeldInv'
    BY <1>1, <1>2, <1>3, <1>4, <1>5, <1>6, <2>1, <2>2 DEF HeldInv, OwnerFits, Contents
  <2>4. StagedInv'
    BY <1>3, <2>1 DEF StagedInv
  <2> QED
    BY <2>3, <2>4 DEF BufferInv
<1>8. ASSUME NEW data \in Data, CreateMappedBuffer(size, queues, actual, data)
      PROVE  BufferInv'
  <2>1. /\ buffer' = [new EXCEPT !.contents = [n \in 1 .. size |-> data]]
        /\ written' = [n \in 1 .. size |-> data]
        /\ UNCHANGED <<staging, transfer>>
    BY <1>8 DEF CreateMappedBuffer, new
  <2>2. written' \in Contents
    BY <1>4, <2>1, FilledWith
  <2>3. /\ buffer' \in BufferTypes
        /\ buffer'.contents = written'
        /\ buffer'.shared = SharedBy(queues)
        /\ buffer'.owner = 0
        /\ buffer'.copies = (actual = "DeviceLocal")
    BY <1>5, <2>1, <2>2 DEF BufferTypes, Contents
  <2>4. HeldInv'
    BY <1>1, <1>2, <1>3, <1>4, <1>6, <2>1, <2>2, <2>3 DEF HeldInv, OwnerFits, Contents
  <2>5. StagedInv'
    BY <1>3, <2>1 DEF StagedInv
  <2> QED
    BY <2>4, <2>5 DEF BufferInv
<1>9. ASSUME NEW data \in Data, CreateStagedBuffer(size, queues, actual, data)
      PROVE  BufferInv'
  <2> DEFINE span == [offset |-> 0, count |-> size]
  <2>1. /\ actual = "DeviceLocal"
        /\ buffer' = new /\ written' = [n \in 1 .. size |-> Undefined]
        /\ staging' = [n \in 1 .. size |-> data]
        /\ transfer' = [direction |-> "HostToBuffer", span |-> span,
                        data |-> data, constructs |-> TRUE]
    BY <1>9 DEF CreateStagedBuffer, new
  <2>2. /\ written' \in Contents /\ Len(written') = size
        /\ staging' \in Contents
    BY <1>4, <2>1, FilledWith
  <2>3. span \in SpanOf(size) /\ span.count = size
    BY <1>4 DEF SpanOf
  <2>4. Spans' = SpanOf(size)
    BY <2>2 DEF Spans, SpanOf, ByteSize
  <2> HIDE DEF span
  <2>5. staging' # NotCreated /\ transfer' # NotCreated
    BY <1>4, <2>1, <2>2, <2>3, StagingThere
  <2>6. buffer' # NotCreated
    BY <1>5, <2>1, BufferThere
  <2>7. HeldInv'
    BY <1>1, <1>2, <1>3, <1>4, <1>5, <1>6, <2>1, <2>2, <2>6 DEF HeldInv, OwnerFits, Contents
  <2>8. StagedInv'
    BY <1>1, <2>1, <2>3, <2>4, <2>5 DEF StagedInv
  <2> QED
    BY <2>7, <2>8 DEF BufferInv
<1> QED
  BY <1>1, <1>7, <1>8, <1>9

LEMMA WriteMappedKeeps ==
  ASSUME FamiliesInv, BufferInv, NEW span \in Spans, NEW data \in Data, WriteMapped(span, data)
  PROVE  BufferInv'
<1>1. /\ buffer # NotCreated /\ transfer = NotCreated /\ host_visible
      /\ buffer' = [buffer EXCEPT !.contents = Put(buffer.contents, span, data)]
      /\ written' = Put(written, span, data)
      /\ obtained' = NotCreated
      /\ UNCHANGED <<host_visible, buffer_queues, staging, transfer, families>>
  BY DEF WriteMapped, Idle, deviceVars
<1>2. /\ buffer \in BufferTypes /\ written \in Contents /\ buffer_queues \in SUBSET QueueKinds
      /\ buffer.shared = SharedBy(buffer_queues) /\ host_visible \in BOOLEAN
      /\ buffer.copies = ~host_visible
      /\ buffer.contents = written /\ OwnerFits(buffer)
  BY <1>1, BufferKnown DEF Reachable
<1>3. Put(written, span, data) \in Contents
  BY <1>2, PutIs
<1>4. /\ buffer' \in BufferTypes /\ buffer'.contents = written'
      /\ buffer'.shared = buffer.shared /\ buffer'.owner = buffer.owner
      /\ buffer'.copies = buffer.copies
  BY <1>1, <1>2, <1>3 DEF BufferTypes, Contents
<1>5. SharedBy(buffer_queues)' = SharedBy(buffer_queues)
  BY <1>1 DEF SharedBy
<1>6. HeldInv'
  BY <1>1, <1>2, <1>3, <1>4, <1>5 DEF HeldInv, OwnerFits, Contents
<1>7. StagedInv'
  BY <1>1 DEF BufferInv, StagedInv
<1> QED
  BY <1>6, <1>7 DEF BufferInv

LEMMA ReadMappedKeeps ==
  ASSUME FamiliesInv, BufferInv, NEW span \in Spans, ReadMapped(span)
  PROVE  BufferInv'
<1>1. /\ buffer # NotCreated /\ transfer = NotCreated /\ host_visible
      /\ obtained' = [read |-> Cut(buffer.contents, span), expected |-> Cut(written, span)]
      /\ UNCHANGED <<buffer, host_visible, buffer_queues, staging, transfer, written, families>>
  BY DEF ReadMapped, Idle, deviceVars
<1>2. buffer.contents = written
  BY <1>1, BufferKnown DEF Reachable
<1>3. obtained'.read = obtained'.expected
  BY <1>1, <1>2
<1>4. HeldInv'
  BY <1>1, <1>3 DEF BufferInv, HeldInv, Reachable, OwnerFits, SharedBy
<1>5. StagedInv'
  BY <1>1 DEF BufferInv, StagedInv
<1> QED
  BY <1>4, <1>5 DEF BufferInv

LEMMA StageKeeps ==
  ASSUME FamiliesInv, BufferInv, NEW span \in Spans, NEW data \in Data \union {Undefined},
         NEW direction \in {"HostToBuffer", "BufferToHost"},
         direction = "HostToBuffer" => data \in Data,
         Stage(direction, span, data)
  PROVE  BufferInv'
<1>1. /\ buffer # NotCreated /\ ~host_visible
      /\ transfer' = [direction |-> direction, span |-> span, data |-> data,
                      constructs |-> FALSE]
      /\ staging' = [n \in 1 .. span.count |-> data]
      /\ obtained' = NotCreated
      /\ UNCHANGED <<buffer, host_visible, buffer_queues, written, families>>
  BY DEF Stage, Idle, deviceVars
<1>2. ByteSize \in Nat /\ Spans = SpanOf(ByteSize)
  BY <1>1, BufferKnown
<1> DEFINE size == ByteSize
<1>3. size \in Nat /\ span \in SpanOf(size) /\ span.count \in Nat
  BY <1>2 DEF SpanOf
<1> HIDE DEF size
<1>4. staging' \in Contents
  BY <1>1, <1>3, FilledWith
<1>5. staging' # NotCreated /\ transfer' # NotCreated
  BY <1>1, <1>3, <1>4, StagingThere
<1>6. Spans' = Spans
  BY <1>1 DEF Spans, ByteSize
<1>7. HeldInv'
  BY <1>1 DEF BufferInv, HeldInv, Reachable, OwnerFits, SharedBy
<1>8. StagedInv'
  BY <1>1, <1>5, <1>6 DEF StagedInv
<1> QED
  BY <1>7, <1>8 DEF BufferInv

LEMMA CopyRulesHold ==
  ASSUME FamiliesInv, BufferInv, transfer # NotCreated
  PROVE  AllHold(CopyRules) /\ buffer # NotCreated /\ ~host_visible
<1>1. buffer # NotCreated /\ ~host_visible
  BY DEF BufferInv, HeldInv, StagedInv
<1>2. buffer.copies
  BY <1>1, BufferKnown
<1> QED
  BY <1>1, <1>2 DEF AllHold, CopyRules

LEMMA CopyToBufferKeeps ==
  ASSUME FamiliesInv, BufferInv, CopyToBuffer, UNCHANGED families
  PROVE  BufferInv'
<1> DEFINE acquired == Acquire(buffer, "transfer")
<1>1. /\ transfer # NotCreated /\ transfer.direction = "HostToBuffer"
      /\ buffer' = [acquired EXCEPT !.contents = Copied(acquired.contents, transfer.span, staging)]
      /\ written' = Put(written, transfer.span, transfer.data)
      /\ staging' = NotCreated /\ transfer' = NotCreated
      /\ UNCHANGED <<host_visible, buffer_queues, obtained, families>>
  BY DEF CopyToBuffer
<1>2. buffer # NotCreated /\ ~host_visible
  BY <1>1, CopyRulesHold
<1>3. /\ families \in [QueueKinds -> Nat]
      /\ buffer \in BufferTypes /\ written \in Contents /\ buffer_queues \in SUBSET QueueKinds
      /\ ByteSize \in Nat /\ Spans = SpanOf(ByteSize)
      /\ buffer.shared = SharedBy(buffer_queues) /\ host_visible \in BOOLEAN
      /\ buffer.copies = ~host_visible
      /\ Reachable => buffer.contents = written /\ OwnerFits(buffer)
      /\ Reachable /\ obtained # NotCreated => obtained.read = obtained.expected
  BY <1>2, BufferKnown
<1>4. /\ transfer.span \in SpanOf(ByteSize) /\ transfer.data \in Data
      /\ staging = [n \in 1 .. transfer.span.count |-> transfer.data]
  BY <1>1, <1>3 DEF BufferInv, StagedInv
<1>5. AcquiredBuffer("transfer", buffer, acquired)
  BY <1>3, AcquireBuffer DEF QueueKinds
<1> HIDE DEF acquired
<1> DEFINE size == ByteSize
<1>6. Copied(acquired.contents, transfer.span, staging)
        = Put(acquired.contents, transfer.span, transfer.data)
  <2>1. size \in Nat /\ transfer.span \in SpanOf(size)
    BY <1>3, <1>4
  <2> HIDE DEF size
  <2> QED
    BY <1>4, <2>1, CopiedIs
<1>7. /\ Put(acquired.contents, transfer.span, transfer.data) \in Contents
      /\ written' \in Contents
  <2>1. acquired.contents \in Contents
    BY <1>5 DEF AcquiredBuffer, BufferTypes, Contents
  <2> QED
    BY <1>1, <1>3, <1>4, <2>1, PutIs
<1>8. /\ buffer' \in BufferTypes
      /\ buffer'.contents = Put(acquired.contents, transfer.span, transfer.data)
      /\ buffer'.shared = buffer.shared
      /\ buffer'.owner = families["transfer"]
      /\ buffer'.copies = buffer.copies
  <2>1. buffer' = [acquired EXCEPT !.contents = Put(acquired.contents, transfer.span, transfer.data)]
    BY <1>1, <1>6
  <2> QED
    BY <1>5, <1>7, <2>1 DEF AcquiredBuffer, BufferTypes, Contents
<1>9. SharedBy(buffer_queues)' = SharedBy(buffer_queues)
  BY <1>1 DEF SharedBy
<1>10. Reachable' = Reachable
  BY <1>1, <1>8 DEF Reachable
<1>11. ASSUME Reachable
       PROVE  buffer'.contents = written' /\ OwnerFits(buffer')
  <2>1. families["transfer"] \in buffer.shared
    BY <1>2, <1>11 DEF Reachable
  <2>2. ~Loses(buffer, "transfer")
    BY <1>2, <1>11, <2>1, ReachableKeeps DEF QueueKinds
  <2>3. acquired.contents = written
    BY <1>3, <1>5, <1>11, <2>2 DEF AcquiredBuffer
  <2> QED
    BY <1>1, <1>8, <2>1, <2>3 DEF OwnerFits
<1>12. HeldInv'
  <2>1. buffer' # NotCreated
    BY <1>8, BufferThere
  <2>2. OwnerFits(buffer)' = OwnerFits(buffer')
    BY DEF OwnerFits
  <2> QED
    BY <1>1, <1>3, <1>7, <1>8, <1>9, <1>10, <1>11, <2>1, <2>2 DEF HeldInv, Contents
<1>13. StagedInv'
  BY <1>1 DEF StagedInv
<1> QED
  BY <1>12, <1>13 DEF BufferInv

LEMMA CopyToHostKeeps ==
  ASSUME FamiliesInv, BufferInv, CopyToHost, UNCHANGED families
  PROVE  BufferInv'
<1>1. /\ transfer # NotCreated
      /\ buffer' = Acquire(buffer, "transfer")
      /\ obtained' = [read |-> Cut(buffer'.contents, transfer.span),
                      expected |-> Cut(written, transfer.span)]
      /\ staging' = NotCreated /\ transfer' = NotCreated
      /\ UNCHANGED <<host_visible, buffer_queues, written, families>>
  BY DEF CopyToHost, Cut
<1>2. buffer # NotCreated /\ ~host_visible
  BY <1>1, CopyRulesHold
<1>3. /\ families \in [QueueKinds -> Nat]
      /\ buffer \in BufferTypes /\ written \in Contents /\ buffer_queues \in SUBSET QueueKinds
      /\ buffer.shared = SharedBy(buffer_queues) /\ host_visible \in BOOLEAN
      /\ buffer.copies = ~host_visible
      /\ Reachable => buffer.contents = written /\ OwnerFits(buffer)
  BY <1>2, BufferKnown
<1>4. AcquiredBuffer("transfer", buffer, buffer')
  BY <1>1, <1>3, AcquireBuffer DEF QueueKinds
<1>5. SharedBy(buffer_queues)' = SharedBy(buffer_queues)
  BY <1>1 DEF SharedBy
<1>6. Reachable' = Reachable
  BY <1>1, <1>4 DEF Reachable, AcquiredBuffer
<1>7. ASSUME Reachable
      PROVE  /\ buffer'.contents = written' /\ OwnerFits(buffer)'
             /\ obtained'.read = obtained'.expected
  <2>1. families["transfer"] \in buffer.shared
    BY <1>2, <1>7 DEF Reachable
  <2>2. ~Loses(buffer, "transfer")
    BY <1>2, <1>7, <2>1, ReachableKeeps DEF QueueKinds
  <2>3. buffer'.contents = written
    BY <1>3, <1>4, <1>7, <2>2 DEF AcquiredBuffer
  <2> QED
    BY <1>1, <1>4, <2>1, <2>3 DEF OwnerFits, AcquiredBuffer
<1>8. HeldInv'
  <2>1. buffer' # NotCreated /\ buffer' \in BufferTypes
    BY <1>4, BufferThere DEF AcquiredBuffer
  <2>2. buffer'.shared = SharedBy(buffer_queues)' /\ buffer'.copies = ~host_visible'
    BY <1>1, <1>3, <1>4, <1>5 DEF AcquiredBuffer
  <2> QED
    BY <1>1, <1>3, <1>6, <1>7, <2>1, <2>2 DEF HeldInv, Contents
<1>9. StagedInv'
  BY <1>1 DEF StagedInv
<1> QED
  BY <1>8, <1>9 DEF BufferInv

LEMMA CopyThrowsKeeps ==
  ASSUME BufferInv, CopyThrows, UNCHANGED families
  PROVE  BufferInv'
<1>1. /\ staging' = NotCreated /\ transfer' = NotCreated /\ UNCHANGED families
      /\ \/ ForgetBuffer
         \/ UNCHANGED <<buffer, host_visible, buffer_queues, written, obtained>>
  BY DEF CopyThrows
<1>2. StagedInv'
  BY <1>1 DEF StagedInv
<1>3. HeldInv'
  <2>1. CASE ForgetBuffer
    BY <1>1, <2>1 DEF ForgetBuffer, HeldInv
  <2>2. CASE UNCHANGED <<buffer, host_visible, buffer_queues, written, obtained>>
    BY <1>1, <2>2 DEF BufferInv, HeldInv, Reachable, OwnerFits, SharedBy
  <2> QED
    BY <1>1, <2>1, <2>2
<1> QED
  BY <1>2, <1>3 DEF BufferInv

LEMMA UseBufferKeeps ==
  ASSUME FamiliesInv, BufferInv, NEW kind \in QueueKinds, UseBuffer(kind)
  PROVE  BufferInv'
<1>1. /\ buffer # NotCreated /\ transfer = NotCreated /\ kind \in buffer_queues
      /\ families[kind] # 0
      /\ buffer' = Acquire(buffer, kind)
      /\ obtained' = NotCreated
      /\ UNCHANGED <<host_visible, buffer_queues, staging, transfer, written, families>>
  BY DEF UseBuffer, Idle, deviceVars
<1>2. /\ families \in [QueueKinds -> Nat]
      /\ buffer \in BufferTypes /\ written \in Contents /\ buffer_queues \in SUBSET QueueKinds
      /\ buffer.shared = SharedBy(buffer_queues) /\ host_visible \in BOOLEAN
      /\ buffer.copies = ~host_visible
      /\ Reachable => buffer.contents = written /\ OwnerFits(buffer)
  BY <1>1, BufferKnown
<1>3. AcquiredBuffer(kind, buffer, buffer')
  BY <1>1, <1>2, AcquireBuffer
<1>4. SharedBy(buffer_queues)' = SharedBy(buffer_queues)
  BY <1>1 DEF SharedBy
<1>5. Reachable' = Reachable
  BY <1>1, <1>3 DEF Reachable, AcquiredBuffer
<1>6. families[kind] \in buffer.shared
  BY <1>1, <1>2, SharedIs
<1>7. ASSUME Reachable
      PROVE  buffer'.contents = written' /\ OwnerFits(buffer)'
  <2>1. ~Loses(buffer, kind)
    BY <1>1, <1>6, <1>7, ReachableKeeps
  <2> QED
    BY <1>1, <1>2, <1>3, <1>6, <1>7, <2>1 DEF OwnerFits, AcquiredBuffer
<1>8. HeldInv'
  <2>1. buffer' \in BufferTypes
    BY <1>3 DEF AcquiredBuffer
  <2>2. buffer'.shared = SharedBy(buffer_queues)' /\ buffer'.copies = ~host_visible'
    BY <1>1, <1>2, <1>3, <1>4 DEF AcquiredBuffer
  <2> QED
    BY <1>1, <1>2, <1>5, <1>7, <2>1, <2>2 DEF HeldInv, Contents
<1>9. StagedInv'
  BY <1>1 DEF BufferInv, StagedInv
<1> QED
  BY <1>8, <1>9 DEF BufferInv

LEMMA DestroyBufferKeeps ==
  ASSUME BufferInv, DestroyBuffer
  PROVE  BufferInv'
<1>1. transfer = NotCreated /\ UNCHANGED <<staging, transfer>> /\ ForgetBuffer
  BY DEF DestroyBuffer, Idle
<1> QED
  BY <1>1 DEF BufferInv, HeldInv, StagedInv, ForgetBuffer

(* What the steps of a buffer keep, by what they do to the device.           *)
BufferSteps ==
  /\ FamiliesInv' /\ CommandsInv' /\ BufferInv'
  /\ UNCHANGED families
  /\ failures # 0 => failures' # 0

LEMMA QuietBufferSteps ==
  ASSUME FamiliesInv, CommandsInv, BufferInv, families # NotCreated, UNCHANGED deviceVars,
         BufferInv'
  PROVE  BufferSteps
<1>1. UNCHANGED <<offered, surface, families, one_time_cbs, failures, leaked, invalid>>
  BY DEF deviceVars
<1> QED
  BY <1>1, NoCommandKeeps, FamiliesKept DEF BufferSteps

LEMMA FailingBufferSteps ==
  ASSUME FamiliesInv, CommandsInv, BufferInv, families # NotCreated,
         CreateBufferThrows \/ StageThrows
  PROVE  BufferSteps
<1>1. Fails /\ UNCHANGED <<bufferVars, offered, surface, families, one_time_cbs, invalid>>
  BY DEF CreateBufferThrows, StageThrows
<1>2. CommandsInv' /\ failures' # 0
  BY <1>1, FailKeeps
<1> QED
  BY <1>1, <1>2, BufferKept, FamiliesKept DEF BufferSteps

LEMMA CopySteps ==
  ASSUME FamiliesInv, CommandsInv, BufferInv, CopyToBuffer \/ CopyToHost \/ CopyThrows
  PROVE  BufferSteps
<1>1. transfer # NotCreated
  BY DEF CopyToBuffer, CopyToHost, CopyThrows
<1>2. AllHold(CopyRules) /\ families # NotCreated /\ "transfer" \in OneTimeTypes
  BY <1>1, CopyRulesHold, BufferKnown DEF OneTimeTypes
<1>3. CASE CopyToBuffer \/ CopyToHost
  <2>1. RunOneTime("transfer", CopyRules) /\ UNCHANGED leaked
    BY <1>3 DEF CopyToBuffer, CopyToHost
  <2>2. CommandsInv' /\ UNCHANGED <<offered, surface, families, failures>>
    BY <1>2, <2>1, RunKeeps
  <2>3. BufferInv'
    BY <1>3, <2>2, CopyToBufferKeeps, CopyToHostKeeps
  <2> QED
    BY <1>2, <2>2, <2>3, FamiliesKept DEF BufferSteps
<1>4. CASE CopyThrows
  <2>1. RunOneTimeThrows("transfer", CopyRules, "ready")
    BY <1>4 DEF CopyThrows
  <2>2. CommandsInv' /\ UNCHANGED <<offered, surface, families>> /\ failures' # 0
    BY <1>2, <2>1, ThrowKeeps
  <2>3. BufferInv'
    BY <1>4, <2>2, CopyThrowsKeeps
  <2> QED
    BY <1>2, <2>2, <2>3, FamiliesKept DEF BufferSteps
<1> QED
  BY <1>3, <1>4

LEMMA BufferNextKeeps ==
  ASSUME IInv, BufferNext, UNCHANGED imageVars
  PROVE  IInv'
<1>1. FamiliesInv /\ CommandsInv /\ ImageInv /\ BufferInv
  BY DEF IInv
<1>2. buffer # NotCreated => families # NotCreated
  BY <1>1 DEF FamiliesInv
<1>3. BufferSteps
  <2>1. ASSUME DeviceConstructed, NEW size \in Sizes, NEW location \in Locations,
               NEW queues \in BufferQueues, CreateBuffer(size, location, queues)
        PROVE  BufferSteps
    <3>1. families # NotCreated /\ UNCHANGED deviceVars
      BY <2>1 DEF DeviceConstructed, CreateBuffer
    <3>2. BufferInv'
      BY <1>1, <2>1, <3>1, CreateBufferKeeps
    <3> QED
      BY <1>1, <3>1, <3>2, QuietBufferSteps
  <2>2. ASSUME DeviceConstructed, CreateBufferThrows
        PROVE  BufferSteps
    BY <1>1, <2>2, FailingBufferSteps DEF DeviceConstructed
  <2>3. ASSUME NEW span \in Spans, NEW data \in Data, WriteMapped(span, data) \/ StageWrite(span, data)
        PROVE  BufferSteps
    <3>1. families # NotCreated /\ UNCHANGED deviceVars
      BY <1>2, <2>3 DEF WriteMapped, StageWrite, Stage, Idle
    <3>2. BufferInv'
      BY <1>1, <2>3, WriteMappedKeeps, StageKeeps DEF StageWrite
    <3> QED
      BY <1>1, <3>1, <3>2, QuietBufferSteps
  <2>4. ASSUME NEW span \in Spans, ReadMapped(span) \/ StageRead(span)
        PROVE  BufferSteps
    <3>1. families # NotCreated /\ UNCHANGED deviceVars
      BY <1>2, <2>4 DEF ReadMapped, StageRead, Stage, Idle
    <3>2. BufferInv'
      BY <1>1, <2>4, ReadMappedKeeps, StageKeeps DEF StageRead
    <3> QED
      BY <1>1, <3>1, <3>2, QuietBufferSteps
  <2>5. ASSUME StageThrows
        PROVE  BufferSteps
    BY <1>1, <1>2, <2>5, FailingBufferSteps DEF StageThrows, Idle
  <2>6. ASSUME CopyToBuffer \/ CopyToHost \/ CopyThrows
        PROVE  BufferSteps
    BY <1>1, <2>6, CopySteps
  <2>7. ASSUME NEW kind \in QueueKinds, UseBuffer(kind)
        PROVE  BufferSteps
    <3>1. families # NotCreated /\ UNCHANGED deviceVars
      BY <1>2, <2>7 DEF UseBuffer, Idle
    <3>2. BufferInv'
      BY <1>1, <2>7, UseBufferKeeps
    <3> QED
      BY <1>1, <3>1, <3>2, QuietBufferSteps
  <2>8. ASSUME DestroyBuffer
        PROVE  BufferSteps
    <3>1. families # NotCreated /\ UNCHANGED deviceVars
      BY <1>2, <2>8 DEF DestroyBuffer, Idle
    <3>2. BufferInv'
      BY <1>1, <2>8, DestroyBufferKeeps
    <3> QED
      BY <1>1, <3>1, <3>2, QuietBufferSteps
  <2> QED
    BY <2>1, <2>2, <2>3, <2>4, <2>5, <2>6, <2>7, <2>8 DEF BufferNext
<1>4. ImageInv'
  BY <1>1, <1>3, ImageKept DEF BufferSteps
<1> QED
  BY <1>3, <1>4 DEF IInv, BufferSteps

-----------------------------------------------------------------------------
(* The device.                                                               *)

LEMMA DeviceKeeps ==
  ASSUME IInv, ConstructQueueFamilies \/ ConstructLogicalDevice,
         UNCHANGED <<imageVars, bufferVars>>
  PROVE  IInv'
<1>1. FamiliesInv /\ CommandsInv /\ ImageInv /\ BufferInv
  BY DEF IInv
<1>2. UNCHANGED <<one_time_cbs, failures, leaked, invalid>>
  BY DEF ConstructQueueFamilies, ConstructLogicalDevice
<1>3. CommandsInv'
  BY <1>1, <1>2, NoCommandKeeps
<1>4. CASE ConstructQueueFamilies
  <2>1. /\ families = NotCreated
        /\ Satisfied(Indices(offered), surface)
        /\ families' = Indices(offered)
        /\ UNCHANGED offered
    BY <1>4 DEF ConstructQueueFamilies
  <2>2. step = "none" /\ buffer = NotCreated /\ offered \in Seq(Family)
    BY <1>1, <2>1 DEF FamiliesInv
  <2>3. Indices(offered) \in [QueueKinds -> Nat] /\ ChoiceIsBest(offered, Indices(offered))
    BY <2>2, IndicesBest
  <2>4. families'["graphics"] # 0 /\ families'["transfer"] # 0
    BY <2>1 DEF Satisfied, QueueKinds
  <2>5. step' = "none" /\ buffer' = NotCreated /\ UNCHANGED <<image, tmp_image, view, sampler>>
    BY <2>2 DEF imageVars, bufferVars
  <2>6. FamiliesInv'
    BY <2>1, <2>2, <2>3, <2>4, <2>5 DEF FamiliesInv
  <2>7. ImageInv'
    BY <1>1, <2>2, <2>5 DEF ImageInv, SettingsInv, UploadingInv, ReducingInv, FilledInv, PreparingInv
  <2>8. BufferInv'
    <3>1. transfer = NotCreated /\ staging = NotCreated /\ obtained = NotCreated
      BY <1>1, <2>2 DEF BufferInv, HeldInv, StagedInv
    <3>2. UNCHANGED <<transfer, staging, obtained>>
      BY DEF bufferVars
    <3> QED
      BY <2>5, <3>1, <3>2 DEF BufferInv, HeldInv, StagedInv
  <2> QED
    BY <1>3, <2>6, <2>7, <2>8 DEF IInv
<1>5. CASE ConstructLogicalDevice
  <2>1. families # NotCreated /\ offered' = <<>> /\ UNCHANGED families
    BY <1>5 DEF ConstructLogicalDevice
  <2>2. FamiliesInv'
    BY <1>1, <2>1 DEF FamiliesInv
  <2>3. ImageInv' /\ BufferInv'
    BY <1>1, <1>2, <2>1, ImageKept, BufferKept
  <2> QED
    BY <1>3, <2>2, <2>3 DEF IInv
<1> QED
  BY <1>4, <1>5

LEMMA InitHolds ==
  ASSUME Init
  PROVE  IInv
<1>1. FamiliesInv
  <2>1. offered \in Devices /\ families = NotCreated /\ step = "none" /\ buffer = NotCreated
    BY DEF Init, DeviceInit, ImageInit, BufferInit
  <2> QED
    BY <2>1, DevicesAssumption DEF FamiliesInv
<1>2. CommandsInv
  BY DEF Init, DeviceInit, CommandsInv
<1>3. ImageInv
  BY DEF Init, ImageInit, ImageInv, SettingsInv, UploadingInv, ReducingInv, FilledInv, PreparingInv,
         Steps
<1>4. BufferInv
  BY DEF Init, BufferInit, BufferInv, HeldInv, StagedInv
<1> QED
  BY <1>1, <1>2, <1>3, <1>4 DEF IInv

LEMMA StutterKeeps ==
  ASSUME IInv, UNCHANGED vars
  PROVE  IInv'
<1>1. FamiliesInv /\ CommandsInv /\ ImageInv /\ BufferInv
  BY DEF IInv
<1>2. /\ UNCHANGED <<offered, surface, families, one_time_cbs, failures, leaked, invalid>>
      /\ UNCHANGED imageVars /\ UNCHANGED bufferVars
  BY DEF vars, deviceVars
<1>3. ImageInv' /\ BufferInv' /\ CommandsInv'
  BY <1>1, <1>2, ImageKept, BufferKept, NoCommandKeeps
<1>4. UNCHANGED <<step, buffer>>
  BY <1>2 DEF imageVars, bufferVars
<1>5. FamiliesInv'
  BY <1>1, <1>2, <1>4 DEF FamiliesInv
<1> QED
  BY <1>3, <1>5 DEF IInv

(* The parts of the invariant hold in every state of an image and a buffer   *)
(* that are constructed, used and destroyed (Image, Buffer and the one-time  *)
(* submissions of Command).                                                  *)
THEOREM Invariant == Spec => []IInv
<1>1. Init => IInv
  BY InitHolds
<1>2. IInv /\ [Next]_vars => IInv'
  <2> SUFFICES ASSUME IInv, [Next]_vars
               PROVE  IInv'
    OBVIOUS
  <2>1. CASE (ConstructQueueFamilies \/ ConstructLogicalDevice) /\ UNCHANGED <<imageVars, bufferVars>>
    BY <2>1, DeviceKeeps
  <2>2. CASE buffer = NotCreated /\ ImageNext /\ UNCHANGED bufferVars
    BY <2>2, ImageNextKeeps
  <2>3. CASE step = "none" /\ BufferNext /\ UNCHANGED imageVars
    BY <2>3, BufferNextKeeps
  <2>4. CASE Refused \/ UNCHANGED vars
    <3>1. UNCHANGED vars
      BY <2>4 DEF Refused
    <3> QED
      BY <3>1, StutterKeeps
  <2> QED
    BY <2>1, <2>2, <2>3, <2>4 DEF Next
<1> QED
  BY <1>1, <1>2, PTL DEF Spec

(* QueueFamilies::get_queue_families chooses the best families of any        *)
(* device, and get returns every family of any set of queues once.           *)
THEOREM FamiliesStayExact == Spec => []FamiliesExact
<1>1. IInv => FamiliesExact
  <2> SUFFICES ASSUME IInv, families # NotCreated, offered # <<>>
               PROVE  ChoiceIsBest(offered, families) /\ GetIsExact(families)
    BY DEF FamiliesExact
  <2>1. families \in [QueueKinds -> Nat] /\ ChoiceIsBest(offered, families)
    BY DEF IInv, FamiliesInv
  <2> QED
    BY <2>1, GetExact
<1> QED
  BY <1>1, Invariant, PTL

(* Every barrier, blit and copy of Image and Buffer finds what it needs, for *)
(* any extent and layouts, and a one-time command buffer is begun while it   *)
(* is ready unless an exception left it recording.                           *)
THEOREM CommandsStayValid == Spec => []CommandsValid
<1>1. IInv => CommandsValid
  BY DEF IInv, CommandsInv, CommandsValid
<1> QED
  BY <1>1, Invariant, PTL

(* Image::layout is the layout of every level the view covers, after any     *)
(* uploads, reductions and transitions.                                      *)
THEOREM LayoutIsTracked == Spec => []LayoutTracked
<1>1. IInv => LayoutTracked
  BY DEF IInv, ImageInv, FilledInv, LayoutTracked
<1> QED
  BY <1>1, Invariant, PTL

(* The data given to Image::Image is in every level a sampler reaches,       *)
(* through the queues of the upload, the reduction and generate_mipmaps.     *)
THEOREM UploadsAreVisible == Spec => []UploadsVisible
<1>1. IInv => UploadsVisible
  <2> SUFFICES ASSUME IInv, step = "live", settings.has_data,
                      {families["graphics"], families["transfer"]} \subseteq image.shared
               PROVE  \A l \in 1 .. IF settings.sampled THEN mip_levels ELSE 1 :
                        image.contents[l] = "data"
    BY DEF UploadsVisible
  <2>1. \A l \in 1 .. FullLevels : image.contents[l] = "data"
    BY DEF IInv, ImageInv, FilledInv, Visible
  <2>2. FullLevels = IF settings.sampled THEN mip_levels ELSE 1
    BY DEF FullLevels
  <2> QED
    BY <2>1, <2>2
<1> QED
  BY <1>1, Invariant, PTL

(* Buffer::obtain_data_bytes returns what the updates wrote, for any sizes   *)
(* and spans, mapped or staged.                                              *)
THEOREM ReadsReturnWhatWasWritten == Spec => []ReadsReturnWrites
<1>1. IInv => ReadsReturnWrites
  BY DEF IInv, BufferInv, HeldInv, Reachable, ReadsReturnWrites
<1> QED
  BY <1>1, Invariant, PTL

(* The temporary image and the staging buffer go with the call that needs    *)
(* them, and nothing is lost as long as no call fails.                       *)
THEOREM ObjectsAreAccounted == Spec => []ObjectsAccounted
<1>1. IInv => ObjectsAccounted
  <2> SUFFICES ASSUME IInv
               PROVE  ObjectsAccounted
    OBVIOUS
  <2>1. failures = 0 => leaked \subseteq {"replaced sampler"}
    BY DEF IInv, CommandsInv
  <2>2. staging # NotCreated <=> transfer # NotCreated
    BY DEF IInv, BufferInv, StagedInv
  <2>3. step = "none" => image = NotCreated /\ tmp_image = NotCreated /\ ~view /\ ~sampler
    BY DEF IInv, ImageInv, SettingsInv
  <2>4. step \in {"prepare", "finish", "live"} => tmp_image = NotCreated
    BY DEF IInv, ImageInv, FilledInv
  <2>5. step \in Steps
    BY DEF IInv, ImageInv, SettingsInv
  <2> QED
    BY <2>1, <2>2, <2>3, <2>4, <2>5 DEF ObjectsAccounted, Steps
<1> QED
  BY <1>1, Invariant, PTL

=============================================================================
