--------------------------- MODULE QueueFamilies ---------------------------
(***************************************************************************)
(* vkte::QueueFamilies: the family chosen for each kind of queue out of      *)
(* those a device offers, and the distinct families of a set of queues: the  *)
(* families a resource is shared by, and those the device is created with.   *)
(* Families count from 1; 0 is the index -1.                                 *)
(***************************************************************************)
EXTENDS Naturals, SequencesExt

Flags == {"graphics", "compute", "protected", "transfer", "sparse"}
QueueKinds == {"graphics", "compute", "transfer", "present"}
Family == [flags: SUBSET Flags, present: BOOLEAN]

(* Every flag a family misses makes it more specialised.                     *)
QueueScore(family, target) ==
  IF target \in family.flags THEN 1 + Cardinality(Flags \ family.flags) ELSE 0

NoChoice == [indices |-> [k \in QueueKinds |-> 0], scores |-> [k \in QueueKinds |-> 0]]

Choose(choice, kind, i, score) ==
  [indices |-> [choice.indices EXCEPT ![kind] = i],
   scores |-> [choice.scores EXCEPT ![kind] = score]]

Improve(choice, kind, i, family) ==
  IF choice.scores[kind] < QueueScore(family, kind)
  THEN Choose(choice, kind, i, QueueScore(family, kind))
  ELSE choice

(* The first family that presents, until a better graphics family presents   *)
(* too.                                                                      *)
FirstPresent(choice, i, family) ==
  IF family.present /\ choice.scores.present = 0
  THEN Choose(choice, "present", i, 1)
  ELSE choice

PresentWithGraphics(choice, i, family) ==
  IF /\ choice.scores.graphics < QueueScore(family, "graphics")
     /\ family.present
     /\ choice.scores.present < 2
  THEN Choose(choice, "present", i, 2)
  ELSE choice

Consider(choice, i, family) ==
  LET presenting == PresentWithGraphics(FirstPresent(choice, i, family), i, family)
      drawing == Improve(presenting, "graphics", i, family)
      computing == Improve(drawing, "compute", i, family)
  IN Improve(computing, "transfer", i, family)

(* The choice among the first n families, for every n.  Without a surface no *)
(* family presents.                                                          *)
BestOfFirst(offered) ==
  LET best[n \in 0 .. Len(offered)] ==
        IF n = 0 THEN NoChoice ELSE Consider(best[n - 1], n, offered[n])
  IN best

Indices(offered) == BestOfFirst(offered)[Len(offered)].indices

Satisfied(indices, surface) ==
  \A k \in QueueKinds \ (IF surface THEN {} ELSE {"present"}) : indices[k] # 0

-----------------------------------------------------------------------------
(* The masks: each kind with the kinds that have its family, merged pair by  *)
(* pair.                                                                     *)
Merge(masks, indices, a, b) ==
  IF indices[a] = indices[b]
  THEN [masks EXCEPT ![a] = @ \union masks[b], ![b] = @ \union masks[a]]
  ELSE masks

(* Mutant: compute and transfer are not merged.                              *)
FewerMasks(indices) ==
  LET m0 == [k \in QueueKinds |-> {k}]
      m1 == Merge(m0, indices, "graphics", "compute")
      m2 == Merge(m1, indices, "graphics", "transfer")
      m3 == Merge(m2, indices, "graphics", "present")
      m5 == Merge(m3, indices, "compute", "present")
  IN Merge(m5, indices, "transfer", "present")

Masks(indices) ==
  LET m0 == [k \in QueueKinds |-> {k}]
      m1 == Merge(m0, indices, "graphics", "compute")
      m2 == Merge(m1, indices, "graphics", "transfer")
      m3 == Merge(m2, indices, "graphics", "present")
      m4 == Merge(m3, indices, "compute", "transfer")
      m5 == Merge(m4, indices, "compute", "present")
  IN Merge(m5, indices, "transfer", "present")

(* get(Queues): the families in the order of the kinds, a kind leaves out    *)
(* the kinds that share its family.                                          *)
Take(got, indices, kind) ==
  IF kind \in got.queues /\ indices[kind] # 0
  THEN [found |-> Append(got.found, indices[kind]), queues |-> got.queues \ Masks(indices)[kind]]
  ELSE got

GetQueues(indices, queues) ==
  LET graphics == Take([found |-> <<>>, queues |-> queues], indices, "graphics")
      compute == Take(graphics, indices, "compute")
      transfer == Take(compute, indices, "transfer")
  IN Take(transfer, indices, "present").found

Families(indices, queues) == ToSet(GetQueues(indices, queues))

-----------------------------------------------------------------------------
(* What the choice and get promise.                                          *)
FirstBest(offered, kind, i) ==
  /\ \A j \in DOMAIN offered : QueueScore(offered[j], kind) <= QueueScore(offered[i], kind)
  /\ \A j \in 1 .. i - 1 : QueueScore(offered[j], kind) < QueueScore(offered[i], kind)

ChoiceIsBest(offered, indices) ==
  /\ \A k \in QueueKinds \ {"present"} :
       IF indices[k] = 0 THEN \A j \in DOMAIN offered : k \notin offered[j].flags
       ELSE FirstBest(offered, k, indices[k])
  /\ IF indices.present = 0 THEN \A j \in DOMAIN offered : ~offered[j].present
     ELSE offered[indices.present].present

(* Every family of the requested queues once: a device is created with       *)
(* unique families, and one family alone means exclusive ownership.          *)
GetIsExact(indices) ==
  \A queues \in SUBSET QueueKinds :
    /\ IsInjective(GetQueues(indices, queues))
    /\ Families(indices, queues) = {indices[k] : k \in queues} \ {0}
=============================================================================
