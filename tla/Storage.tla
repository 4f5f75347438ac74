------------------------------ MODULE Storage ------------------------------
(***************************************************************************)
(* vkte::Storage: buffers and images in vectors of slots that are reused,    *)
(* behind handles of index, generation and kind.                             *)
(***************************************************************************)
EXTENDS Naturals, SequencesExt

CONSTANTS
  Kinds,         (* "buffer" and "image": the two vectors                      *)
  Empty,         (* an element without a value                                 *)
  MaxSlots,      (* bound: elements of a vector                                *)
  MaxCreated,    (* bound: resources created                                   *)
  MaxFailures    (* bound: constructors that throw                             *)

ASSUME BoundsAssumption ==
  MaxSlots \in Nat /\ MaxCreated \in Nat /\ MaxFailures \in Nat
ASSUME EmptyAssumption == Empty \notin Nat

VARIABLES
  elements,    (* kind -> the vector: value (which creation it is) and         *)
               (* generation                                                   *)
  free_slots,  (* kind -> free_buffer_slots, free_image_slots                  *)
  created,     (* resources created so far                                     *)
  failures,
  cleared,     (* Storage::clear was called                                    *)
  given        (* handle -> the creation it was returned for (history)         *)

vars == <<elements, free_slots, created, failures, cleared, given>>

Element == [value: 1 .. MaxCreated \union {Empty}, generation: Nat]
Handles == [kind: Kinds, id: 0 .. MaxSlots - 1, generation: 0 .. MaxCreated]

Init ==
  /\ elements = [k \in Kinds |-> <<>>]
  /\ free_slots = [k \in Kinds |-> <<>>]
  /\ created = 0
  /\ failures = 0
  /\ cleared = FALSE
  /\ given = [h \in {} |-> 0]

(* vectors count from 0, sequences from 1                                    *)
At(k, id) == elements[k][id + 1]

HandleOf(k, id) == [kind |-> k, id |-> id, generation |-> At(k, id).generation]
Give(h) == given' = [g \in DOMAIN given \union {h} |-> IF g = h THEN created' ELSE given[g]]

-----------------------------------------------------------------------------
(* add_buffer, add_image: into the slot freed last ...                       *)
Reuse(k) ==
  /\ ~cleared
  /\ free_slots[k] # <<>>
  /\ created < MaxCreated
  /\ free_slots' = [free_slots EXCEPT ![k] = SubSeq(@, 1, Len(@) - 1)]
  /\ created' = created + 1
  /\ elements' = [elements EXCEPT ![k][Last(free_slots[k]) + 1].value = created']
  /\ Give(HandleOf(k, Last(free_slots[k])))
  /\ UNCHANGED <<failures, cleared>>

(* (if the constructor throws, the slot is not free anymore, nor in use)     *)
ReuseThrows(k) ==
  /\ ~cleared
  /\ free_slots[k] # <<>>
  /\ failures < MaxFailures
  /\ free_slots' = [free_slots EXCEPT ![k] = SubSeq(@, 1, Len(@) - 1)]
  /\ failures' = failures + 1
  /\ UNCHANGED <<elements, created, cleared, given>>

(* ... or into a new one at the end; nothing is left behind if that throws.  *)
Push(k) ==
  /\ ~cleared
  /\ free_slots[k] = <<>>
  /\ Len(elements[k]) < MaxSlots
  /\ created < MaxCreated
  /\ created' = created + 1
  /\ elements' = [elements EXCEPT ![k] = Append(@, [value |-> created', generation |-> 0])]
  /\ Give([kind |-> k, id |-> Len(elements[k]), generation |-> 0])
  /\ UNCHANGED <<free_slots, failures, cleared>>

-----------------------------------------------------------------------------
(* get_buffer, get_image: what a handle leads to.                            *)
InRange(h) == h.id < Len(elements[h.kind])

Get(h) ==
  IF ~InRange(h) THEN "out of range"
  ELSE IF h.generation # At(h.kind, h.id).generation THEN "stale"
  ELSE IF At(h.kind, h.id).value = Empty THEN "destroyed"
  ELSE "found"

(* Mutant: the generation stays.                                             *)
FreedOnly(element) == [element EXCEPT !.value = Empty]

Freed(element) == [value |-> Empty, generation |-> element.generation + 1]

(* destroy throws for a stale handle.                                        *)
Destroy(h) ==
  /\ ~cleared
  /\ Get(h) = "found"
  /\ elements' = [elements EXCEPT ![h.kind][h.id + 1] = Freed(@)]
  /\ free_slots' = [free_slots EXCEPT ![h.kind] = Append(@, h.id)]
  /\ UNCHANGED <<created, failures, cleared, given>>

(* Engine clears the storage when it is destroyed.                           *)
Clear ==
  /\ ~cleared
  /\ elements' = [k \in Kinds |-> <<>>]
  /\ free_slots' = [k \in Kinds |-> <<>>]
  /\ cleared' = TRUE
  /\ UNCHANGED <<created, failures, given>>

Cleared == cleared /\ UNCHANGED vars

Next ==
  \/ \E k \in Kinds : Reuse(k) \/ ReuseThrows(k) \/ Push(k)
  \/ \E h \in DOMAIN given : Destroy(h)
  \/ Clear
  \/ Cleared

Spec == Init /\ [][Next]_vars

-----------------------------------------------------------------------------
(* Every variable has its type.                                              *)
TypeOK ==
  /\ elements \in [Kinds -> Seq(Element)]
  /\ free_slots \in [Kinds -> Seq(0 .. MaxSlots - 1)]
  /\ created \in 0 .. MaxCreated
  /\ failures \in 0 .. MaxFailures
  /\ cleared \in BOOLEAN
  /\ DOMAIN given \subseteq Handles

(* Slots are reused one at a time: a free slot is empty and free once.       *)
FreeSlotsEmpty ==
  \A k \in Kinds : \A i, j \in DOMAIN free_slots[k] :
    /\ At(k, free_slots[k][i]).value = Empty
    /\ i # j => free_slots[k][i] # free_slots[k][j]

(* The storage keeps the promise of ResourceStore: a handle leads to the     *)
(* resource it was returned for or to nothing, however often its slot was    *)
(* reused and whatever constructors threw.                                   *)
LiveHandles == {h \in DOMAIN given : Get(h) = "found"}
Store == INSTANCE ResourceStore WITH
  Contents <- 1 .. MaxCreated,
  store <- [h \in LiveHandles |-> At(h.kind, h.id).value],
  given <- DOMAIN given

RefinesResourceStore == Store!Spec
=============================================================================
