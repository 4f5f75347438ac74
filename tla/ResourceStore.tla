--------------------------- MODULE ResourceStore ---------------------------
(***************************************************************************)
(* What vkte::Storage promises its users: adding a resource gives a handle   *)
(* that was never given before, the handle leads to that resource until it   *)
(* is destroyed through it, and to nothing afterwards.                       *)
(***************************************************************************)
CONSTANTS
  Handles,
  Contents

VARIABLES
  store,   (* handles of existing resources -> resource                        *)
  given    (* handles ever returned                                            *)

vars == <<store, given>>

Init ==
  /\ store = [h \in {} |-> {}]
  /\ given = {}

Add(h, c) ==
  /\ h \notin given
  /\ given' = given \union {h}
  /\ store' = [g \in DOMAIN store \union {h} |-> IF g = h THEN c ELSE store[g]]

Destroy(h) ==
  /\ h \in DOMAIN store
  /\ store' = [g \in DOMAIN store \ {h} |-> store[g]]
  /\ UNCHANGED given

Clear ==
  /\ store' = [h \in {} |-> {}]
  /\ UNCHANGED given

Next == (\E h \in Handles : Destroy(h) \/ \E c \in Contents : Add(h, c)) \/ Clear

Spec == Init /\ [][Next]_vars
=============================================================================
