-------------------------- MODULE MCMemoryManager --------------------------
(* An instance of MemoryManager whose tables of buffers start at one slot    *)
(* and may double once.                                                      *)
EXTENDS MemoryManager

BuffersOnly == {"buffer"}
BuffersGrow == [k \in Kinds |-> 2]

(* A bound: once a create_frame_set has thrown, one registration less.       *)
FewerAfterFailure ==
  set_failures > 0 => \A k \in Kinds : Cardinality(issued[k]) < MaxRegistrations
=============================================================================
