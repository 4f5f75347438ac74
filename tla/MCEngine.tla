------------------------------ MODULE MCEngine ------------------------------
(* Instances of Engine: one kind of bindless resource, one queue type.       *)
EXTENDS Engine

ComputeOnly == {"compute"}
Separate == [t \in Types |-> t]
BuffersOnly == {"buffer"}
OneSlot == [k \in Kinds |-> 1]
TwoSlots == [k \in Kinds |-> 2]
=============================================================================
