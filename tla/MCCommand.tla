----------------------------- MODULE MCCommand -----------------------------
(* Instances of Command: a device with a queue family, and thus a VkQueue,   *)
(* for each of two types.                                                    *)
EXTENDS Command

MCTypes == {"graphics", "compute"}
NoReaders == {}
ComputeOnly == {"compute"}
Separate == [t \in Types |-> t]
=============================================================================
