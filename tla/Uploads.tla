------------------------------ MODULE Uploads ------------------------------
(***************************************************************************)
(* Image and Buffer on a device whose queue families are those QueueFamilies *)
(* chose: the resources of an application that creates, fills, uses and      *)
(* destroys one image and one buffer after the other.  What they share are   *)
(* the one-time command buffers, which a failed call may leave behind.       *)
(***************************************************************************)
EXTENDS Image, Buffer

CONSTANT
  Devices        (* sequences of families a device offers                      *)

ASSUME DevicesAssumption == Devices \subseteq Seq(Family)

vars == <<deviceVars, imageVars, bufferVars>>

Init ==
  /\ offered \in Devices
  /\ DeviceInit
  /\ ImageInit
  /\ BufferInit

Refused ==
  /\ families = NotCreated
  /\ ~Satisfied(Indices(offered), surface)
  /\ UNCHANGED vars

Next ==
  \/ (ConstructQueueFamilies \/ ConstructLogicalDevice) /\ UNCHANGED <<imageVars, bufferVars>>
  \/ buffer = NotCreated /\ ImageNext /\ UNCHANGED bufferVars
  \/ step = "none" /\ BufferNext /\ UNCHANGED imageVars
  \/ Refused

Spec == Init /\ [][Next]_vars

-----------------------------------------------------------------------------
(* The families are the most specialised ones the device offers, and get     *)
(* returns every family of a set of queues once: a device with one family    *)
(* for several kinds of queues must be created with that family once.        *)
FamiliesExact ==
  families # NotCreated /\ offered # <<>> =>
    ChoiceIsBest(offered, families) /\ GetIsExact(families)

(* Every barrier starts from the layout the levels have, every blit and copy *)
(* finds images and buffers in the state and with the usage it needs, and a  *)
(* one-time command buffer is begun while it is ready - unless an exception  *)
(* left it recording.                                                        *)
CommandsValid ==
  /\ invalid \subseteq {"begin"}
  /\ failures = 0 => invalid = {}

(* No device object is lost as long as no call fails and the application     *)
(* does not replace a sampler, and the objects an upload needs on the way    *)
(* exist no longer than it takes: no constructor or host operation leaves a  *)
(* temporary image or a staging buffer behind.                               *)
ObjectsAccounted ==
  /\ failures = 0 => leaked \subseteq {"replaced sampler"}
  /\ tmp_image # NotCreated => step \in {"upload", "reduce"}
  /\ staging # NotCreated <=> transfer # NotCreated
  /\ step = "none" => image = NotCreated /\ ~view /\ ~sampler
=============================================================================
