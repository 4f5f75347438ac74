------------------------------ MODULE MCApart ------------------------------
(***************************************************************************)
(* Three components that share no state with each other or with any other:   *)
(* uploads, device timers and events.  One of them acts while the other two  *)
(* rest as they are at first: whatever these did would change nothing for    *)
(* it, so these are all the states it can be in.                             *)
(***************************************************************************)
EXTENDS MCUploads, DeviceTimer, MCEventHandler

apartVars == <<vars, timerVars, eventVars>>

OneDevice == CHOOSE d \in Devices : TRUE

UploadsRest == families = NotCreated /\ surface /\ offered = OneDevice
TimersRest == object = "none" /\ ~bulk
EventsRest == file = <<>> /\ EventsInit

ApartInit ==
  /\ Init /\ TimersInit /\ EventsInit
  /\ \/ TimersRest /\ EventsRest
     \/ UploadsRest /\ EventsRest
     \/ UploadsRest /\ TimersRest

ApartNext ==
  \/ TimersRest /\ EventsRest /\ Next /\ UNCHANGED <<timerVars, eventVars>>
  \/ UploadsRest /\ EventsRest /\ TimersNext /\ UNCHANGED <<vars, eventVars>>
  \/ UploadsRest /\ TimersRest /\ EventsNext /\ UNCHANGED <<vars, timerVars>>

ApartSpec == ApartInit /\ [][ApartNext]_apartVars
=============================================================================
