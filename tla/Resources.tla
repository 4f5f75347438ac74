----------------------------- MODULE Resources -----------------------------
(***************************************************************************)
(* The users of the Storage beside its slots: the swapchain's depth buffer   *)
(* in an Engine with a window, and the descriptors components declare.  The  *)
(* declarations are explored in an Engine without a window.                  *)
(***************************************************************************)
EXTENDS Swapchain, ResourceDeclarations

ResourcesInit == SwapchainInit /\ DeclarationsInit

ResourcesNext ==
  \/ SwapchainNext /\ UNCHANGED declarationVars
  \/ /\ ~window
     /\ step = "idle"
     /\ Declares
     /\ UNCHANGED allVars

ResourcesSpec == ResourcesInit /\ [][ResourcesNext]_<<allVars, declarationVars>>
=============================================================================
