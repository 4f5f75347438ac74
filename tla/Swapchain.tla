----------------------------- MODULE Swapchain -----------------------------
(***************************************************************************)
(* vkte::Swapchain in an Engine with a window: Engine::resize destroys and   *)
(* constructs it again, with a depth buffer that lives in the Storage of the *)
(* application's resources, and any step of that can throw.  Also the pacing *)
(* of Engine::present.  Steps of a construction follow each other without    *)
(* calls of the application in between.                                      *)
(***************************************************************************)
EXTENDS Storage, Integers

CONSTANTS
  NoHandle,        (* a ResourceHandle before any image was added              *)
  MaxSwapchains,   (* bound: swapchains created                                *)
  ImageCount,      (* images of a swapchain                                    *)
  RefreshInterval  (* of the display, in ticks                                 *)

ASSUME SwapchainAssumption ==
  /\ MaxSwapchains \in Nat /\ ImageCount \in Nat \ {0} /\ RefreshInterval \in Nat \ {0}
  /\ "image" \in Kinds

VARIABLES
  window,          (* EngineSettings::enable_window                            *)
  step,            (* what a construction does next, "idle", or how it ended   *)
  constructing,    (* the Engine's constructor runs                            *)
  complete,        (* the last construction came to its end                    *)
  swapchain,       (* the handle, also of a swapchain that was destroyed       *)
  swapchains,      (* the swapchains that exist                                *)
  depth_buffer,
  depth_buffers,   (* every handle depth_buffer had (history)                  *)
  depth_layout,
  image_views,     (* of which swapchain each is                               *)
  destroyed_twice, (* a swapchain was destroyed that did not exist             *)
  limit_presents,
  lead,            (* next_present_time - now, cut off below                   *)
  age,             (* ticks since the last present, up to an interval          *)
  crowded          (* a present came within an interval of the one before      *)

surfaceVars == <<window, constructing, complete, swapchain, swapchains, depth_buffer,
                 depth_buffers, depth_layout, image_views, destroyed_twice>>
presentVars == <<limit_presents, lead, age, crowded>>
allVars == <<vars, surfaceVars, step, presentVars>>

Longest == -2 * RefreshInterval

SwapchainInit ==
  /\ Init
  /\ window \in BOOLEAN
  /\ step = IF window THEN "create" ELSE "idle"
  /\ constructing = window
  /\ complete = FALSE
  /\ swapchain = 0
  /\ swapchains = {}
  /\ depth_buffer = NoHandle
  /\ depth_buffers = {}
  /\ depth_layout = "undefined"
  /\ image_views = <<>>
  /\ destroyed_twice = FALSE
  /\ limit_presents = FALSE
  /\ lead = Longest
  /\ age = RefreshInterval
  /\ crowded = FALSE

-----------------------------------------------------------------------------
(* Swapchain::construct, one call that may throw after the other.  When the  *)
(* Engine's constructor throws there is no Engine.                           *)
Throws == step' = IF constructing THEN "no engine" ELSE "idle"

CallFails ==
  /\ failures < MaxFailures
  /\ failures' = failures + 1
  /\ UNCHANGED <<elements, free_slots, created, cleared, given>>

CreateSwapchain ==
  /\ step = "create"
  /\ swapchain' = swapchain + 1
  /\ swapchains' = swapchains \union {swapchain'}
  /\ step' = "depth buffer"
  /\ UNCHANGED <<vars, window, constructing, complete, depth_buffer, depth_buffers,
                 depth_layout, image_views, destroyed_twice, presentVars>>

(* choose_settings or createSwapchainKHR throws.                             *)
CreateSwapchainThrows ==
  /\ step = "create"
  /\ CallFails
  /\ Throws
  /\ UNCHANGED <<surfaceVars, presentVars>>

NewHandle(k) ==
  IF free_slots[k] # <<>> THEN HandleOf(k, Last(free_slots[k]))
  ELSE [kind |-> k, id |-> Len(elements[k]), generation |-> 0]

AddDepthBuffer ==
  /\ step = "depth buffer"
  /\ Reuse("image") \/ Push("image")
  /\ depth_buffer' = NewHandle("image")
  /\ depth_buffers' = depth_buffers \union {depth_buffer'}
  /\ depth_layout' = "undefined"
  /\ step' = "transition"
  /\ UNCHANGED <<window, constructing, complete, swapchain, swapchains, image_views,
                 destroyed_twice, presentVars>>

AddDepthBufferThrows ==
  /\ step = "depth buffer"
  /\ ReuseThrows("image") \/ (free_slots["image"] = <<>> /\ CallFails)
  /\ Throws
  /\ UNCHANGED <<surfaceVars, presentVars>>

TransitionDepthBuffer ==
  /\ step = "transition"
  /\ depth_layout' = "depth attachment"
  /\ step' = "views"
  /\ UNCHANGED <<vars, window, constructing, complete, swapchain, swapchains, depth_buffer,
                 depth_buffers, image_views, destroyed_twice, presentVars>>

TransitionDepthBufferThrows ==
  /\ step = "transition"
  /\ CallFails
  /\ Throws
  /\ UNCHANGED <<surfaceVars, presentVars>>

(* create_images adds to image_views; Engine then takes over the limit.      *)
CreateImages ==
  /\ step = "views"
  /\ image_views' = image_views \o [n \in 1 .. ImageCount |-> swapchain]
  /\ step' = "idle"
  /\ constructing' = FALSE
  /\ complete' = TRUE
  /\ limit_presents' \in BOOLEAN
  /\ UNCHANGED <<vars, window, swapchain, swapchains, depth_buffer, depth_buffers,
                 depth_layout, destroyed_twice, lead, age, crowded>>

CreateImagesThrows ==
  /\ step = "views"
  /\ CallFails
  /\ Throws
  /\ \E n \in 0 .. ImageCount - 1 :
       image_views' = image_views \o [m \in 1 .. n |-> swapchain]
  /\ UNCHANGED <<window, constructing, complete, swapchain, swapchains, depth_buffer,
                 depth_buffers, depth_layout, destroyed_twice, presentVars>>

-----------------------------------------------------------------------------
(* Swapchain::destruct: the views, then the depth buffer, which throws       *)
(* through a stale handle, then the swapchain.                               *)

(* Mutant: whatever is in the slot of the depth buffer is destroyed.         *)
DestroySlot ==
  /\ At("image", depth_buffer.id).value # Empty
  /\ elements' = [elements EXCEPT !["image"][depth_buffer.id + 1] = Freed(@)]
  /\ free_slots' = [free_slots EXCEPT !["image"] = Append(@, depth_buffer.id)]
  /\ UNCHANGED <<created, failures, cleared, given>>

DestroyDepthBuffer == Destroy(depth_buffer)

DepthBufferIsStale == Get(depth_buffer) # "found"

(* Mutant: image_views is not cleared.                                       *)
DestroySwapchainOnly ==
  /\ UNCHANGED image_views
  /\ swapchains' = swapchains \ {swapchain}
  /\ destroyed_twice' = (destroyed_twice \/ swapchain \notin swapchains)

DestroySwapchain ==
  /\ image_views' = <<>>
  /\ swapchains' = swapchains \ {swapchain}
  /\ destroyed_twice' = (destroyed_twice \/ swapchain \notin swapchains)

Resize ==
  /\ step = "idle"
  /\ window
  /\ swapchain < MaxSwapchains /\ created < MaxCreated
  /\ DestroyDepthBuffer
  /\ DestroySwapchain
  /\ complete' = FALSE
  /\ step' = "create"
  /\ UNCHANGED <<window, constructing, swapchain, depth_buffer, depth_buffers, depth_layout,
                 presentVars>>

ResizeThrows ==
  /\ step = "idle"
  /\ window
  /\ ~cleared
  /\ DepthBufferIsStale
  /\ image_views' = <<>>
  /\ complete' = FALSE
  /\ UNCHANGED <<vars, window, step, constructing, swapchain, swapchains, depth_buffer,
                 depth_buffers, depth_layout, destroyed_twice, presentVars>>

(* ~Engine; an exception out of it terminates the program.                   *)
DestroyEngine ==
  /\ step = "idle"
  /\ window => ~DepthBufferIsStale
  /\ Clear
  /\ IF window THEN DestroySwapchain
     ELSE UNCHANGED <<image_views, swapchains, destroyed_twice>>
  /\ step' = "destroyed"
  /\ UNCHANGED <<window, constructing, complete, swapchain, depth_buffer, depth_buffers,
                 depth_layout, presentVars>>

DestroyEngineTerminates ==
  /\ step = "idle"
  /\ window
  /\ DepthBufferIsStale
  /\ step' = "terminated"
  /\ image_views' = <<>>
  /\ UNCHANGED <<vars, window, constructing, complete, swapchain, swapchains, depth_buffer,
                 depth_buffers, depth_layout, destroyed_twice, presentVars>>

-----------------------------------------------------------------------------
(* The application's own resources.                                          *)
AddResource(k) ==
  /\ step = "idle"
  /\ Reuse(k) \/ ReuseThrows(k) \/ Push(k)
  /\ UNCHANGED <<surfaceVars, step, presentVars>>

DestroyResource(h) ==
  /\ step = "idle"
  /\ h \notin depth_buffers
  /\ Destroy(h)
  /\ UNCHANGED <<surfaceVars, step, presentVars>>

(* Engine::present sleeps until next_present_time.                           *)
Larger(a, b) == IF a > b THEN a ELSE b
Smaller(a, b) == IF a < b THEN a ELSE b

NextLead == Larger(lead, -RefreshInterval) + RefreshInterval

Present ==
  /\ step = "idle"
  /\ complete
  /\ limit_presents
  /\ lead <= 0
  /\ lead' = NextLead
  /\ age' = 0
  /\ crowded' = (crowded \/ age < RefreshInterval)
  /\ UNCHANGED <<vars, surfaceVars, step, limit_presents>>

Tick ==
  /\ step = "idle"
  /\ complete
  /\ limit_presents
  /\ lead' = Larger(Longest, lead - 1)
  /\ age' = Smaller(RefreshInterval, age + 1)
  /\ UNCHANGED <<vars, surfaceVars, step, limit_presents, crowded>>

Ended ==
  /\ step \in {"destroyed", "terminated", "no engine"}
  /\ UNCHANGED allVars

SwapchainNext ==
  \/ CreateSwapchain \/ CreateSwapchainThrows
  \/ AddDepthBuffer \/ AddDepthBufferThrows
  \/ TransitionDepthBuffer \/ TransitionDepthBufferThrows
  \/ CreateImages \/ CreateImagesThrows
  \/ Resize \/ ResizeThrows
  \/ \E k \in Kinds : AddResource(k)
  \/ \E h \in DOMAIN given : DestroyResource(h)
  \/ Present \/ Tick
  \/ DestroyEngine \/ DestroyEngineTerminates
  \/ Ended

SwapchainSpec == SwapchainInit /\ [][SwapchainNext]_allVars

-----------------------------------------------------------------------------
(* After a construction that came to its end there is one swapchain, the     *)
(* views are its images', and the depth buffer is there in the layout of an  *)
(* attachment, also if resizes before it threw; ~Engine leaves no swapchain  *)
(* unless it terminates.                                                     *)
SwapchainWhole ==
  /\ step = "idle" /\ complete =>
       /\ swapchains = {swapchain}
       /\ image_views = [n \in 1 .. ImageCount |-> swapchain]
       /\ Get(depth_buffer) = "found"
       /\ depth_layout = "depth attachment"
  /\ step = "destroyed" => swapchains = {} /\ image_views = <<>>

(* A resize destroys what it replaces and nothing else, however the resizes  *)
(* before it failed: no swapchain a second time, and no resource of the      *)
(* application, also when the depth buffer handle is old and its slot has    *)
(* been given to somebody else.                                              *)
OwnResources == LiveHandles \ depth_buffers
ResizeKeepsResources ==
  [][step' # step \/ image_views' # image_views =>
       /\ ~destroyed_twice'
       /\ step' # "destroyed" => OwnResources \subseteq OwnResources']_allVars

(* Limited presents are "one per refresh interval of the window's display"    *)
(* (include/vkte/swapchain.hpp:18).  They are not: next_present_time counts  *)
(* from when a present was due, up to an interval ago (engine.cpp:335), so   *)
(* the one after a late present, or after the first, need not wait.          *)
OnePresentPerInterval == ~crowded
=============================================================================
