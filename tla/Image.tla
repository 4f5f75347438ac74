------------------------------- MODULE Image -------------------------------
(***************************************************************************)
(* vkte::Image, one at a time: the constructor with and without data, the    *)
(* layout transitions of a live image, create_sampler and the destructor.    *)
(* The constructor runs up to three one-time submissions, each a step that   *)
(* may throw; an exception leaves the constructor, whose destructor does     *)
(* not run.  Layers and depth change every level alike and are left out.     *)
(***************************************************************************)
EXTENDS OneTimeCommands

CONSTANTS
  Extents,       (* widths and heights of images                               *)
  Layouts,       (* layouts the application asks for                           *)
  ImageQueues    (* sets of queues the application names for an image          *)

(* Vulkan lets nobody change an image to the undefined layout.               *)
ASSUME ImageAssumption ==
  /\ \A wh \in Extents : wh \in (Nat \ {0}) \X (Nat \ {0})
  /\ "undefined" \notin Layouts
  /\ ImageQueues \subseteq SUBSET QueueKinds

VARIABLES
  settings,      (* of the image being constructed or alive, or NotCreated     *)
  step,          (* what the constructor does next, "live", or "none"          *)
  extent,        (* w and h                                                    *)
  mip_levels,
  layout,
  tmp_image,     (* device images, or NotCreated                               *)
  image,
  view,          (* whether they exist                                         *)
  sampler

imageVars == <<settings, step, extent, mip_levels, layout, tmp_image, image, view, sampler>>

Settings == [extent: Extents, use_mip_maps: BOOLEAN, base_mip_map_lvl: 0 .. 2,
             sampled: BOOLEAN, linear: BOOLEAN, filterable: BOOLEAN,
             queues: ImageQueues, has_data: BOOLEAN]

Larger(wh) == IF wh[1] > wh[2] THEN wh[1] ELSE wh[2]
(* floor(log2(n)) + 1.                                                       *)
Levels[n \in Nat] == IF n <= 1 THEN 1 ELSE 1 + Levels[n \div 2]
MipLevels(wh) == Levels[Larger(wh)]
AtLeastOne(n) == IF n = 0 THEN 1 ELSE n
Reduced(wh, lvl) == <<AtLeastOne(wh[1] \div 2^lvl), AtLeastOne(wh[2] \div 2^lvl)>>

(* Settings an application may ask for: a reduced image has the levels it is *)
(* reduced by, which nothing asserts.  A filter matters to a sampler only.   *)
Legal(s) ==
  /\ s.queues # {}
  /\ s.linear => s.sampled
  /\ s.base_mip_map_lvl > 0 =>
       s.has_data /\ s.use_mip_maps /\ s.base_mip_map_lvl < MipLevels(s.extent)

ImageInit ==
  /\ settings = NotCreated
  /\ step = "none"
  /\ extent = <<1, 1>>
  /\ mip_levels = 1
  /\ layout = "undefined"
  /\ tmp_image = NotCreated
  /\ image = NotCreated
  /\ view = FALSE
  /\ sampler = FALSE

-----------------------------------------------------------------------------
(* Device images.                                                            *)
NewImage(levels, queues) ==
  [layouts |-> [l \in 1 .. levels |-> "undefined"],
   contents |-> [l \in 1 .. levels |-> Undefined],
   shared |-> SharedBy(queues),
   owner |-> 0]

(* A barrier on levels that all have the old layout, or whose contents it    *)
(* gives up.                                                                 *)
Barrier(memory, levels, old, new) ==
  [memory EXCEPT
     !.layouts = [l \in DOMAIN @ |-> IF l \in levels THEN new ELSE @[l]],
     !.contents = [l \in DOMAIN @ |->
                     IF l \in levels /\ old = "undefined" THEN Undefined ELSE @[l]]]

BarrierValid(memory, levels, old) ==
  /\ levels # {}
  /\ levels \subseteq DOMAIN memory.layouts
  /\ old # "undefined" => \A l \in levels : memory.layouts[l] = old

BlitValid(source, level, target, other) ==
  /\ source.layouts[level] = "transfer_src"
  /\ target.layouts[other] = "transfer_dst"
  /\ settings.filterable

(* transitionImageLayout and copyMemoryToImage, both by the host.            *)
HostUpload(memory, levels) ==
  LET general == Barrier(memory, 1 .. levels, "undefined", "general")
  IN [general EXCEPT !.contents[1] = "data"]

Forget ==
  /\ settings' = NotCreated
  /\ step' = "none"
  /\ extent' = <<1, 1>>
  /\ mip_levels' = 1
  /\ layout' = "undefined"
  /\ tmp_image' = NotCreated
  /\ image' = NotCreated
  /\ view' = FALSE
  /\ sampler' = FALSE

(* What has been created is lost with the exception.                         *)
ConstructorThrows(objects) ==
  /\ leaked' = leaked \union objects
  /\ Forget

-----------------------------------------------------------------------------
(* The constructor.  create_sampler refuses a linear filter the format does  *)
(* not support.                                                              *)
SamplerRefused(s) == s.sampled /\ s.linear /\ ~s.filterable

CreateEmpty(s) ==
  /\ ~s.has_data
  /\ ~SamplerRefused(s)
  /\ settings' = s
  /\ step' = "live"
  /\ extent' = s.extent
  /\ mip_levels' = IF s.use_mip_maps THEN MipLevels(s.extent) ELSE 1
  /\ layout' = "undefined"
  /\ image' = NewImage(mip_levels', s.queues)
  /\ view' = TRUE
  /\ sampler' = s.sampled
  /\ UNCHANGED <<tmp_image, deviceVars>>

CreateEmptyThrows(s) ==
  /\ ~s.has_data
  /\ Fails
  /\ \E objects \in IF SamplerRefused(s) THEN {{"image", "view"}} ELSE {{}, {"image"}} :
       leaked' = leaked \union objects
  /\ UNCHANGED <<imageVars, offered, surface, families, one_time_cbs, invalid>>

(* create_image_from_data: a format without linear filtering has no levels   *)
(* but the first.                                                            *)
UsedLevels(s) == IF s.use_mip_maps /\ s.filterable THEN MipLevels(s.extent) ELSE 1
UsedBase(s) == IF s.filterable THEN s.base_mip_map_lvl ELSE 0

(* Mutant: the temporary image is made for the transfer queue alone.         *)
TransferQueue == {"transfer"}

TemporaryQueues == {"graphics", "transfer"}

(* The image of the upload has all levels of its extent, whatever mip_levels *)
(* says; with a base level it is a temporary one of a single level.  A       *)
(* sampler that will be refused counts as a failed call from here on.        *)
CreateForUpload(s) ==
  /\ s.has_data
  /\ IF SamplerRefused(s) THEN Fails ELSE UNCHANGED failures
  /\ settings' = s
  /\ step' = "upload"
  /\ extent' = s.extent
  /\ mip_levels' = UsedLevels(s)
  /\ IF UsedBase(s) > 0
     THEN /\ tmp_image' = HostUpload(NewImage(1, TemporaryQueues), 1)
          /\ UNCHANGED image
     ELSE /\ image' = HostUpload(NewImage(MipLevels(s.extent), s.queues), UsedLevels(s))
          /\ UNCHANGED tmp_image
  /\ UNCHANGED <<layout, view, sampler, offered, surface, families, one_time_cbs, leaked, invalid>>

CreateForUploadThrows(s) ==
  /\ s.has_data
  /\ Fails
  /\ \E objects \in {{}, {"image"}} : leaked' = leaked \union objects
  /\ UNCHANGED <<imageVars, offered, surface, families, one_time_cbs, invalid>>

(* upload_data_to_image: the barrier on the transfer queue.                  *)
Reduces == UsedBase(settings) > 0
UploadTarget == IF Reduces THEN tmp_image ELSE image
UploadLevels == IF Reduces THEN {1} ELSE 1 .. mip_levels
Uploaded == Barrier(Acquire(UploadTarget, "transfer"), UploadLevels, "general", "transfer_dst")
UploadRules == [barrier |-> BarrierValid(UploadTarget, UploadLevels, "general")]

UploadTemporary ==
  /\ step = "upload"
  /\ Reduces
  /\ RunOneTime("transfer", UploadRules)
  /\ tmp_image' = Uploaded
  /\ step' = "reduce"
  /\ UNCHANGED <<settings, extent, mip_levels, layout, image, view, sampler, leaked>>

Upload ==
  /\ step = "upload"
  /\ ~Reduces
  /\ RunOneTime("transfer", UploadRules)
  /\ image' = Uploaded
  /\ step' = "prepare"
  /\ layout' = "transfer_dst"
  /\ UNCHANGED <<settings, extent, mip_levels, tmp_image, view, sampler, leaked>>

UploadThrows ==
  /\ step = "upload"
  /\ RunOneTimeThrows("transfer", UploadRules, "ready")
  /\ ConstructorThrows({"image"})

(* The blit of the temporary image into the image of the reduced extent,     *)
(* which is created while the command buffer is recorded.                    *)
ReducedExtent == Reduced(extent, UsedBase(settings))
Source == Barrier(Acquire(tmp_image, "graphics"), {1}, "transfer_dst", "transfer_src")

(* Mutant: the image keeps counting the levels it was reduced by.            *)
SameLevels == mip_levels

RemainingLevels == mip_levels - UsedBase(settings)

Target ==
  Barrier(Acquire(NewImage(MipLevels(ReducedExtent), settings.queues), "graphics"),
          1 .. RemainingLevels, "undefined", "transfer_dst")

Blit(source, level, target, other) ==
  [target EXCEPT !.contents[other] = source.contents[level]]

ReduceRules ==
  [barrier |-> /\ BarrierValid(tmp_image, {1}, "transfer_dst")
               /\ 1 .. RemainingLevels \subseteq DOMAIN Target.layouts,
   blit |-> BlitValid(Source, 1, Target, 1)]

(* Mutant: the temporary image is kept.                                      *)
ReduceKeepsTemporary ==
  /\ step = "reduce"
  /\ RunOneTime("graphics", ReduceRules)
  /\ image' = Blit(Source, 1, Target, 1)
  /\ extent' = ReducedExtent
  /\ mip_levels' = RemainingLevels
  /\ step' = "prepare"
  /\ layout' = "transfer_dst"
  /\ UNCHANGED <<settings, tmp_image, view, sampler, leaked>>

Reduce ==
  /\ step = "reduce"
  /\ RunOneTime("graphics", ReduceRules)
  /\ image' = Blit(Source, 1, Target, 1)
  /\ extent' = ReducedExtent
  /\ mip_levels' = RemainingLevels
  /\ tmp_image' = NotCreated
  /\ step' = "prepare"
  /\ layout' = "transfer_dst"
  /\ UNCHANGED <<settings, view, sampler, leaked>>

ReduceThrows ==
  /\ step = "reduce"
  /\ \/ RunOneTimeThrows("graphics", [begin |-> TRUE], "recording")
     \/ RunOneTimeThrows("graphics", ReduceRules, "ready")
  /\ ConstructorThrows({"image"})

-----------------------------------------------------------------------------
(* generate_mipmaps: each level is blitted into the next one and is done.    *)
Generating(memory) == [memory |-> memory, barrier |-> TRUE, blit |-> TRUE]

Transitioned(made, levels, old, new) ==
  [made EXCEPT !.memory = Barrier(@, levels, old, new),
               !.barrier = @ /\ BarrierValid(made.memory, levels, old)]

Blitted(made, level) ==
  [made EXCEPT !.memory = Blit(@, level, @, level + 1),
               !.blit = @ /\ BlitValid(made.memory, level, made.memory, level + 1)]

MakeLevel(made, level) ==
  Transitioned(
    Blitted(Transitioned(made, {level}, "transfer_dst", "transfer_src"), level),
    {level}, "transfer_src", "shader_read")

(* What recording the first levels has done to the image, for every number   *)
(* of levels.                                                                *)
MadeLevels ==
  LET made[n \in 0 .. mip_levels - 1] ==
        IF n = 0 THEN Generating(Acquire(image, "graphics")) ELSE MakeLevel(made[n - 1], n)
  IN made

(* Mutant: the last level is left to its old layout.                         *)
MipmapsButLast == MadeLevels[mip_levels - 1]

Mipmaps ==
  Transitioned(MadeLevels[mip_levels - 1], {mip_levels}, "transfer_dst", "shader_read")

(* transition_image_layout: every level from the layout that is tracked.     *)
Transition(new) ==
  Transitioned(Generating(Acquire(image, "graphics")), 1 .. mip_levels, layout, new)

Prepared == IF mip_levels > 1 THEN Mipmaps ELSE Transition("shader_read")
RulesOf(made) == [barrier |-> made.barrier, blit |-> made.blit]

PrepareSampling ==
  /\ step = "prepare"
  /\ settings.sampled
  /\ LET made == Prepared
     IN RunOneTime("graphics", RulesOf(made)) /\ image' = made.memory
  /\ layout' = "shader_read"
  /\ step' = "finish"
  /\ UNCHANGED <<settings, extent, mip_levels, tmp_image, view, sampler, leaked>>

PrepareSamplingThrows ==
  /\ step = "prepare"
  /\ settings.sampled
  /\ RunOneTimeThrows("graphics", RulesOf(Prepared), "ready")
  /\ ConstructorThrows({"image"})

(* create_image_view and, for a sampled image, create_sampler.               *)
Finishing == step = "finish" \/ (step = "prepare" /\ ~settings.sampled)

Finish ==
  /\ Finishing
  /\ ~SamplerRefused(settings)
  /\ step' = "live"
  /\ view' = TRUE
  /\ sampler' = settings.sampled
  /\ UNCHANGED <<settings, extent, mip_levels, layout, tmp_image, image, deviceVars>>

FinishThrows ==
  /\ Finishing
  /\ \/ SamplerRefused(settings) /\ UNCHANGED failures
     \/ ~SamplerRefused(settings) /\ Fails
  /\ ConstructorThrows({"image", "view"})
  /\ UNCHANGED <<offered, surface, families, one_time_cbs, invalid>>

-----------------------------------------------------------------------------
(* A live image.                                                             *)
TransitionImageLayout(new) ==
  /\ step = "live"
  /\ RunOneTime("graphics", RulesOf(Transition(new)))
  /\ image' = Transition(new).memory
  /\ layout' = new
  /\ UNCHANGED <<settings, step, extent, mip_levels, tmp_image, view, sampler, leaked>>

TransitionImageLayoutThrows(new) ==
  /\ step = "live"
  /\ RunOneTimeThrows("graphics", RulesOf(Transition(new)), "ready")
  /\ UNCHANGED <<imageVars, leaked>>

(* A public create_sampler forgets the sampler the image has.                *)
CreateSampler ==
  /\ step = "live"
  /\ ~SamplerRefused(settings)
  /\ leaked' = leaked \union IF sampler THEN {"replaced sampler"} ELSE {}
  /\ sampler' = TRUE
  /\ UNCHANGED <<settings, step, extent, mip_levels, layout, tmp_image, image, view,
                 offered, surface, families, one_time_cbs, failures, invalid>>

(* Work of the application on one of the queues it named.                    *)
UseImage(kind) ==
  /\ step = "live"
  /\ kind \in settings.queues
  /\ families[kind] # 0
  /\ image' = Acquire(image, kind)
  /\ UNCHANGED <<settings, step, extent, mip_levels, layout, tmp_image, view, sampler,
                 deviceVars>>

(* ~Image.                                                                   *)
DestroyImage ==
  /\ step = "live"
  /\ Forget
  /\ UNCHANGED deviceVars

-----------------------------------------------------------------------------
ImageNext ==
  \/ /\ DeviceConstructed
     /\ step = "none"
     /\ \E s \in Settings :
          /\ Legal(s)
          /\ SharedBy(s.queues) # {}
          /\ \/ CreateEmpty(s)
             \/ CreateEmptyThrows(s)
             \/ CreateForUpload(s)
             \/ CreateForUploadThrows(s)
  \/ UploadTemporary \/ Upload \/ UploadThrows
  \/ Reduce \/ ReduceThrows
  \/ PrepareSampling \/ PrepareSamplingThrows
  \/ Finish \/ FinishThrows
  \/ \E new \in Layouts : TransitionImageLayout(new) \/ TransitionImageLayoutThrows(new)
  \/ CreateSampler
  \/ \E kind \in QueueKinds : UseImage(kind)
  \/ DestroyImage

-----------------------------------------------------------------------------
(* The layout an image reports is the layout of every level its view covers, *)
(* so the next transition of the application starts from what is there.      *)
LayoutTracked ==
  step = "live" => \A l \in 1 .. mip_levels : image.layouts[l] = layout

(* The uploaded data is in every level a sampler can reach (in the first one *)
(* of an image that is not sampled), whichever queues the upload went        *)
(* through, if the application shares the image between the families of the  *)
(* graphics and the transfer queue.                                          *)
UploadsVisible ==
  /\ step = "live"
  /\ settings.has_data
  /\ {families["graphics"], families["transfer"]} \subseteq image.shared
  => \A l \in 1 .. IF settings.sampled THEN mip_levels ELSE 1 : image.contents[l] = "data"
=============================================================================
