------------------------------- MODULE Engine -------------------------------
(***************************************************************************)
(* The frame loop of vkte::Engine: begin_frame and end_frame drive Command   *)
(* and MemoryManager from one thread while the device works on what was      *)
(* submitted.  Both components are used as they are: the actions of Command, *)
(* which this module extends, with those of the manager, MM.  uses records   *)
(* what each pending submission may touch on the device.                     *)
(***************************************************************************)
EXTENDS Command, Integers, Sequences, FiniteSets

CONSTANTS
  Kinds, Names, NoName, initial_bindless_capacity, max_capacity,
  MaxResources, MaxRegistrations, MaxSetFailures

ASSUME KindsAssumption == Kinds \subseteq {"buffer", "image"}
ASSUME NamesAssumption == NoName \notin Names
ASSUME CapacityAssumption ==
  /\ initial_bindless_capacity \in Nat \ {0}
  /\ max_capacity \in [Kinds -> Nat \ {0}]
ASSUME ManagerBoundsAssumption ==
  MaxResources \in Nat /\ MaxRegistrations \in Nat /\ MaxSetFailures \in Nat

VARIABLES
  (* MemoryManager and Storage; current_frame is the engine's in both          *)
  live, created, held, size, slots, free_indices, names, pending_destructions,
  global_frame_counter, capacity, frame_capacities, pending_writes, tables,
  frame_sets, sets, sets_created, set_failures, phase, issued, open,
  uses               (* seq of a pending submission -> what it may touch       *)

MM == INSTANCE MemoryManager

commandVars == <<timeline_values, submitted_values, frame_end_values, frame_waits, host,
                 call, frame, failures, progress, gpuVars>>
memoryVars == <<live, created, held, size, slots, free_indices, names,
                pending_destructions, global_frame_counter, capacity, frame_capacities,
                pending_writes, tables, frame_sets, sets, sets_created, set_failures,
                phase, issued, open>>
engineVars == <<commandVars, memoryVars, current_frame, uses>>

(* What work recorded now may touch: the resources the application can still *)
(* name, and the bindless set Engine::bind binds.                            *)
Named(k) == (held[k] \union MM!Registered(k)) \ {MM!None}
Usable == [resources |-> [k \in Kinds |-> Named(k)], set |-> frame_sets[current_frame]]

Seqs(bs) == {b.seq : b \in bs}
Track == uses' = [s \in Seqs(batches') |-> IF s \in DOMAIN uses THEN uses[s] ELSE Usable]

EngineInit ==
  /\ Init
  /\ MM!Init
  /\ uses = [s \in {} |-> Usable]

-----------------------------------------------------------------------------
(* Engine::begin_frame waits for the slot, ...                               *)
EngineBeginFrame ==
  /\ BeginFrame
  /\ UNCHANGED <<memoryVars, uses>>

(* ... then destroys what is due, ...                                        *)
EngineBeginFrameReturns ==
  /\ BeginFrameReturns
  /\ MM!BeginFrame
  /\ UNCHANGED uses

(* ... records and submits the frame work, if there is any, ...              *)
EngineSubmitFrameWork ==
  /\ SubmitFrameWork
  /\ failures' = failures
  /\ Track
  /\ UNCHANGED memoryVars

(* If that throws, so does begin_frame: the tables stay unwritten and the    *)
(* application may begin the frame again, in the same slot.                  *)
BeginFrameThrows ==
  /\ SubmitFrameWork
  /\ failures' # failures
  /\ phase' = "outside"
  /\ UNCHANGED <<live, created, held, size, slots, free_indices, names,
                 pending_destructions, global_frame_counter, capacity, frame_capacities,
                 pending_writes, tables, frame_sets, sets, sets_created, set_failures,
                 issued, open, uses>>

(* ... which the frame's own submissions wait for, and writes the tables.    *)
WriteDescriptors ==
  /\ WaitForComputeSubmissions \/ NoFrameWork
  /\ MM!WriteDescriptors
  /\ UNCHANGED uses

(* MemoryManager::begin_frame throws after Command's has returned.           *)
FlushThrows ==
  /\ host = "begin_wait"
  /\ Reached(frame_end_values[current_frame])
  /\ frame_waits' = frame_end_values[PreviousSlot(current_frame)]
  /\ host' = "idle"
  /\ MM!FlushThrows
  /\ UNCHANGED <<timeline_values, submitted_values, frame_end_values, call, frame, failures,
                 progress, gpuVars, uses>>

(* write_descriptors throws: the frame work, if there was any, is submitted. *)
CreateFrameSetThrows ==
  /\ \/ host = "begin" /\ UNCHANGED frame_waits
     \/ /\ host = "wait_compute"
        /\ frame_waits' = [frame_waits EXCEPT ![Compute] = timeline_values[Compute]]
  /\ host' = "idle"
  /\ MM!CreateFrameSetThrows
  /\ UNCHANGED <<timeline_values, submitted_values, frame_end_values, call, frame, failures,
                 progress, gpuVars, uses>>

EngineEndFrame ==
  /\ EndFrame
  /\ MM!EndFrame
  /\ UNCHANGED uses

(* The application's submissions, and those its calls make.                  *)
EngineSubmit ==
  /\ \E type \in Types :
       \/ \E n \in 1 .. MaxInfos : Submit(type, n)
       \/ RunOneTime(type)
  /\ Track
  /\ UNCHANGED memoryVars

HostReturns ==
  /\ Publish \/ OneTimeReturns
  /\ UNCHANGED <<memoryVars, uses>>

(* The application or a builder in begin_frame calls the manager.            *)
CallMemoryManager ==
  /\ host \in {"idle", "begin", "frame"}
  /\ MM!Call
  /\ UNCHANGED <<commandVars, uses>>

(* ~Engine *)
EngineDestruct ==
  /\ Destruct
  /\ MM!Destruct \/ MM!DestructThrows
  /\ UNCHANGED uses

EngineDestroyed ==
  /\ Destroyed
  /\ MM!Destroyed
  /\ UNCHANGED uses

EngineDeviceStep ==
  /\ DeviceStep
  /\ Track
  /\ UNCHANGED <<memoryVars, current_frame>>

EngineNext ==
  \/ EngineBeginFrame \/ EngineBeginFrameReturns \/ EngineSubmitFrameWork \/ BeginFrameThrows
  \/ FlushThrows \/ CreateFrameSetThrows \/ WriteDescriptors \/ EngineEndFrame
  \/ EngineSubmit \/ HostReturns \/ CallMemoryManager \/ EngineDeviceStep
  \/ EngineDestruct \/ EngineDestroyed

EngineSpec == EngineInit /\ [][EngineNext]_engineVars

-----------------------------------------------------------------------------
(* Safety.                                                                  *)

(* memory_manager.hpp: resources are destroyed "once no frame in flight can  *)
(* use them anymore": whatever a frame's submission was recorded with exists *)
(* until the submission has signaled.                                        *)
SubmittedResourcesLive ==
  \A b \in InFrameBatches :
    \A k \in Kinds : uses[b.seq].resources[k] \subseteq live[k]

(* No submission and no begin_frame has thrown.                              *)
Unfailed == failures = 0 /\ set_failures = 0

(* That holds as long as no begin_frame has thrown, and the same for the     *)
(* descriptor set and its tables, which begin_frame may replace after the    *)
(* frame work was submitted with the old ones.                               *)
SubmissionsSound ==
  Unfailed => /\ SubmittedResourcesLive
              /\ \A b \in InFrameBatches : MM!PartsOf(uses[b.seq].set) \subseteq sets

Dangling(f) ==
  \E k \in Kinds : \E i \in MM!Indices(k) :
    tables[f][k][i].generation # MM!invalid_id /\ tables[f][k][i].resource \notin live[k]

(* A frame's own submission finds no destroyed resource through its tables:  *)
(* a handle that is stale on the host does not pass valid() on the device    *)
(* once its resource is gone (as long as no begin_frame has thrown).         *)
FrameTablesSound ==
  Unfailed => \A b \in InFrameBatches : b.kind = "frame" => ~Dangling(b.slot)

(* What begin_frame returns with can be used, whatever threw before: the     *)
(* slot's set with its tables exists, and so does all that the tables name.  *)
BegunFramesUsable ==
  phase = "frame" =>
    MM!PartsOf(frame_sets[current_frame]) \subseteq sets /\ ~Dangling(current_frame)

(* The same for the frame work that begin_frame submits.                     *)
FrameWorkTablesSound ==
  \A b \in InFrameBatches : b.kind = "frame_work" => ~Dangling(b.slot)

(* The host writes a slot's tables only while no submission of an earlier    *)
(* frame that binds them is on the device, also when the submission of frame *)
(* work threw and begin_frame was called again.                              *)
TablesWrittenUnused ==
  [][set_failures = 0 => \A b \in InFrameBatches :
       tables'[b.slot] # tables[b.slot] => b.kind = "frame_work" /\ b.frame = frame]_engineVars
=============================================================================
