------------------------------ MODULE Command ------------------------------
(***************************************************************************)
(* vkte::Command and the device it submits to.  Every queue type (graphics, *)
(* compute, transfer) has a timeline semaphore; each submission signals the *)
(* type's next value.  A frame's submissions wait for what the previous     *)
(* frame submitted, and a frame slot is reused once the host has seen the   *)
(* values its last use signaled.                                            *)
(*                                                                          *)
(* One host thread (the one that calls Engine::begin_frame and end_frame)   *)
(* drives Command, other threads only call get_timeline_progress, and the   *)
(* device works through what was submitted.                                 *)
(***************************************************************************)
EXTENDS Naturals

CONSTANTS
  Types,             (* the queue types, enum Command::Type                    *)
  Compute,           (* the type the engine submits its frame work to          *)
  QueueOf,           (* type -> VkQueue; types of one queue family share it    *)
  frames_in_flight,  (* frame slots                                            *)
  MaxFrames,         (* bound: calls of begin_frame                            *)
  MaxSubmissions,    (* bound: infos given to submit and run_one_time             *)
  Readers,           (* the types whose progress other threads ask for           *)
  MaxInfos,          (* bound: SubmitInfos of one submit call                  *)
  MaxFailures        (* bound: queue submissions that throw                    *)

ASSUME ComputeAssumption == Compute \in Types
ASSUME ReadersAssumption == Readers \subseteq Types
ASSUME FramesAssumption == frames_in_flight \in Nat \ {0}
ASSUME BoundsAssumption ==
  MaxFrames \in Nat /\ MaxSubmissions \in Nat /\ MaxInfos \in Nat /\ MaxFailures \in Nat

VARIABLES
  timeline_values,   (* type -> last value given to a submission               *)
  submitted_values,  (* type -> last value published to other threads          *)
  frame_end_values,  (* slot -> type -> value signaled last by its last use    *)
  frame_waits,       (* type -> value the frame's submissions wait for         *)
  current_frame,     (* Engine::current_frame, the slot in use                 *)
  host,              (* where the host thread is                               *)
  call,              (* the submit or run_one_time call under way              *)
  frame,             (* calls of begin_frame so far                            *)
  failures,          (* queue submissions that threw                           *)
  progress,          (* type -> what get_timeline_progress last loaded         *)
  submissions,       (* device: batches submitted so far                       *)
  semaphore,         (* device: type -> counter of the timeline semaphore      *)
  batches,           (* device: submitted batches that have not signaled yet   *)
  started            (* device: the batches among them that run                *)

hostVars == <<timeline_values, submitted_values, frame_end_values, frame_waits,
              current_frame, host, call, frame, failures>>
gpuVars == <<submissions, semaphore, batches, started>>
vars == <<hostVars, progress, gpuVars>>

Slots == 0 .. frames_in_flight - 1
Zero == [t \in Types |-> 0]

(* What a submission is: the frame work of Engine::begin_frame, a frame's   *)
(* own, one outside any frame, or a one-time command buffer.                *)
SubmissionKinds == {"frame_work", "frame", "outside", "one_time"}
InFrame(b) == b.kind \in {"frame_work", "frame"}

Batch == [type: Types, value: Nat, waits: [Types -> Nat],
          kind: SubmissionKinds, frame: Nat, slot: Slots, seq: Nat]
NoCall == [type |-> Compute, kind |-> "frame", back |-> "idle"]

Init ==
  /\ timeline_values = Zero
  /\ submitted_values = Zero
  /\ frame_end_values = [f \in Slots |-> Zero]
  /\ frame_waits = Zero
  /\ current_frame = 0
  /\ host = "idle"
  /\ call = NoCall
  /\ frame = 0
  /\ failures = 0
  /\ progress = Zero
  /\ submissions = 0
  /\ semaphore = Zero
  /\ batches = {}
  /\ started = {}

-----------------------------------------------------------------------------
(* The frame protocol of Engine::begin_frame and Engine::end_frame.         *)

(* Mutants: waits for any of the semaphores, or for none.                    *)
ReachedAny(values) == \E t \in Types : semaphore[t] >= values[t]
ReachedAlways(values) == TRUE

Reached(values) == \A t \in Types : semaphore[t] >= values[t]

(* begin_frame blocks until the slot's previous submissions are done ...     *)
BeginFrame ==
  /\ host = "idle"
  /\ frame < MaxFrames
  /\ host' = "begin_wait"
  /\ frame' = frame + 1
  /\ UNCHANGED <<timeline_values, submitted_values, frame_end_values, frame_waits,
                 current_frame, call, failures, progress, gpuVars>>

(* Mutant: the slot itself.                                                  *)
SameSlot(f) == f

PreviousSlot(f) == (f + frames_in_flight - 1) % frames_in_flight

(* ... and then orders the frame after the previous one.                     *)
BeginFrameReturns ==
  /\ host = "begin_wait"
  /\ Reached(frame_end_values[current_frame])
  /\ frame_waits' = frame_end_values[PreviousSlot(current_frame)]
  /\ host' = "begin"
  /\ UNCHANGED <<timeline_values, submitted_values, frame_end_values, current_frame,
                 call, frame, failures, progress, gpuVars>>

(* Engine::begin_frame without anything to record.                           *)
NoFrameWork ==
  /\ host = "begin"
  /\ host' = "frame"
  /\ UNCHANGED <<timeline_values, submitted_values, frame_end_values, frame_waits,
                 current_frame, call, frame, failures, progress, gpuVars>>

WaitForComputeSubmissions ==
  /\ host = "wait_compute"
  /\ frame_waits' = [frame_waits EXCEPT ![Compute] = timeline_values[Compute]]
  /\ host' = "frame"
  /\ UNCHANGED <<timeline_values, submitted_values, frame_end_values, current_frame,
                 call, frame, failures, progress, gpuVars>>

NextSlot(f) == (f + 1) % frames_in_flight

EndFrame ==
  /\ host = "frame"
  /\ frame_end_values' = [frame_end_values EXCEPT ![current_frame] = timeline_values]
  /\ current_frame' = NextSlot(current_frame)
  /\ host' = "idle"
  /\ UNCHANGED <<timeline_values, submitted_values, frame_waits, call, frame,
                 failures, progress, gpuVars>>

-----------------------------------------------------------------------------
(* Submissions.                                                             *)

(* Mutant: the values are taken before they are incremented.                 *)
LateBatches(type, n, waits, kind) ==
  {[type |-> type, value |-> timeline_values[type] + i - 1, waits |-> waits, kind |-> kind,
    frame |-> frame, slot |-> current_frame, seq |-> submissions + i] :
   i \in 1 .. n}

(* What the n infos of one call become: each waits for the same values and   *)
(* signals the type's next one.                                              *)
NewBatches(type, n, waits, kind) ==
  {[type |-> type, value |-> timeline_values[type] + i, waits |-> waits, kind |-> kind,
    frame |-> frame, slot |-> current_frame, seq |-> submissions + i] :
   i \in 1 .. n}

(* The values are taken first, then the queue gets the batches; other        *)
(* threads learn of them in a step of its own (Publish).                      *)
Enqueue(type, n, waits, kind) ==
  /\ submissions + failures + n <= MaxSubmissions
  /\ timeline_values' = [timeline_values EXCEPT ![type] = @ + n]
  /\ call' = [type |-> type, kind |-> kind, back |-> host]
  /\ \/ /\ batches' = batches \union NewBatches(type, n, waits, kind)
        /\ submissions' = submissions + n
        /\ host' = "publish"
        /\ UNCHANGED failures
     \/ (* queue.submit2 throws: the values are spent, nothing was submitted *)
        /\ failures < MaxFailures
        /\ failures' = failures + 1
        /\ host' = IF kind = "frame_work" THEN "idle" ELSE host
        /\ UNCHANGED <<batches, submissions>>
  /\ UNCHANGED <<submitted_values, frame_end_values, frame_waits, current_frame,
                 frame, progress, semaphore, started>>

(* submit_graphics, submit_compute, submit_transfer by the application.      *)
Submit(type, n) ==
  \/ /\ host = "frame"
     /\ Enqueue(type, n, frame_waits, "frame")
  \/ /\ host = "idle"
     /\ Enqueue(type, n, frame_waits, "outside")

(* The one info that Engine::begin_frame submits when there is frame work.   *)
SubmitFrameWork ==
  /\ host = "begin"
  /\ Enqueue(Compute, 1, frame_waits, "frame_work")

(* run_one_time submits without waits and blocks until the value is reached. *)
RunOneTime(type) ==
  /\ host \in {"idle", "begin", "frame"}
  /\ Enqueue(type, 1, Zero, "one_time")

(* Mutant: begin_frame does not order the frame after its frame work.        *)
UnorderedAfterPublish(kind, back) ==
  IF kind = "one_time" THEN "one_time_wait"
  ELSE IF kind = "frame_work" THEN "frame" ELSE back

AfterPublish(kind, back) ==
  IF kind = "one_time" THEN "one_time_wait"
  ELSE IF kind = "frame_work" THEN "wait_compute" ELSE back

Publish ==
  /\ host = "publish"
  /\ submitted_values' = [submitted_values EXCEPT ![call.type] = timeline_values[call.type]]
  /\ host' = AfterPublish(call.kind, call.back)
  /\ UNCHANGED <<timeline_values, frame_end_values, frame_waits, current_frame, call,
                 frame, failures, progress, gpuVars>>

OneTimeReturns ==
  /\ host = "one_time_wait"
  /\ semaphore[call.type] >= timeline_values[call.type]
  /\ host' = call.back
  /\ UNCHANGED <<timeline_values, submitted_values, frame_end_values, frame_waits,
                 current_frame, call, frame, failures, progress, gpuVars>>

(* Mutant: reads the values before they are published.                       *)
LoadUnpublished(type) ==
  /\ progress' = [progress EXCEPT ![type] = timeline_values[type]]
  /\ UNCHANGED <<hostVars, gpuVars>>

(* get_timeline_progress on another thread: one atomic load per type.        *)
LoadProgress(type) ==
  /\ progress' = [progress EXCEPT ![type] = submitted_values[type]]
  /\ UNCHANGED <<hostVars, gpuVars>>

(* The engine is destroyed between frames once the device is idle.           *)
Destruct ==
  /\ host = "idle"
  /\ batches = {}
  /\ host' = "destroyed"
  /\ UNCHANGED <<timeline_values, submitted_values, frame_end_values, frame_waits,
                 current_frame, call, frame, failures, progress, gpuVars>>

Destroyed ==
  /\ host = "destroyed"
  /\ UNCHANGED vars

-----------------------------------------------------------------------------
(* The device (external).  A queue starts its batches in submission order,   *)
(* each once its waits are satisfied, runs them concurrently and performs    *)
(* their signals in submission order.                                        *)

SameQueueBefore(b) == {c \in batches : QueueOf[c.type] = QueueOf[b.type] /\ c.seq < b.seq}

Start(b) ==
  /\ b \notin started
  /\ SameQueueBefore(b) \subseteq started
  /\ Reached(b.waits)
  /\ started' = started \union {b}
  /\ UNCHANGED <<submissions, semaphore, batches, hostVars, progress>>

Signal(b) ==
  /\ b \in started
  /\ SameQueueBefore(b) = {}
  /\ semaphore' = [semaphore EXCEPT ![b.type] = b.value]
  /\ batches' = batches \ {b}
  /\ started' = started \ {b}
  /\ UNCHANGED <<submissions, hostVars, progress>>

-----------------------------------------------------------------------------
HostStep ==
  \/ BeginFrame
  \/ BeginFrameReturns
  \/ NoFrameWork
  \/ SubmitFrameWork
  \/ WaitForComputeSubmissions
  \/ EndFrame
  \/ \E type \in Types, n \in 1 .. MaxInfos : Submit(type, n)
  \/ \E type \in Types : RunOneTime(type)
  \/ Publish
  \/ OneTimeReturns
  \/ Destruct

DeviceStep == \E b \in batches : Start(b) \/ Signal(b)

Next ==
  \/ HostStep
  \/ DeviceStep
  \/ \E type \in Readers : LoadProgress(type)
  \/ Destroyed

Spec == Init /\ [][Next]_vars

(* The device makes progress on what it was given, and a host call that can  *)
(* return does.  Nothing makes the application begin or end a frame.         *)
FairSpec ==
  /\ Spec
  /\ WF_vars(DeviceStep)
  /\ WF_vars(BeginFrameReturns)
  /\ WF_vars(Publish)
  /\ WF_vars(OneTimeReturns)

-----------------------------------------------------------------------------
(* Types.                                                                   *)

(* Every variable has its type.                                             *)
TypeOK ==
  /\ timeline_values \in [Types -> Nat]
  /\ submitted_values \in [Types -> Nat]
  /\ frame_end_values \in [Slots -> [Types -> Nat]]
  /\ frame_waits \in [Types -> Nat]
  /\ current_frame \in Slots
  /\ host \in {"idle", "begin_wait", "begin", "wait_compute", "frame", "publish",
               "one_time_wait", "destroyed"}
  /\ call \in [type: Types, kind: SubmissionKinds, back: {"idle", "begin", "frame"}]
  /\ frame \in Nat
  /\ failures \in Nat
  /\ progress \in [Types -> Nat]
  /\ submissions \in Nat
  /\ semaphore \in [Types -> Nat]
  /\ batches \subseteq Batch
  /\ started \subseteq batches

-----------------------------------------------------------------------------
(* Safety.                                                                  *)

(* The host thread is past Command::begin_frame of the current frame.        *)
Begun ==
  \/ host \in {"begin", "wait_compute", "frame"}
  \/ host \in {"publish", "one_time_wait"} /\ call.back # "idle"

(* command.hpp: "A frame's submissions wait for the previous frame's ..., so *)
(* frames run one after another on the device": while a submission of a      *)
(* frame runs, everything earlier frames submitted has signaled.             *)
FramesSerialized ==
  \A b \in started, c \in batches :
    InFrame(b) /\ InFrame(c) => b.frame <= c.frame

(* "... and for the work Engine::begin_frame() submitted": a frame's own     *)
(* submissions run only after its frame work has signaled.                   *)
FrameWorkFirst ==
  \A b \in started, c \in batches :
    b.kind = "frame" /\ c.kind = "frame_work" => b.frame # c.frame

(* Once begin_frame returned, no earlier use of the frame slot is left on    *)
(* the device: command buffers and tables of the slot may be written.        *)
FrameSlotReusable ==
  Begun => \A b \in batches :
             InFrame(b) /\ b.frame < frame => b.slot # current_frame

(* A timeline only moves forward: every pending signal is ahead of the       *)
(* semaphore's counter and the values of a type are distinct.                *)
SignalsAhead ==
  \A b \in batches :
    /\ b.value > semaphore[b.type]
    /\ \A c \in batches : c.type = b.type /\ c.value = b.value => c = b

Reachable(type, value) ==
  \/ semaphore[type] >= value
  \/ \E b \in batches : b.type = type /\ b.value >= value

(* The value another thread got from get_timeline_progress is one the        *)
(* semaphore has or a submission in a queue will signal.                     *)
ProgressReachable == \A t \in Types : Reachable(t, progress[t])

(* begin_frame and run_one_time only block on values that submitted work     *)
(* signals, and a submission only waits for work submitted before it: with   *)
(* queues that start in order, the device and the host cannot wait for each  *)
(* other in a cycle.                                                         *)
HostWaitsReachable ==
  /\ host = "begin_wait" =>
       \A t \in Types : Reachable(t, frame_end_values[current_frame][t])
  /\ host = "one_time_wait" => Reachable(call.type, timeline_values[call.type])

-----------------------------------------------------------------------------
(* The inductive invariant behind the safety properties.                    *)

(* Where the host thread is in the frame, seen past the call under way.      *)
Phase ==
  IF host \in {"publish", "one_time_wait"}
  THEN IF call.kind = "frame_work" THEN "wait_compute" ELSE call.back
  ELSE host

InFrameBatches == {b \in batches : InFrame(b)}

(* A call returns to where its kind of submission comes from.                *)
CallSound ==
  host \in {"publish", "one_time_wait"} =>
    /\ call.kind = "frame_work" => call.back = "begin"
    /\ call.kind = "frame" => call.back = "frame"
    /\ call.kind = "outside" => call.back = "idle"
    /\ host = "one_time_wait" => call.kind = "one_time"

(* Submission order is value order, ahead of the semaphore.                  *)
Ordered ==
  /\ \A t \in Types : semaphore[t] <= timeline_values[t]
  /\ \A b \in batches :
       /\ b.seq <= submissions
       /\ semaphore[b.type] < b.value /\ b.value <= timeline_values[b.type]
  /\ \A b, c \in batches :
       /\ b.seq = c.seq => b = c
       /\ b.type = c.type /\ b.seq < c.seq => b.value < c.value

(* No submission is of a later frame; until there is frame work all are of   *)
(* earlier ones, and this frame's are in its slot.                           *)
FramesTagged ==
  \A b \in InFrameBatches :
    /\ b.frame <= frame
    /\ Phase \in {"begin_wait", "begin"} => b.frame < frame
    /\ Phase \in {"wait_compute", "frame"} /\ b.frame = frame => b.slot = current_frame
    /\ b.kind = "frame_work" => b.type = Compute

(* The values of a slot's last use cover its submissions, and the previous   *)
(* slot's cover those of all earlier frames.                                 *)
EndValuesCover ==
  \A b \in InFrameBatches :
    /\ b.frame < frame \/ Phase = "idle" => b.value <= frame_end_values[b.slot][b.type]
    /\ Phase \in {"idle", "begin_wait", "begin"} =>
         b.value <= frame_end_values[PreviousSlot(current_frame)][b.type]

(* What a frame's submissions wait for covers all earlier frames and its own *)
(* frame work.                                                               *)
FrameWaitsCover ==
  \A b \in InFrameBatches :
    /\ Begun /\ b.frame < frame => b.value <= frame_waits[b.type]
    /\ Phase = "frame" /\ b.kind = "frame_work" => b.value <= frame_waits[b.type]

WaitsCover ==
  \A b, c \in InFrameBatches :
    \/ c.frame < b.frame
    \/ c.frame = b.frame /\ c.kind = "frame_work" /\ b.kind = "frame"
    => c.value <= b.waits[c.type]

(* Published values are signaled, and the others read no other ones.         *)
PublishedReachable ==
  /\ \A t \in Types : Reachable(t, submitted_values[t])
  /\ host = "publish" => Reachable(call.type, timeline_values[call.type])

(* The invariant that every step preserves: why frames do not overlap.       *)
IInv ==
  /\ TypeOK
  /\ CallSound
  /\ Ordered
  /\ FramesTagged
  /\ EndValuesCover
  /\ FrameWaitsCover
  /\ WaitsCover
  /\ FramesSerialized
  /\ FrameWorkFirst
  /\ FrameSlotReusable
  /\ PublishedReachable
  /\ ProgressReachable

-----------------------------------------------------------------------------
(* Liveness.                                                                *)

(* A host thread that blocks in begin_frame or run_one_time gets to go on,   *)
(* provided that no queue submission has thrown.                             *)
HostWaitsEnd ==
  /\ host = "begin_wait" /\ failures = 0 ~> host # "begin_wait"
  /\ host = "one_time_wait" /\ failures = 0 ~> host # "one_time_wait"
=============================================================================
