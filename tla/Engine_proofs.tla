---------------------------- MODULE Engine_proofs ----------------------------
(***************************************************************************)
(* Proofs about Command and about the frame loop of Engine, for any number   *)
(* of queue types, frame slots, resources, frames and submissions.           *)
(*                                                                           *)
(* The order of frames on the device and the reuse of their slots follow     *)
(* from one inductive invariant of Command, Command!IInv.  Engine steps      *)
(* Command and MemoryManager together: that no submission finds a destroyed  *)
(* resource follows from both invariants and from LoopInv, which says how    *)
(* the frames of one are those of the other.                                 *)
(***************************************************************************)
EXTENDS Engine, TLAPS

MMP == INSTANCE MemoryManager_proofs

-----------------------------------------------------------------------------
(* Command.                                                                 *)

(* The slot after the next's previous one is the slot itself.                *)
LEMMA SlotsInACircle ==
  ASSUME NEW s \in Slots
  PROVE  NextSlot(s) \in Slots /\ PreviousSlot(s) \in Slots /\ PreviousSlot(NextSlot(s)) = s
<1> DEFINE F == frames_in_flight
<1>1. F \in Nat \ {0}
  BY FramesAssumption
<1>2. s \in Nat /\ s < F
  BY <1>1 DEF Slots
<1>3. \A a \in Nat : a % F \in 0 .. F - 1
  BY <1>1
<1>4. \A a \in Nat : a < F => a % F = a
  BY <1>1
<1>5. \A a \in Nat : a < F => (F + a) % F = a
  BY <1>1
<1>6. PreviousSlot(s) \in Slots
  <2>1. s + F - 1 \in Nat
    BY <1>1, <1>2
  <2> QED
    BY <1>3, <2>1 DEF Slots, PreviousSlot
<1>7. CASE s + 1 < F
  <2>1. NextSlot(s) = s + 1
    BY <1>2, <1>4, <1>7 DEF NextSlot
  <2>2. s + 1 + F - 1 = F + s
    BY <1>1, <1>2
  <2>3. PreviousSlot(s + 1) = (F + s) % F
    BY <2>2 DEF PreviousSlot
  <2> QED
    BY <1>1, <1>2, <1>5, <1>6, <1>7, <2>1, <2>3 DEF Slots
<1>8. CASE s + 1 = F
  <2>1. NextSlot(s) = 0
    BY <1>1, <1>5, <1>8 DEF NextSlot
  <2>2. PreviousSlot(0) = F - 1
    BY <1>1, <1>4 DEF PreviousSlot
  <2> QED
    BY <1>1, <1>2, <1>6, <1>8, <2>1, <2>2 DEF Slots
<1> QED
  BY <1>1, <1>2, <1>6, <1>7, <1>8

(* The types of the batches of one call.                                     *)
LEMMA NewBatchesTyped ==
  ASSUME TypeOK, NEW type \in Types, NEW n \in Nat,
         NEW waits \in [Types -> Nat], NEW kind \in SubmissionKinds
  PROVE  NewBatches(type, n, waits, kind) \subseteq Batch
<1> SUFFICES ASSUME NEW i \in 1 .. n
             PROVE  [type |-> type, value |-> timeline_values[type] + i, waits |-> waits,
                     kind |-> kind, frame |-> frame, slot |-> current_frame,
                     seq |-> submissions + i] \in Batch
  BY DEF NewBatches
<1>1. timeline_values[type] + i \in Nat /\ submissions + i \in Nat
  BY DEF TypeOK
<1> QED
  BY <1>1 DEF Batch, TypeOK

-----------------------------------------------------------------------------
(* The steps.                                                               *)

(* A call that submits, with where the host thread makes it.                 *)
Submits(type, n, waits, kind) ==
  /\ Enqueue(type, n, waits, kind)
  /\ \/ kind = "frame" /\ host = "frame" /\ waits = frame_waits
     \/ kind = "outside" /\ host = "idle" /\ waits = frame_waits
     \/ kind = "frame_work" /\ host = "begin" /\ waits = frame_waits /\ type = Compute
     \/ kind = "one_time" /\ host \in {"idle", "begin", "frame"} /\ waits = Zero

(* Every step that submits is one, with at least one batch.                  *)
LEMMA StepCases ==
  ASSUME TypeOK, [Next]_vars
  PROVE  \/ BeginFrame
         \/ BeginFrameReturns
         \/ NoFrameWork
         \/ WaitForComputeSubmissions
         \/ EndFrame
         \/ \E type \in Types, n \in Nat \ {0}, waits \in [Types -> Nat], kind \in SubmissionKinds :
              Submits(type, n, waits, kind)
         \/ Publish
         \/ OneTimeReturns
         \/ Destruct
         \/ \E b \in batches : Start(b)
         \/ \E b \in batches : Signal(b)
         \/ \E type \in Types : LoadProgress(type)
         \/ UNCHANGED vars
<1>1. frame_waits \in [Types -> Nat] /\ Zero \in [Types -> Nat]
  BY DEF TypeOK, Zero
<1>2. ASSUME NEW type \in Types, NEW n \in 1 .. MaxInfos, Submit(type, n)
      PROVE  \E m \in Nat \ {0}, waits \in [Types -> Nat], kind \in SubmissionKinds :
               Submits(type, m, waits, kind)
  <2>1. n \in Nat \ {0}
    BY BoundsAssumption
  <2> QED
    BY <1>1, <1>2, <2>1 DEF Submit, Submits, SubmissionKinds
<1>3. ASSUME SubmitFrameWork
      PROVE  \E waits \in [Types -> Nat], kind \in SubmissionKinds : Submits(Compute, 1, waits, kind)
  BY <1>1, <1>3 DEF SubmitFrameWork, Submits, SubmissionKinds
<1>4. ASSUME NEW type \in Types, RunOneTime(type)
      PROVE  \E waits \in [Types -> Nat], kind \in SubmissionKinds : Submits(type, 1, waits, kind)
  BY <1>1, <1>4 DEF RunOneTime, Submits, SubmissionKinds
<1>5. 1 \in Nat \ {0}
  OBVIOUS
<1> QED
  BY <1>2, <1>3, <1>4, <1>5, ComputeAssumption, ReadersAssumption
  DEF Next, HostStep, DeviceStep, Destroyed

-----------------------------------------------------------------------------
(* Types.                                                                   *)

LEMMA InitTyped == Init => TypeOK
<1> SUFFICES ASSUME Init
             PROVE  TypeOK
  OBVIOUS
<1>1. 0 \in Slots
  BY FramesAssumption DEF Slots
<1> QED
  BY <1>1, ComputeAssumption DEF Init, TypeOK, Zero, NoCall, SubmissionKinds

LEMMA NextTyped == TypeOK /\ [Next]_vars => TypeOK'
<1> SUFFICES ASSUME TypeOK, [Next]_vars
             PROVE  TypeOK'
  OBVIOUS
<1> USE DEF TypeOK, gpuVars, hostVars
<1>1. CASE BeginFrame
  BY <1>1 DEF BeginFrame
<1>2. CASE BeginFrameReturns
  <2>1. PreviousSlot(current_frame) \in Slots
    BY SlotsInACircle
  <2> QED
    BY <1>2, <2>1 DEF BeginFrameReturns
<1>3. CASE NoFrameWork
  BY <1>3 DEF NoFrameWork
<1>4. CASE WaitForComputeSubmissions
  BY <1>4, ComputeAssumption DEF WaitForComputeSubmissions
<1>5. CASE EndFrame
  <2>1. NextSlot(current_frame) \in Slots
    BY SlotsInACircle
  <2> QED
    BY <1>5, <2>1 DEF EndFrame
<1>6. ASSUME NEW type \in Types, NEW n \in Nat \ {0}, NEW waits \in [Types -> Nat],
             NEW kind \in SubmissionKinds, Submits(type, n, waits, kind)
      PROVE  TypeOK'
  <2>1. NewBatches(type, n, waits, kind) \subseteq Batch
    BY NewBatchesTyped
  <2>2. batches' \subseteq Batch /\ submissions' \in Nat /\ failures' \in Nat
    BY <1>6, <2>1 DEF Submits, Enqueue
  <2>3. timeline_values' \in [Types -> Nat]
    BY <1>6 DEF Submits, Enqueue
  <2>4. host' \in {"publish", "idle", "begin", "frame"}
    BY <1>6 DEF Submits, Enqueue
  <2>5. call' \in [type: Types, kind: SubmissionKinds, back: {"idle", "begin", "frame"}]
    BY <1>6 DEF Submits, Enqueue
  <2> QED
    BY <1>6, <2>2, <2>3, <2>4, <2>5 DEF Submits, Enqueue
<1>7. CASE Publish
  BY <1>7 DEF Publish, AfterPublish
<1>8. CASE OneTimeReturns
  BY <1>8 DEF OneTimeReturns
<1>9. CASE Destruct
  BY <1>9 DEF Destruct
<1>10. ASSUME NEW b \in batches, Start(b)
       PROVE  TypeOK'
  BY <1>10 DEF Start
<1>11. ASSUME NEW b \in batches, Signal(b)
       PROVE  TypeOK'
  <2>1. b.type \in Types /\ b.value \in Nat
    BY DEF Batch
  <2> QED
    BY <1>11, <2>1 DEF Signal
<1>12. ASSUME NEW type \in Types, LoadProgress(type)
       PROVE  TypeOK'
  BY <1>12 DEF LoadProgress
<1>13. CASE UNCHANGED vars
  BY <1>13 DEF vars
<1> QED
  BY <1>1, <1>2, <1>3, <1>4, <1>5, <1>6, <1>7, <1>8, <1>9, <1>10, <1>11, <1>12, <1>13,
     StepCases

(* Every variable keeps its type.                                            *)
THEOREM TypeCorrect == Spec => []TypeOK
<1>1. TypeOK /\ [Next]_vars => TypeOK'
  BY NextTyped
<1> QED
  BY InitTyped, <1>1, PTL DEF Spec

-----------------------------------------------------------------------------
(* Facts about the batches.                                                 *)

LEMMA BatchFields ==
  ASSUME TypeOK
  PROVE  \A b \in batches :
           /\ b.type \in Types
           /\ b.value \in Nat
           /\ b.waits \in [Types -> Nat]
           /\ b.kind \in SubmissionKinds
           /\ b.frame \in Nat
           /\ b.slot \in Slots
           /\ b.seq \in Nat
BY DEF TypeOK, Batch

LEMMA NewBatchFields ==
  ASSUME TypeOK, NEW type \in Types, NEW n \in Nat, NEW waits \in [Types -> Nat],
         NEW kind \in SubmissionKinds, NEW b \in NewBatches(type, n, waits, kind)
  PROVE  /\ b.type = type
         /\ b.waits = waits
         /\ b.kind = kind
         /\ b.frame = frame
         /\ b.slot = current_frame
         /\ b.value \in Nat /\ timeline_values[type] < b.value
         /\ b.value <= timeline_values[type] + n
         /\ b.seq \in Nat /\ submissions < b.seq /\ b.seq <= submissions + n
         /\ b.value - timeline_values[type] = b.seq - submissions
<1>1. PICK i \in 1 .. n :
        b = [type |-> type, value |-> timeline_values[type] + i, waits |-> waits,
             kind |-> kind, frame |-> frame, slot |-> current_frame, seq |-> submissions + i]
  BY DEF NewBatches
<1>2. timeline_values[type] \in Nat /\ submissions \in Nat
  BY DEF TypeOK
<1>3. i \in Nat /\ i > 0 /\ i <= n
  OBVIOUS
<1>4. b.value = timeline_values[type] + i /\ b.seq = submissions + i
  BY <1>1
<1>5. b.type = type /\ b.waits = waits /\ b.kind = kind /\ b.frame = frame
      /\ b.slot = current_frame
  BY <1>1
<1> QED
  BY <1>2, <1>3, <1>4, <1>5

LEMMA NewBatchesDistinct ==
  ASSUME TypeOK, NEW type \in Types, NEW n \in Nat, NEW waits \in [Types -> Nat],
         NEW kind \in SubmissionKinds,
         NEW b \in NewBatches(type, n, waits, kind),
         NEW c \in NewBatches(type, n, waits, kind),
         b.seq = c.seq
  PROVE  b = c
<1>1. PICK i \in 1 .. n :
        b = [type |-> type, value |-> timeline_values[type] + i, waits |-> waits,
             kind |-> kind, frame |-> frame, slot |-> current_frame, seq |-> submissions + i]
  BY DEF NewBatches
<1>2. PICK j \in 1 .. n :
        c = [type |-> type, value |-> timeline_values[type] + j, waits |-> waits,
             kind |-> kind, frame |-> frame, slot |-> current_frame, seq |-> submissions + j]
  BY DEF NewBatches
<1>3. submissions + i = submissions + j
  BY <1>1, <1>2
<1>4. i = j
  BY <1>3 DEF TypeOK
<1> QED
  BY <1>1, <1>2, <1>4

(* What a batch waits for or the host has waited for is not on the device.   *)
LEMMA CoveredIsDone ==
  ASSUME TypeOK, Ordered, NEW values \in [Types -> Nat], Reached(values), NEW b \in batches
  PROVE  ~(b.value <= values[b.type])
<1>1. b.type \in Types /\ b.value \in Nat
  BY BatchFields
<1>2. semaphore[b.type] \in Nat /\ values[b.type] \in Nat
  BY <1>1 DEF TypeOK
<1>3. semaphore[b.type] < b.value /\ semaphore[b.type] >= values[b.type]
  BY <1>1 DEF Ordered, Reached
<1> QED
  BY <1>1, <1>2, <1>3

-----------------------------------------------------------------------------
(* The steps of the host that do not submit preserve the invariant.          *)

LEMMA BeginFrameKeeps ==
  ASSUME IInv, TypeOK', BeginFrame
  PROVE  IInv'
<1> USE DEF BeginFrame, IInv, TypeOK, gpuVars
<1>1. Phase = "idle" /\ Phase' = "begin_wait" /\ ~Begun'
  BY DEF Phase, Begun
<1>2. \A b \in batches : b.frame \in Nat
  BY BatchFields
<1>3. InFrameBatches' = InFrameBatches /\ InFrameBatches \subseteq batches
  BY DEF InFrameBatches
<1>4. CallSound' /\ Ordered'
  BY DEF CallSound, Ordered
<1>5. FramesTagged'
  BY <1>1, <1>2, <1>3 DEF FramesTagged
<1>6. EndValuesCover'
  BY <1>1, <1>3 DEF EndValuesCover, PreviousSlot
<1>7. FrameWaitsCover'
  BY <1>1 DEF FrameWaitsCover
<1>8. WaitsCover' /\ FramesSerialized' /\ FrameWorkFirst'
  BY <1>3 DEF WaitsCover, FramesSerialized, FrameWorkFirst
<1>9. FrameSlotReusable'
  BY <1>1 DEF FrameSlotReusable
<1>10. PublishedReachable' /\ ProgressReachable'
  BY DEF PublishedReachable, ProgressReachable, Reachable
<1> QED
  BY <1>4, <1>5, <1>6, <1>7, <1>8, <1>9, <1>10

(* The wait of begin_frame is what makes the slot reusable, and what it sets *)
(* makes the frame wait for every earlier one.                               *)
LEMMA BeginFrameReturnsKeeps ==
  ASSUME IInv, TypeOK', BeginFrameReturns
  PROVE  IInv'
<1> USE DEF BeginFrameReturns, IInv, TypeOK, gpuVars
<1>1. Phase = "begin_wait" /\ Phase' = "begin"
  BY DEF Phase
<1>2. InFrameBatches' = InFrameBatches /\ InFrameBatches \subseteq batches
  BY DEF InFrameBatches
<1>3. CallSound' /\ Ordered'
  BY DEF CallSound, Ordered
<1>4. FramesTagged'
  BY <1>1, <1>2 DEF FramesTagged
<1>5. EndValuesCover'
  BY <1>1, <1>2 DEF EndValuesCover
<1>6. FrameWaitsCover'
  BY <1>1, <1>2 DEF FrameWaitsCover, EndValuesCover
<1>7. WaitsCover' /\ FramesSerialized' /\ FrameWorkFirst'
  BY <1>2 DEF WaitsCover, FramesSerialized, FrameWorkFirst
<1>8. FrameSlotReusable'
  <2> SUFFICES ASSUME NEW b \in batches, InFrame(b), b.frame < frame, b.slot = current_frame
               PROVE  FALSE
    BY DEF FrameSlotReusable
  <2>1. b.value <= frame_end_values[current_frame][b.type]
    BY DEF EndValuesCover, InFrameBatches
  <2> QED
    BY <2>1, CoveredIsDone
<1>9. PublishedReachable' /\ ProgressReachable'
  BY DEF PublishedReachable, ProgressReachable, Reachable
<1> QED
  BY <1>3, <1>4, <1>5, <1>6, <1>7, <1>8, <1>9

LEMMA NoFrameWorkKeeps ==
  ASSUME IInv, TypeOK', NoFrameWork
  PROVE  IInv'
<1> USE DEF NoFrameWork, IInv, TypeOK, gpuVars
<1>1. Phase = "begin" /\ Phase' = "frame" /\ Begun /\ Begun'
  BY DEF Phase, Begun
<1>2. InFrameBatches' = InFrameBatches /\ InFrameBatches \subseteq batches
  BY DEF InFrameBatches
<1>3. CallSound' /\ Ordered'
  BY DEF CallSound, Ordered
<1>4. \A b \in batches : b.frame \in Nat
  BY BatchFields
<1>5. FramesTagged'
  BY <1>1, <1>2, <1>4 DEF FramesTagged
<1>6. EndValuesCover'
  BY <1>1, <1>2 DEF EndValuesCover
<1>7. FrameWaitsCover'
  BY <1>1, <1>2 DEF FrameWaitsCover, FramesTagged
<1>8. WaitsCover' /\ FramesSerialized' /\ FrameWorkFirst'
  BY <1>2 DEF WaitsCover, FramesSerialized, FrameWorkFirst
<1>9. FrameSlotReusable'
  BY <1>1 DEF FrameSlotReusable
<1>10. PublishedReachable' /\ ProgressReachable'
  BY DEF PublishedReachable, ProgressReachable, Reachable
<1> QED
  BY <1>3, <1>5, <1>6, <1>7, <1>8, <1>9, <1>10

(* The value that is waited for from here on covers the frame work.          *)
LEMMA WaitForComputeSubmissionsKeeps ==
  ASSUME IInv, TypeOK', WaitForComputeSubmissions
  PROVE  IInv'
<1> USE DEF WaitForComputeSubmissions, IInv, TypeOK, gpuVars
<1>1. Phase = "wait_compute" /\ Phase' = "frame" /\ Begun /\ Begun'
  BY DEF Phase, Begun
<1>2. InFrameBatches' = InFrameBatches /\ InFrameBatches \subseteq batches
  BY DEF InFrameBatches
<1>3. CallSound' /\ Ordered'
  BY DEF CallSound, Ordered
<1>4. FramesTagged'
  BY <1>1, <1>2 DEF FramesTagged
<1>5. EndValuesCover'
  BY <1>1, <1>2 DEF EndValuesCover
<1>6. FrameWaitsCover'
  <2>1. \A b \in InFrameBatches :
          b.type \in Types /\ (b.type = Compute => b.value <= timeline_values[Compute])
    BY <1>2, BatchFields DEF Ordered
  <2>2. \A b \in InFrameBatches : b.type = Compute => b.value <= frame_waits'[b.type]
    BY <2>1, ComputeAssumption
  <2>3. \A b \in InFrameBatches : b.type # Compute => frame_waits'[b.type] = frame_waits[b.type]
    BY <2>1
  <2>4. \A b \in InFrameBatches : b.frame < frame => b.value <= frame_waits'[b.type]
    BY <1>1, <2>2, <2>3 DEF FrameWaitsCover
  <2>5. \A b \in InFrameBatches : b.kind = "frame_work" => b.value <= frame_waits'[b.type]
    BY <2>2 DEF FramesTagged
  <2> QED
    BY <1>2, <2>4, <2>5 DEF FrameWaitsCover
<1>7. WaitsCover' /\ FramesSerialized' /\ FrameWorkFirst'
  BY <1>2 DEF WaitsCover, FramesSerialized, FrameWorkFirst
<1>8. FrameSlotReusable'
  BY <1>1 DEF FrameSlotReusable
<1>9. PublishedReachable' /\ ProgressReachable'
  BY DEF PublishedReachable, ProgressReachable, Reachable
<1> QED
  BY <1>3, <1>4, <1>5, <1>6, <1>7, <1>8, <1>9

(* The slot's new values cover everything, and the next slot's previous one  *)
(* is this one.                                                              *)
LEMMA EndFrameKeeps ==
  ASSUME IInv, TypeOK', EndFrame
  PROVE  IInv'
<1> USE DEF EndFrame, IInv, TypeOK, gpuVars
<1>1. Phase = "frame" /\ Phase' = "idle" /\ ~Begun'
  BY DEF Phase, Begun
<1>2. InFrameBatches' = InFrameBatches /\ InFrameBatches \subseteq batches
  BY DEF InFrameBatches
<1>3. CallSound' /\ Ordered'
  BY DEF CallSound, Ordered
<1>4. FramesTagged'
  BY <1>1, <1>2 DEF FramesTagged
<1>5. EndValuesCover'
  <2>1. \A b \in InFrameBatches :
          b.slot \in Slots /\ b.frame \in Nat /\ b.value <= timeline_values[b.type]
    BY <1>2, BatchFields DEF Ordered
  <2>2. frame_end_values'[current_frame] = timeline_values
    OBVIOUS
  <2>3. PreviousSlot(current_frame') = current_frame
    BY SlotsInACircle
  <2>4. ASSUME NEW b \in InFrameBatches
        PROVE  b.value <= frame_end_values'[b.slot][b.type]
    <3>1. CASE b.slot = current_frame
      BY <2>1, <2>2, <3>1
    <3>2. CASE b.slot # current_frame
      <4>1. b.frame <= frame /\ b.frame # frame
        BY <1>1, <3>2 DEF FramesTagged
      <4>2. b.frame \in Nat /\ frame \in Nat
        BY <2>1
      <4>3. b.frame < frame
        <5> HIDE DEF EndFrame, IInv, TypeOK, gpuVars
        <5> QED
          BY <4>1, <4>2
      <4>4. frame_end_values'[b.slot] = frame_end_values[b.slot]
        BY <2>1, <3>2
      <4> QED
        BY <4>3, <4>4 DEF EndValuesCover
    <3> QED
      BY <3>1, <3>2
  <2>5. \A b \in InFrameBatches :
          b.value <= frame_end_values'[PreviousSlot(current_frame')][b.type]
    BY <2>1, <2>2, <2>3
  <2>6. PreviousSlot(current_frame)' = PreviousSlot(current_frame')
    BY DEF PreviousSlot
  <2> QED
    BY <1>2, <2>4, <2>5, <2>6 DEF EndValuesCover
<1>6. FrameWaitsCover'
  BY <1>1 DEF FrameWaitsCover
<1>7. WaitsCover' /\ FramesSerialized' /\ FrameWorkFirst'
  BY <1>2 DEF WaitsCover, FramesSerialized, FrameWorkFirst
<1>8. FrameSlotReusable'
  BY <1>1 DEF FrameSlotReusable
<1>9. PublishedReachable' /\ ProgressReachable'
  BY DEF PublishedReachable, ProgressReachable, Reachable
<1> QED
  BY <1>3, <1>4, <1>5, <1>6, <1>7, <1>8, <1>9

LEMMA PublishKeeps ==
  ASSUME IInv, TypeOK', Publish
  PROVE  IInv'
<1> USE DEF Publish, IInv, TypeOK, gpuVars
<1>1. host' = AfterPublish(call.kind, call.back) /\ call' = call
  OBVIOUS
<1>2. Phase' = Phase /\ (Begun <=> Begun')
  BY <1>1 DEF Phase, Begun, AfterPublish, CallSound
<1>3. InFrameBatches' = InFrameBatches /\ InFrameBatches \subseteq batches
  BY DEF InFrameBatches
<1>4. CallSound'
  BY <1>1 DEF CallSound, AfterPublish
<1>5. Ordered'
  BY DEF Ordered
<1>6. FramesTagged'
  BY <1>2, <1>3 DEF FramesTagged
<1>7. EndValuesCover'
  BY <1>2, <1>3 DEF EndValuesCover
<1>8. FrameWaitsCover'
  BY <1>2, <1>3 DEF FrameWaitsCover
<1>9. WaitsCover' /\ FramesSerialized' /\ FrameWorkFirst'
  BY <1>3 DEF WaitsCover, FramesSerialized, FrameWorkFirst
<1>10. FrameSlotReusable'
  BY <1>2 DEF FrameSlotReusable
<1>11. PublishedReachable'
  <2>1. \A t \in Types : Reachable(t, submitted_values'[t])
    BY DEF PublishedReachable
  <2>2. host' # "publish"
    BY <1>1 DEF AfterPublish
  <2> QED
    BY <2>1, <2>2 DEF PublishedReachable, Reachable
<1>12. ProgressReachable'
  BY DEF ProgressReachable, Reachable
<1> QED
  BY <1>4, <1>5, <1>6, <1>7, <1>8, <1>9, <1>10, <1>11, <1>12

LEMMA OneTimeReturnsKeeps ==
  ASSUME IInv, TypeOK', OneTimeReturns
  PROVE  IInv'
<1> USE DEF OneTimeReturns, IInv, TypeOK, gpuVars
<1>1. Phase' = Phase /\ (Begun <=> Begun')
  BY DEF Phase, Begun, CallSound
<1>2. InFrameBatches' = InFrameBatches /\ InFrameBatches \subseteq batches
  BY DEF InFrameBatches
<1>3. CallSound' /\ Ordered'
  BY DEF CallSound, Ordered
<1>4. FramesTagged'
  BY <1>1, <1>2 DEF FramesTagged
<1>5. EndValuesCover' /\ FrameWaitsCover'
  BY <1>1, <1>2 DEF EndValuesCover, FrameWaitsCover
<1>6. WaitsCover' /\ FramesSerialized' /\ FrameWorkFirst'
  BY <1>2 DEF WaitsCover, FramesSerialized, FrameWorkFirst
<1>7. FrameSlotReusable'
  BY <1>1 DEF FrameSlotReusable
<1>8. PublishedReachable' /\ ProgressReachable'
  BY DEF PublishedReachable, ProgressReachable, Reachable
<1> QED
  BY <1>3, <1>4, <1>5, <1>6, <1>7, <1>8

LEMMA DestructKeeps ==
  ASSUME IInv, TypeOK', Destruct
  PROVE  IInv'
<1> USE DEF Destruct, IInv, TypeOK, gpuVars
<1>1. InFrameBatches' = {} /\ batches' = {} /\ started' = {}
  BY DEF InFrameBatches
<1>2. CallSound' /\ Ordered'
  BY <1>1 DEF CallSound, Ordered
<1>3. FramesTagged' /\ EndValuesCover' /\ FrameWaitsCover' /\ WaitsCover'
  BY <1>1 DEF FramesTagged, EndValuesCover, FrameWaitsCover, WaitsCover
<1>4. FramesSerialized' /\ FrameWorkFirst' /\ FrameSlotReusable'
  BY <1>1 DEF FramesSerialized, FrameWorkFirst, FrameSlotReusable
<1>5. PublishedReachable' /\ ProgressReachable'
  BY DEF PublishedReachable, ProgressReachable, Reachable
<1> QED
  BY <1>2, <1>3, <1>4, <1>5

-----------------------------------------------------------------------------
(* The steps of the device and of other threads preserve it.                 *)

(* A submission that starts waits for everything it must not overlap.        *)
LEMMA StartKeeps ==
  ASSUME IInv, TypeOK', NEW b \in batches, Start(b)
  PROVE  IInv'
<1> USE DEF Start, IInv, TypeOK, hostVars
<1>1. Phase' = Phase /\ (Begun <=> Begun')
  BY DEF Phase, Begun
<1>2. InFrameBatches' = InFrameBatches /\ InFrameBatches \subseteq batches
  BY DEF InFrameBatches
<1>3. CallSound' /\ Ordered'
  BY DEF CallSound, Ordered
<1>4. FramesTagged' /\ EndValuesCover' /\ FrameWaitsCover'
  BY <1>1, <1>2 DEF FramesTagged, EndValuesCover, FrameWaitsCover
<1>5. WaitsCover'
  BY <1>2 DEF WaitsCover
<1>6. \A c \in batches : ~(c.value <= b.waits[c.type])
  BY CoveredIsDone, BatchFields
<1>7. FramesSerialized'
  <2> SUFFICES ASSUME NEW d \in started \union {b}, NEW c \in batches, InFrame(d), InFrame(c)
               PROVE  d.frame <= c.frame
    BY DEF FramesSerialized
  <2>1. CASE d = b
    <3>1. ~(c.frame < b.frame)
      BY <1>6, <2>1 DEF WaitsCover, InFrameBatches
    <3>2. b.frame \in Nat /\ c.frame \in Nat
      BY BatchFields
    <3> QED
      BY <2>1, <3>1, <3>2
  <2>2. CASE d \in started
    BY <2>2 DEF FramesSerialized
  <2> QED
    BY <2>1, <2>2
<1>8. FrameWorkFirst'
  <2> SUFFICES ASSUME NEW d \in started \union {b}, NEW c \in batches,
                      d.kind = "frame", c.kind = "frame_work"
               PROVE  d.frame # c.frame
    BY DEF FrameWorkFirst
  <2>1. CASE d = b
    BY <1>6, <2>1 DEF WaitsCover, InFrameBatches, InFrame
  <2>2. CASE d \in started
    BY <2>2 DEF FrameWorkFirst
  <2> QED
    BY <2>1, <2>2
<1>9. FrameSlotReusable'
  BY <1>1 DEF FrameSlotReusable
<1>10. PublishedReachable' /\ ProgressReachable'
  BY DEF PublishedReachable, ProgressReachable, Reachable
<1> QED
  BY <1>3, <1>4, <1>5, <1>7, <1>8, <1>9, <1>10

(* Queues signal in order, so what is left is ahead of the semaphore, and a  *)
(* value that was reachable stays so.                                        *)
LEMMA SignalKeeps ==
  ASSUME IInv, TypeOK', NEW b \in batches, Signal(b)
  PROVE  IInv'
<1> USE DEF Signal, IInv, TypeOK, hostVars
<1>1. Phase' = Phase /\ (Begun <=> Begun')
  BY DEF Phase, Begun
<1>2. InFrameBatches' \subseteq InFrameBatches /\ batches' \subseteq batches
  BY DEF InFrameBatches
<1>3. CallSound'
  BY DEF CallSound
<1>4. b.type \in Types /\ b.value \in Nat /\ b.seq \in Nat
  BY BatchFields
<1>5. ASSUME NEW c \in batches'
      PROVE  semaphore'[c.type] < c.value
  <2>1. c \in batches /\ c # b
    OBVIOUS
  <2>2. c.type \in Types /\ c.value \in Nat /\ c.seq \in Nat
    BY <2>1, BatchFields
  <2>3. CASE c.type = b.type
    <3>1. c.seq # b.seq
      BY <2>1 DEF Ordered
    <3>2. ~(c.seq < b.seq)
      BY <2>1, <2>3 DEF SameQueueBefore
    <3>3. b.seq < c.seq
      <4> HIDE DEF Signal, IInv, TypeOK, hostVars
      <4> QED
        BY <1>4, <2>2, <3>1, <3>2
    <3>4. b.value < c.value
      BY <2>1, <2>3, <3>3 DEF Ordered
    <3> QED
      BY <1>4, <2>3, <3>4
  <2>4. CASE c.type # b.type
    BY <2>1, <2>2, <2>4 DEF Ordered
  <2> QED
    BY <2>3, <2>4
<1>6. Ordered'
  BY <1>2, <1>5 DEF Ordered
<1>7. FramesTagged' /\ EndValuesCover' /\ FrameWaitsCover' /\ WaitsCover'
  BY <1>1, <1>2 DEF FramesTagged, EndValuesCover, FrameWaitsCover, WaitsCover
<1>8. FramesSerialized' /\ FrameWorkFirst'
  BY <1>2 DEF FramesSerialized, FrameWorkFirst
<1>9. FrameSlotReusable'
  BY <1>1, <1>2 DEF FrameSlotReusable
<1>10. ASSUME NEW t \in Types, NEW v \in Nat, Reachable(t, v)
       PROVE  Reachable(t, v)'
  <2>1. semaphore[t] \in Nat /\ semaphore[b.type] < b.value
    BY DEF Ordered
  <2>2. CASE semaphore[t] >= v
    <3>1. CASE t = b.type
      BY <1>4, <2>1, <2>2, <3>1 DEF Reachable
    <3>2. CASE t # b.type
      BY <1>4, <2>2, <3>2 DEF Reachable
    <3> QED
      BY <3>1, <3>2
  <2>3. ASSUME NEW c \in batches, c.type = t, c.value >= v
        PROVE  Reachable(t, v)'
    <3>1. CASE c = b
      BY <1>4, <2>3, <3>1 DEF Reachable
    <3>2. CASE c # b
      BY <2>3, <3>2 DEF Reachable
    <3> QED
      BY <3>1, <3>2
  <2> QED
    BY <1>10, <2>2, <2>3 DEF Reachable
<1>11. PublishedReachable'
  <2>1. \A t \in Types : Reachable(t, submitted_values[t])'
    BY <1>10 DEF PublishedReachable
  <2>2. host = "publish" => Reachable(call.type, timeline_values[call.type])'
    BY <1>10 DEF PublishedReachable
  <2> QED
    BY <2>1, <2>2 DEF PublishedReachable
<1>12. ProgressReachable'
  BY <1>10 DEF ProgressReachable
<1> QED
  BY <1>3, <1>6, <1>7, <1>8, <1>9, <1>11, <1>12

LEMMA LoadProgressKeeps ==
  ASSUME IInv, TypeOK', NEW type \in Types, LoadProgress(type)
  PROVE  IInv'
<1> USE DEF LoadProgress, IInv, TypeOK, hostVars, gpuVars
<1>1. Phase' = Phase /\ (Begun <=> Begun')
  BY DEF Phase, Begun
<1>2. InFrameBatches' = InFrameBatches
  BY DEF InFrameBatches
<1>3. CallSound' /\ Ordered'
  BY DEF CallSound, Ordered
<1>4. FramesTagged' /\ EndValuesCover' /\ FrameWaitsCover' /\ WaitsCover'
  BY <1>1, <1>2 DEF FramesTagged, EndValuesCover, FrameWaitsCover, WaitsCover
<1>5. FramesSerialized' /\ FrameWorkFirst' /\ FrameSlotReusable'
  BY <1>1 DEF FramesSerialized, FrameWorkFirst, FrameSlotReusable
<1>6. PublishedReachable'
  BY DEF PublishedReachable, Reachable
<1>7. ProgressReachable'
  <2> SUFFICES ASSUME NEW t \in Types
               PROVE  Reachable(t, progress'[t])
    BY DEF ProgressReachable, Reachable
  <2>1. progress'[t] = IF t = type THEN submitted_values[t] ELSE progress[t]
    OBVIOUS
  <2> QED
    BY <2>1 DEF PublishedReachable, ProgressReachable
<1> QED
  BY <1>3, <1>4, <1>5, <1>6, <1>7

-----------------------------------------------------------------------------
(* A call that submits preserves it, whether or not the queue throws.        *)

LEMMA SubmissionThrowsKeeps ==
  ASSUME IInv, TypeOK', NEW type \in Types, NEW n \in Nat \ {0}, NEW waits \in [Types -> Nat],
         NEW kind \in SubmissionKinds, Submits(type, n, waits, kind),
         batches' = batches, host' = IF kind = "frame_work" THEN "idle" ELSE host
  PROVE  IInv'
<1> USE DEF IInv, TypeOK
<1>1. /\ UNCHANGED <<submitted_values, frame_end_values, frame_waits, current_frame,
                     frame, progress, semaphore, started>>
      /\ timeline_values' = [timeline_values EXCEPT ![type] = @ + n]
  BY DEF Submits, Enqueue
<1>2. /\ host \in {"idle", "begin", "frame"}
      /\ kind = "frame_work" => host = "begin"
  BY DEF Submits
<1>3. Phase = host /\ Phase' = host' /\ (Begun' => Begun)
  BY <1>2 DEF Phase, Begun
<1>4. \/ host' = host
      \/ host = "begin" /\ host' = "idle"
  BY <1>2
<1>5. InFrameBatches' = InFrameBatches /\ InFrameBatches \subseteq batches
  BY DEF InFrameBatches
<1>6. CallSound'
  BY <1>2, <1>4 DEF CallSound
<1>7. Ordered'
  <2>1. \A t \in Types : timeline_values'[t] >= timeline_values[t] /\ timeline_values'[t] \in Nat
    BY <1>1
  <2>2. ASSUME NEW b \in batches
        PROVE  b.seq <= submissions' /\ b.value <= timeline_values'[b.type]
    <3>1. b.type \in Types /\ b.value \in Nat /\ b.value <= timeline_values[b.type]
      BY BatchFields DEF Ordered
    <3>2. timeline_values[b.type] \in Nat
      BY <3>1
    <3>3. b.seq <= submissions'
      <4>1. b.seq \in Nat /\ b.seq <= submissions /\ submissions' \in Nat /\ submissions' >= submissions
        BY BatchFields DEF Ordered, Submits, Enqueue
      <4> QED
        BY <4>1
    <3> QED
      BY <2>1, <3>1, <3>2, <3>3
  <2> QED
    BY <1>1, <2>2 DEF Ordered
<1>8. FramesTagged'
  BY <1>1, <1>3, <1>4, <1>5 DEF FramesTagged
<1>9. EndValuesCover'
  BY <1>1, <1>3, <1>4, <1>5 DEF EndValuesCover, FramesTagged
<1>10. FrameWaitsCover'
  BY <1>1, <1>3, <1>4, <1>5 DEF FrameWaitsCover
<1>11. WaitsCover' /\ FramesSerialized' /\ FrameWorkFirst'
  BY <1>1, <1>5 DEF WaitsCover, FramesSerialized, FrameWorkFirst
<1>12. FrameSlotReusable'
  BY <1>1, <1>3 DEF FrameSlotReusable
<1>13. PublishedReachable' /\ ProgressReachable'
  <2>1. host' # "publish"
    BY <1>2, <1>4
  <2> QED
    BY <1>1, <2>1 DEF PublishedReachable, ProgressReachable, Reachable
<1> QED
  BY <1>6, <1>7, <1>8, <1>9, <1>10, <1>11, <1>12, <1>13

LEMMA SubmissionQueuedKeeps ==
  ASSUME IInv, TypeOK', NEW type \in Types, NEW n \in Nat \ {0}, NEW waits \in [Types -> Nat],
         NEW kind \in SubmissionKinds, Submits(type, n, waits, kind),
         batches' = batches \union NewBatches(type, n, waits, kind),
         submissions' = submissions + n, host' = "publish"
  PROVE  IInv'
<1> DEFINE New == NewBatches(type, n, waits, kind)
<1>1. /\ UNCHANGED <<submitted_values, frame_end_values, frame_waits, current_frame,
                     frame, progress, semaphore, started>>
      /\ timeline_values' = [timeline_values EXCEPT ![type] = @ + n]
      /\ call' = [type |-> type, kind |-> kind, back |-> host]
  BY DEF Submits, Enqueue
<1>2. \/ kind = "frame" /\ host = "frame" /\ waits = frame_waits
      \/ kind = "outside" /\ host = "idle"
      \/ kind = "frame_work" /\ host = "begin" /\ waits = frame_waits
      \/ kind = "one_time" /\ host \in {"idle", "begin", "frame"}
  BY DEF Submits
<1>3. kind = "frame_work" => type = Compute
  BY DEF Submits
<1>4. Phase = host /\ Phase' = IF kind = "frame_work" THEN "wait_compute" ELSE host
  BY <1>1, <1>2 DEF Phase
<1>5. Begun <=> Begun'
  BY <1>1, <1>2 DEF Begun
<1>6. n \in Nat /\ TypeOK
  BY DEF IInv
<1>7. \A b \in New :
        /\ b.type = type /\ b.waits = waits /\ b.kind = kind
        /\ b.frame = frame /\ b.slot = current_frame
        /\ b.value \in Nat /\ timeline_values[type] < b.value
        /\ b.value <= timeline_values[type] + n
        /\ b.seq \in Nat /\ submissions < b.seq /\ b.seq <= submissions + n
        /\ b.value - timeline_values[type] = b.seq - submissions
  BY <1>6, NewBatchFields
<1>8. \A b, c \in New : b.seq = c.seq => b = c
  BY <1>6, NewBatchesDistinct
<1>9. \A b \in batches : /\ b.type \in Types /\ b.value \in Nat /\ b.seq \in Nat
                         /\ b.frame \in Nat
  BY <1>6, BatchFields
<1>10. batches' = batches \union New
  OBVIOUS
<1>11. InFrameBatches' = InFrameBatches \union {b \in New : InFrame(b)}
  BY DEF InFrameBatches
<1>12. InFrameBatches \subseteq batches
  BY DEF InFrameBatches
<1> HIDE DEF New
<1> USE DEF IInv
<1>13. CallSound'
  BY <1>1, <1>2 DEF CallSound
<1>14. Ordered'
  <2>1. \A t \in Types : timeline_values'[t] = IF t = type THEN timeline_values[t] + n ELSE timeline_values[t]
    BY <1>1 DEF TypeOK
  <2>2. \A t \in Types : timeline_values[t] \in Nat /\ semaphore[t] \in Nat
    BY DEF TypeOK
  <2>3. \A t \in Types : semaphore[t] <= timeline_values[t]
    BY DEF Ordered
  <2>4. \A t \in Types : semaphore[t] <= timeline_values'[t]
    BY <2>1, <2>2, <2>3
  <2>5. submissions \in Nat
    BY DEF TypeOK
  <2>6. ASSUME NEW b \in batches
        PROVE  /\ b.seq <= submissions + n
               /\ semaphore[b.type] < b.value /\ b.value <= timeline_values'[b.type]
    <3>1. b.seq <= submissions /\ semaphore[b.type] < b.value /\ b.value <= timeline_values[b.type]
      BY DEF Ordered
    <3>2. b.type \in Types /\ b.value \in Nat /\ b.seq \in Nat
      BY <1>9
    <3> HIDE DEF IInv
    <3> QED
      BY <2>1, <2>2, <2>5, <3>1, <3>2
  <2>7. ASSUME NEW b \in New
        PROVE  /\ b.seq <= submissions + n
               /\ semaphore[b.type] < b.value /\ b.value <= timeline_values'[b.type]
    <3> HIDE DEF IInv
    <3> QED
      BY <1>7, <2>1, <2>2, <2>3
  <2>8. ASSUME NEW b \in batches', NEW c \in batches', b.seq = c.seq
        PROVE  b = c
    <3>1. \A d \in batches, e \in New : d.seq < e.seq
      <4>1. \A d \in batches : d.seq <= submissions
        BY DEF Ordered
      <4> HIDE DEF IInv
      <4> QED
        BY <1>7, <1>9, <2>5, <4>1
    <3>2. \A d, e \in batches : d.seq = e.seq => d = e
      BY DEF Ordered
    <3> HIDE DEF IInv
    <3> QED
      BY <1>7, <1>8, <1>9, <1>10, <2>8, <3>1, <3>2
  <2>9. ASSUME NEW b \in batches', NEW c \in batches', b.type = c.type, b.seq < c.seq
        PROVE  b.value < c.value
    <3>1. CASE b \in batches /\ c \in batches
      BY <2>9, <3>1 DEF Ordered
    <3>2. CASE b \in batches /\ c \in New
      <4>1. b.value <= timeline_values[type]
        BY <1>7, <2>9, <3>2 DEF Ordered
      <4> HIDE DEF IInv
      <4> QED
        BY <1>7, <1>9, <2>2, <3>2, <4>1
    <3>3. CASE b \in New /\ c \in batches
      <4>1. c.seq <= submissions
        BY <3>3 DEF Ordered
      <4> HIDE DEF IInv
      <4> QED
        BY <1>7, <1>9, <2>5, <2>9, <3>3, <4>1
    <3>4. CASE b \in New /\ c \in New
      <4> HIDE DEF IInv
      <4> QED
        BY <1>7, <2>2, <2>5, <2>9, <3>4
    <3> QED
      BY <1>10, <3>1, <3>2, <3>3, <3>4
  <2> QED
    BY <1>1, <1>10, <2>4, <2>6, <2>7, <2>8, <2>9 DEF Ordered
<1>15. FramesTagged'
  <2>1. frame \in Nat
    BY DEF TypeOK
  <2>2. ASSUME NEW b \in InFrameBatches
        PROVE  /\ b.frame <= frame
               /\ Phase' \in {"begin_wait", "begin"} => b.frame < frame
               /\ Phase' \in {"wait_compute", "frame"} /\ b.frame = frame => b.slot = current_frame
               /\ b.kind = "frame_work" => b.type = Compute
    <3>1. kind = "frame_work" => b.frame < frame
      BY <1>2, <1>4 DEF FramesTagged
    <3>2. b.frame \in Nat
      BY <1>9, <1>12
    <3> QED
      BY <1>4, <2>1, <3>1, <3>2 DEF FramesTagged
  <2>3. ASSUME NEW b \in New, InFrame(b)
        PROVE  /\ b.frame <= frame
               /\ Phase' \notin {"begin_wait", "begin"}
               /\ b.slot = current_frame
               /\ b.kind = "frame_work" => b.type = Compute
    BY <1>2, <1>3, <1>4, <1>7, <2>1, <2>3 DEF InFrame
  <2> QED
    BY <1>1, <1>11, <2>2, <2>3 DEF FramesTagged
<1>16. EndValuesCover'
  <2>1. ASSUME NEW b \in InFrameBatches
        PROVE  /\ b.frame < frame \/ Phase' = "idle" => b.value <= frame_end_values[b.slot][b.type]
               /\ Phase' \in {"idle", "begin_wait", "begin"} =>
                    b.value <= frame_end_values[PreviousSlot(current_frame)][b.type]
    BY <1>4 DEF EndValuesCover
  <2>2. ASSUME NEW b \in New, InFrame(b)
        PROVE  ~(b.frame < frame) /\ Phase' \notin {"idle", "begin_wait", "begin"}
    BY <1>2, <1>4, <1>7, <2>2 DEF InFrame, TypeOK
  <2> QED
    BY <1>1, <1>11, <2>1, <2>2 DEF EndValuesCover, PreviousSlot
<1>17. FrameWaitsCover'
  <2>1. ASSUME NEW b \in InFrameBatches
        PROVE  /\ Begun' /\ b.frame < frame => b.value <= frame_waits[b.type]
               /\ Phase' = "frame" /\ b.kind = "frame_work" => b.value <= frame_waits[b.type]
    BY <1>4, <1>5 DEF FrameWaitsCover
  <2>2. ASSUME NEW b \in New, InFrame(b)
        PROVE  ~(b.frame < frame) /\ ~(Phase' = "frame" /\ b.kind = "frame_work")
    BY <1>4, <1>7 DEF TypeOK
  <2> QED
    BY <1>1, <1>11, <2>1, <2>2 DEF FrameWaitsCover
<1>18. WaitsCover'
  <2> SUFFICES ASSUME NEW b \in InFrameBatches', NEW c \in InFrameBatches',
                      \/ c.frame < b.frame
                      \/ c.frame = b.frame /\ c.kind = "frame_work" /\ b.kind = "frame"
               PROVE  c.value <= b.waits[c.type]
    BY DEF WaitsCover
  <2>1. CASE b \in InFrameBatches /\ c \in InFrameBatches
    BY <2>1 DEF WaitsCover
  <2>2. CASE b \in New /\ c \in InFrameBatches
    <3>1. InFrame(b) /\ waits = frame_waits /\ Begun
      BY <1>2, <1>7, <1>11, <2>2 DEF InFrame, InFrameBatches, Begun
    <3>2. c.frame < frame => c.value <= frame_waits[c.type]
      BY <2>2, <3>1 DEF FrameWaitsCover
    <3>3. b.kind = "frame" => Phase = "frame"
      BY <1>2, <1>4, <1>7, <2>2
    <3>4. b.kind = "frame" /\ c.kind = "frame_work" => c.value <= frame_waits[c.type]
      BY <2>2, <3>3 DEF FrameWaitsCover
    <3> QED
      BY <1>7, <2>2, <3>1, <3>2, <3>4
  <2>3. CASE c \in New /\ b \in InFrameBatches
    <3>1. b.frame <= frame /\ (kind = "frame_work" => b.frame < frame)
      BY <1>2, <1>4, <2>3 DEF FramesTagged
    <3>2. b.frame \in Nat /\ frame \in Nat /\ c.frame = frame /\ c.kind = kind
      BY <1>7, <1>9, <1>12, <2>3 DEF TypeOK
    <3> HIDE DEF IInv
    <3> QED
      BY <3>1, <3>2
  <2>4. CASE b \in New /\ c \in New
    BY <1>7, <2>4 DEF TypeOK
  <2> QED
    BY <1>11, <2>1, <2>2, <2>3, <2>4
<1>19. FramesSerialized'
  <2>1. \A b \in started : InFrame(b) => b.frame <= frame
    BY DEF FramesTagged, InFrameBatches, TypeOK
  <2> QED
    BY <1>1, <1>7, <1>10, <2>1 DEF FramesSerialized
<1>20. FrameWorkFirst'
  <2>1. \A b \in started : b.kind = "frame" /\ kind = "frame_work" => b.frame < frame
    BY <1>2, <1>4 DEF FramesTagged, InFrameBatches, InFrame, TypeOK
  <2>2. \A b \in started : b.frame \in Nat
    BY <1>9 DEF TypeOK
  <2>3. frame \in Nat
    BY DEF TypeOK
  <2>4. \A b \in started, c \in New : b.kind = "frame" /\ c.kind = "frame_work" => b.frame # c.frame
    <3> HIDE DEF IInv
    <3> QED
      BY <1>7, <2>1, <2>2, <2>3
  <2> QED
    BY <1>1, <1>10, <2>4 DEF FrameWorkFirst
<1>21. FrameSlotReusable'
  <2>1. \A b \in New : ~(b.frame < frame)
    BY <1>7 DEF TypeOK
  <2> QED
    BY <1>1, <1>5, <1>10, <2>1 DEF FrameSlotReusable
<1>22. \A t \in Types, v \in Nat : Reachable(t, v) => Reachable(t, v)'
  BY <1>1, <1>10 DEF Reachable
<1>23. PublishedReachable'
  <2>1. ASSUME NEW t \in Types
        PROVE  Reachable(t, submitted_values[t])'
    <3>1. Reachable(t, submitted_values[t])
      BY DEF PublishedReachable
    <3> QED
      BY <1>1, <1>10, <3>1 DEF Reachable
  <2>2. Reachable(type, timeline_values[type])'
    <3> DEFINE last == [type |-> type, value |-> timeline_values[type] + n, waits |-> waits,
                        kind |-> kind, frame |-> frame, slot |-> current_frame,
                        seq |-> submissions + n]
    <3>1. last \in New
      <4>1. n \in 1 .. n
        OBVIOUS
      <4> QED
        BY <4>1 DEF New, NewBatches
    <3>2. last.type = type /\ last.value = timeline_values[type] + n
      OBVIOUS
    <3>3. timeline_values'[type] = timeline_values[type] + n /\ timeline_values'[type] \in Nat
      BY <1>1 DEF TypeOK
    <3> HIDE DEF last
    <3> QED
      BY <1>10, <3>1, <3>2, <3>3 DEF Reachable
  <2>3. call'.type = type
    BY <1>1
  <2> QED
    BY <2>1, <2>2, <2>3 DEF PublishedReachable
<1>24. ProgressReachable'
  BY <1>1, <1>22 DEF ProgressReachable, TypeOK
<1> QED
  BY <1>13, <1>14, <1>15, <1>16, <1>17, <1>18, <1>19, <1>20, <1>21, <1>23, <1>24

-----------------------------------------------------------------------------
(* The invariant and what it implies.                                       *)

LEMMA InitInvariant == Init => IInv
<1> SUFFICES ASSUME Init
             PROVE  IInv
  OBVIOUS
<1> USE DEF Init
<1>1. TypeOK
  BY InitTyped
<1>2. CallSound /\ Ordered
  BY DEF CallSound, Ordered, Zero
<1>3. FramesTagged /\ EndValuesCover /\ FrameWaitsCover /\ WaitsCover
  BY DEF FramesTagged, EndValuesCover, FrameWaitsCover, WaitsCover, InFrameBatches
<1>4. FramesSerialized /\ FrameWorkFirst /\ FrameSlotReusable
  BY DEF FramesSerialized, FrameWorkFirst, FrameSlotReusable
<1>5. PublishedReachable /\ ProgressReachable
  BY DEF PublishedReachable, ProgressReachable, Reachable, Zero
<1> QED
  BY <1>1, <1>2, <1>3, <1>4, <1>5 DEF IInv

LEMMA SubmitsKeeps ==
  ASSUME IInv, TypeOK', NEW type \in Types, NEW n \in Nat \ {0}, NEW waits \in [Types -> Nat],
         NEW kind \in SubmissionKinds, Submits(type, n, waits, kind)
  PROVE  IInv'
<1>1. \/ /\ batches' = batches \union NewBatches(type, n, waits, kind)
         /\ submissions' = submissions + n
         /\ host' = "publish"
      \/ /\ batches' = batches
         /\ host' = IF kind = "frame_work" THEN "idle" ELSE host
  BY DEF Submits, Enqueue
<1> QED
  BY <1>1, SubmissionQueuedKeeps, SubmissionThrowsKeeps

LEMMA StutterKeeps == IInv /\ UNCHANGED vars => IInv'
<1> SUFFICES ASSUME IInv, UNCHANGED vars
             PROVE  IInv'
  OBVIOUS
<1> USE DEF vars, hostVars, gpuVars, IInv
<1>1. Phase' = Phase /\ (Begun <=> Begun') /\ InFrameBatches' = InFrameBatches
  BY DEF Phase, Begun, InFrameBatches
<1>2. TypeOK' /\ CallSound' /\ Ordered'
  BY DEF TypeOK, CallSound, Ordered
<1>3. FramesTagged' /\ EndValuesCover' /\ FrameWaitsCover' /\ WaitsCover'
  BY <1>1 DEF FramesTagged, EndValuesCover, FrameWaitsCover, WaitsCover
<1>4. FramesSerialized' /\ FrameWorkFirst' /\ FrameSlotReusable'
  BY <1>1 DEF FramesSerialized, FrameWorkFirst, FrameSlotReusable
<1>5. PublishedReachable' /\ ProgressReachable'
  BY DEF PublishedReachable, ProgressReachable, Reachable
<1> QED
  BY <1>2, <1>3, <1>4, <1>5

LEMMA NextInvariant == IInv /\ [Next]_vars => IInv'
<1> SUFFICES ASSUME IInv, [Next]_vars
             PROVE  IInv'
  OBVIOUS
<1>1. TypeOK /\ TypeOK'
  BY NextTyped DEF IInv
<1> QED
  BY <1>1, StepCases, BeginFrameKeeps, BeginFrameReturnsKeeps, NoFrameWorkKeeps,
     WaitForComputeSubmissionsKeeps, EndFrameKeeps, SubmitsKeeps, PublishKeeps,
     OneTimeReturnsKeeps, DestructKeeps, StartKeeps, SignalKeeps, LoadProgressKeeps,
     StutterKeeps

(* The invariant holds of every behaviour, whatever the bounds.              *)
THEOREM Invariant == Spec => []IInv
<1>1. Init => IInv
  BY InitInvariant
<1>2. IInv /\ [Next]_vars => IInv'
  BY NextInvariant
<1> QED
  BY <1>1, <1>2, PTL DEF Spec

(* While a submission of a frame runs on the device, everything earlier      *)
(* frames submitted (Command::submit, begin_frame) has signaled.             *)
THEOREM FramesDoNotOverlap == Spec => []FramesSerialized
<1>1. IInv => FramesSerialized
  BY DEF IInv
<1> QED
  BY <1>1, Invariant, PTL

(* A frame's own submissions run after the frame work of Engine::begin_frame *)
(* because of Command::wait_for_compute_submissions.                         *)
THEOREM FrameWorkRunsFirst == Spec => []FrameWorkFirst
<1>1. IInv => FrameWorkFirst
  BY DEF IInv
<1> QED
  BY <1>1, Invariant, PTL

(* When Command::begin_frame has returned, no earlier use of the slot is on  *)
(* the device.                                                               *)
THEOREM FrameSlotsAreReusable == Spec => []FrameSlotReusable
<1>1. IInv => FrameSlotReusable
  BY DEF IInv
<1> QED
  BY <1>1, Invariant, PTL

(* The timelines that Command::submit gives values to only move forward.     *)
THEOREM TimelinesMoveForward == Spec => []SignalsAhead
<1>1. IInv => SignalsAhead
  <2> SUFFICES ASSUME IInv
               PROVE  SignalsAhead
    OBVIOUS
  <2>1. TypeOK /\ Ordered
    BY DEF IInv
  <2>2. ASSUME NEW b \in batches
        PROVE  b.value > semaphore[b.type]
    <3>1. b.type \in Types /\ b.value \in Nat /\ semaphore[b.type] < b.value
      BY <2>1, BatchFields DEF Ordered
    <3>2. semaphore[b.type] \in Nat
      BY <2>1, <3>1 DEF TypeOK
    <3> QED
      BY <3>1, <3>2
  <2>3. ASSUME NEW b \in batches, NEW c \in batches, c.type = b.type, c.value = b.value
        PROVE  c = b
    <3>1. b.seq \in Nat /\ c.seq \in Nat /\ b.value \in Nat /\ c.value \in Nat
      BY <2>1, BatchFields
    <3>2. ~(b.seq < c.seq) /\ ~(c.seq < b.seq)
      BY <2>1, <2>3, <3>1 DEF Ordered
    <3>3. b.seq = c.seq
      BY <3>1, <3>2
    <3> QED
      BY <2>1, <3>3 DEF Ordered
  <2> QED
    BY <2>2, <2>3 DEF SignalsAhead
<1> QED
  BY <1>1, Invariant, PTL

(* Whatever Command::get_timeline_progress reports, and at whatever moment,  *)
(* the semaphore has or work in a queue will signal.                         *)
THEOREM ReportedProgressIsReachable == Spec => []ProgressReachable
<1>1. IInv => ProgressReachable
  BY DEF IInv
<1> QED
  BY <1>1, Invariant, PTL

-----------------------------------------------------------------------------
(* Engine.                                                                  *)

(* Engine's MemoryManager is the one its proofs are about.                   *)
LEMMA ManagerStarts == MM!Init <=> MMP!Init
BY Zenon
  DEF MM!Init, MMP!Init, MM!InitialCapacity, MMP!InitialCapacity, MM!EmptySlot,
      MMP!EmptySlot, MM!EmptyTables, MMP!EmptyTables, MM!EmptyEntry, MMP!EmptyEntry,
      MM!FrameSlots, MMP!FrameSlots, MM!Indices, MMP!Indices, MM!NoHandle, MMP!NoHandle,
      MM!None, MMP!None, MM!invalid_id, MMP!invalid_id, MM!NewSet, MMP!NewSet,
      MM!Parts, MMP!Parts

LEMMA ManagerSteps == [MM!Next]_(MM!vars) <=> [MMP!Next]_(MMP!vars)
BY Zenon
  DEF MM!Next, MMP!Next, MM!Call, MMP!Call, MM!BeginFrame, MMP!BeginFrame,
      MM!WriteDescriptors, MMP!WriteDescriptors, MM!EndFrame, MMP!EndFrame, MM!Destruct,
      MMP!Destruct, MM!Destroyed, MMP!Destroyed, MM!AddBindless, MMP!AddBindless,
      MM!Register, MMP!Register, MM!AddResource, MMP!AddResource, MM!Destroy,
      MMP!Destroy, MM!Unregister, MMP!Unregister, MM!DestroyResource,
      MMP!DestroyResource, MM!Release, MMP!Release, MM!Registers, MMP!Registers,
      MM!Create, MMP!Create, MM!Accepts, MMP!Accepts, MM!TakeIndex, MMP!TakeIndex,
      MM!Registered, MMP!Registered, MM!MarkDirty, MMP!MarkDirty, MM!Resolves,
      MMP!Resolves, MM!Valid, MMP!Valid, MM!Defer, MMP!Defer, MM!ForgetName,
      MMP!ForgetName, MM!Vacated, MMP!Vacated, MM!Flush, MMP!Flush, MM!DueCount,
      MMP!DueCount, MM!Due, MMP!Due, MM!Freeing, MMP!Freeing, MM!Nth, MMP!Nth,
      MM!FreedIndices, MMP!FreedIndices, MM!Occurrences, MMP!Occurrences, MM!Retired,
      MMP!Retired, MM!Reusable, MMP!Reusable, MM!EntryOf, MMP!EntryOf, MM!NewTables,
      MMP!NewTables, MM!NewWrites, MMP!NewWrites, MM!Written, MMP!Written,
      MM!NeedsNewSet, MMP!NeedsNewSet, MM!CreateFrameSet, MMP!CreateFrameSet,
      MM!KeepFrameSet, MMP!KeepFrameSet, MM!NextSlot, MMP!NextSlot, MM!FrameSlots,
      MMP!FrameSlots, MM!Indices, MMP!Indices, MM!None, MMP!None, MM!invalid_id,
      MMP!invalid_id, MM!FlushThrows, MMP!FlushThrows, MM!CreateFrameSetThrows,
      MMP!CreateFrameSetThrows, MM!DestructThrows, MMP!DestructThrows, MM!Destroys,
      MMP!Destroys, MM!Refused, MMP!Refused, MM!Parts, MMP!Parts, MM!Pool, MMP!Pool,
      MM!NoSet, MMP!NoSet, MM!PartsOf, MMP!PartsOf, MM!NewSet, MMP!NewSet,
      MM!FrameSetParts, MMP!FrameSetParts, MM!FrameTables, MMP!FrameTables,
      MM!PendingParts, MMP!PendingParts, MM!NoHandle, MMP!NoHandle, MM!EmptyEntry, MMP!EmptyEntry,
      MM!storageVars, MMP!storageVars, MM!slotVars, MMP!slotVars, MM!frameVars,
      MMP!frameVars, MM!vars, MMP!vars, MM!Cardinality, MMP!Cardinality

LEMMA ManagerWrites == MM!WriteDescriptors <=> MMP!WriteDescriptors
BY Zenon
  DEF MM!WriteDescriptors, MMP!WriteDescriptors, MM!EntryOf, MMP!EntryOf, MM!NewTables,
      MMP!NewTables, MM!NewWrites, MMP!NewWrites, MM!Written, MMP!Written,
      MM!NeedsNewSet, MMP!NeedsNewSet, MM!CreateFrameSet, MMP!CreateFrameSet,
      MM!KeepFrameSet, MMP!KeepFrameSet, MM!Defer, MMP!Defer, MM!Valid, MMP!Valid,
      MM!EmptyEntry, MMP!EmptyEntry, MM!Indices, MMP!Indices, MM!None, MMP!None,
      MM!invalid_id, MMP!invalid_id, MM!storageVars, MMP!storageVars, MM!slotVars,
      MMP!slotVars, MM!NewSet, MMP!NewSet, MM!PartsOf, MMP!PartsOf, MM!Parts, MMP!Parts

LEMMA ManagerThrows == MM!FlushThrows <=> MMP!FlushThrows
BY Zenon
  DEF MM!FlushThrows, MMP!FlushThrows, MM!Destroys, MMP!Destroys, MM!Refused, MMP!Refused,
      MM!DueCount, MMP!DueCount, MM!Due, MMP!Due, MM!Freeing, MMP!Freeing, MM!Nth, MMP!Nth,
      MM!FreedIndices, MMP!FreedIndices, MM!Occurrences, MMP!Occurrences, MM!Retired,
      MMP!Retired, MM!Reusable, MMP!Reusable, MM!PartsOf, MMP!PartsOf, MM!Parts,
      MMP!Parts, MM!Pool, MMP!Pool, MM!None, MMP!None, MM!Indices, MMP!Indices,
      MM!invalid_id, MMP!invalid_id, MM!Cardinality, MMP!Cardinality, MM!frameVars,
      MMP!frameVars

LEMMA ManagerNames ==
  /\ \A k : MM!Indices(k) = MMP!Indices(k) /\ MM!Registered(k) = MMP!Registered(k)
  /\ \A s : MM!PartsOf(s) = MMP!PartsOf(s)
  /\ MM!invalid_id = MMP!invalid_id /\ MM!None = MMP!None
  /\ MMP!FrameSlots = Slots
BY Zenon
  DEF MM!Indices, MMP!Indices, MM!Registered, MMP!Registered, MM!invalid_id,
      MMP!invalid_id, MM!None, MMP!None, MMP!FrameSlots, Slots, MM!PartsOf, MMP!PartsOf,
      MM!Parts, MMP!Parts

-----------------------------------------------------------------------------
(* The inductive invariant.                                                 *)

(* Frames that end_frame has ended.                                          *)
Completed == IF Phase \in {"idle", "destroyed"} THEN frame ELSE frame - 1

(* Command and MemoryManager are equally far in the same frame.              *)
InStep ==
  /\ Completed \in Nat
  /\ phase = CASE Phase \in {"idle", "begin_wait"} -> "outside"
               [] Phase \in {"begin", "wait_compute"} -> "begun"
               [] OTHER -> Phase
  /\ global_frame_counter = IF Phase = "begin_wait" THEN frame - 1 ELSE frame
  /\ current_frame = Completed % frames_in_flight

(* A frame that is on the device is one of the last frames_in_flight.        *)
Recent ==
  \A b \in InFrameBatches :
    /\ b.frame \in Nat \ {0}
    /\ b.slot = (b.frame - 1) % frames_in_flight
    /\ global_frame_counter < b.frame + frames_in_flight

WorkComesFirst ==
  Phase = "wait_compute" => \A b \in InFrameBatches : b.kind = "frame" => b.frame < frame

(* Nothing that a frame may use was put off before the frame.                *)
UsesKept ==
  \A b \in InFrameBatches :
    /\ \A k \in Kinds : \A r \in uses[b.seq].resources[k] : MMP!KeptSince(k, r, b.frame)
    /\ \A s \in MMP!PartsOf(uses[b.seq].set) : MMP!SetKeptSince(s, b.frame)
    /\ b.kind = "frame" => MMP!TableKeptSince(b.slot, b.frame)
TablesNow == phase = "frame" => MMP!TableKeptSince(current_frame, global_frame_counter)

Tracked == DOMAIN uses = Seqs(batches) /\ DOMAIN tables = Slots

Alive == phase = "destroyed" => host = "destroyed"

(* The manager's invariant holds whatever throws, the rest as long as no     *)
(* call of create_frame_set has, or no submission either.                    *)
LoopInv ==
  /\ MMP!FramesInv
  /\ Alive
  /\ set_failures = 0 =>
       /\ IInv
       /\ WorkComesFirst
       /\ Tracked
       /\ failures = 0 => InStep /\ Recent /\ UsesKept /\ TablesNow

-----------------------------------------------------------------------------
(* A step of the engine is one of MemoryManager, unless the submission of    *)
(* frame work throws, and one of Command, unless the manager throws.         *)

UsualStep == [EngineNext]_engineVars /\ ~FlushThrows /\ ~CreateFrameSetThrows

EngineSubmits ==
  /\ \E type \in Types, n \in Nat \ {0}, waits \in [Types -> Nat], kind \in SubmissionKinds :
       Submits(type, n, waits, kind)
  /\ Track
  /\ UNCHANGED memoryVars

LEMMA EngineStepCases ==
  ASSUME TypeOK, UsualStep
  PROVE  \/ EngineBeginFrame
         \/ EngineBeginFrameReturns
         \/ BeginFrameThrows
         \/ WriteDescriptors
         \/ EngineEndFrame
         \/ EngineSubmits
         \/ HostReturns
         \/ CallMemoryManager
         \/ EngineDestruct
         \/ EngineDeviceStep
         \/ UNCHANGED engineVars
<1>1. frame_waits \in [Types -> Nat] /\ Zero \in [Types -> Nat]
  BY DEF TypeOK, Zero
<1>2. 1 \in Nat \ {0} /\ \A n \in 1 .. MaxInfos : n \in Nat \ {0}
  BY BoundsAssumption
<1>3. CASE EngineSubmitFrameWork
  <2>1. Submits(Compute, 1, frame_waits, "frame_work")
    BY <1>3 DEF EngineSubmitFrameWork, SubmitFrameWork, Submits
  <2> QED
    BY <1>1, <1>2, <1>3, <2>1, ComputeAssumption
    DEF EngineSubmitFrameWork, EngineSubmits, SubmissionKinds
<1>4. CASE EngineSubmit
  <2>1. ASSUME NEW type \in Types, NEW n \in 1 .. MaxInfos, Submit(type, n)
        PROVE  \E m \in Nat \ {0}, waits \in [Types -> Nat], kind \in SubmissionKinds :
                 Submits(type, m, waits, kind)
    BY <1>1, <1>2, <2>1 DEF Submit, Submits, SubmissionKinds
  <2>2. ASSUME NEW type \in Types, RunOneTime(type)
        PROVE  \E m \in Nat \ {0}, waits \in [Types -> Nat], kind \in SubmissionKinds :
                 Submits(type, m, waits, kind)
    BY <1>1, <1>2, <2>2 DEF RunOneTime, Submits, SubmissionKinds
  <2> QED
    BY <1>4, <2>1, <2>2 DEF EngineSubmit, EngineSubmits
<1>5. CASE EngineDestroyed
  BY <1>5 DEF EngineDestroyed, Destroyed, MM!Destroyed, MM!vars, MM!storageVars, MM!slotVars,
     MM!frameVars, vars, hostVars, gpuVars, engineVars, commandVars, memoryVars
<1> QED
  BY <1>3, <1>4, <1>5 DEF UsualStep, EngineNext

(* What CallMemoryManager leaves alone.                                      *)
LEMMA CallsKeep ==
  MM!Call => UNCHANGED <<current_frame, global_frame_counter, phase, tables, frame_sets>>
BY DEF MM!Call, MM!AddBindless, MM!Register, MM!AddResource, MM!Destroy, MM!Unregister,
   MM!Release, MM!DestroyResource, MM!frameVars

LEMMA CommandSteps ==
  ASSUME UsualStep
  PROVE  [Next]_vars
<1> USE DEF Next, HostStep, UsualStep
<1>1. CASE CallMemoryManager
  BY <1>1, CallsKeep DEF CallMemoryManager, commandVars, vars, hostVars, gpuVars
<1>2. CASE UNCHANGED engineVars
  BY <1>2 DEF engineVars, commandVars, vars, hostVars, gpuVars
<1>3. CASE EngineSubmitFrameWork \/ BeginFrameThrows
  BY <1>3 DEF EngineSubmitFrameWork, BeginFrameThrows
<1>4. CASE EngineSubmit
  BY <1>4 DEF EngineSubmit
<1> QED
  BY <1>1, <1>2, <1>3, <1>4
  DEF EngineNext, EngineBeginFrame, EngineBeginFrameReturns, WriteDescriptors, EngineEndFrame,
      HostReturns, EngineDestruct, EngineDestroyed, EngineDeviceStep

LEMMA ManagerStep ==
  ASSUME [EngineNext]_engineVars, ~BeginFrameThrows
  PROVE  [MMP!Next]_(MMP!vars)
<1> SUFFICES [MM!Next]_(MM!vars)
  BY ManagerSteps
<1> DEFINE Quiet == UNCHANGED <<memoryVars, current_frame>>
<1>1. Quiet => UNCHANGED MM!vars
  BY DEF memoryVars, MM!vars, MM!storageVars, MM!slotVars, MM!frameVars
<1> HIDE DEF Quiet
<1>2. CASE EngineBeginFrame \/ EngineSubmitFrameWork \/ EngineSubmit \/ HostReturns
           \/ EngineDeviceStep \/ UNCHANGED engineVars
  <2>1. Quiet
    BY <1>2 DEF Quiet, EngineBeginFrame, BeginFrame, EngineSubmitFrameWork, SubmitFrameWork,
       EngineSubmit, Submit, RunOneTime, Enqueue, HostReturns, Publish, OneTimeReturns,
       EngineDeviceStep, engineVars
  <2> QED
    BY <1>1, <2>1
<1> QED
  BY <1>2
  DEF MM!Next, EngineNext, EngineBeginFrameReturns, FlushThrows, CreateFrameSetThrows,
      WriteDescriptors, EngineEndFrame, CallMemoryManager, EngineDestruct, EngineDestroyed

LEMMA AliveStep ==
  ASSUME Alive, [EngineNext]_engineVars
  PROVE  Alive'
<1>1. CASE phase = "destroyed"
  BY <1>1
  DEF Alive, EngineNext, EngineBeginFrame, BeginFrame, EngineBeginFrameReturns, BeginFrameReturns,
      EngineSubmitFrameWork, SubmitFrameWork, BeginFrameThrows, FlushThrows, CreateFrameSetThrows,
      WriteDescriptors, WaitForComputeSubmissions, NoFrameWork, EngineEndFrame, EndFrame,
      EngineSubmit, Submit, RunOneTime, HostReturns, Publish, OneTimeReturns, CallMemoryManager,
      EngineDeviceStep, DeviceStep, Start, Signal, hostVars, EngineDestruct, Destruct,
      EngineDestroyed, Destroyed, vars, engineVars, commandVars
<1>2. CASE phase # "destroyed"
  BY <1>2, CallsKeep
  DEF Alive, EngineNext, EngineBeginFrame, EngineBeginFrameReturns, MM!BeginFrame,
      EngineSubmitFrameWork, BeginFrameThrows, FlushThrows, MM!FlushThrows,
      CreateFrameSetThrows, MM!CreateFrameSetThrows, WriteDescriptors, MM!WriteDescriptors,
      EngineEndFrame, MM!EndFrame, EngineSubmit, HostReturns, CallMemoryManager,
      EngineDeviceStep, EngineDestruct, Destruct, EngineDestroyed, MM!Destroyed, MM!vars,
      memoryVars, engineVars
<1> QED
  BY <1>1, <1>2

LEMMA ManagerKeeps ==
  ASSUME MMP!FramesInv, Alive, [EngineNext]_engineVars
  PROVE  MMP!FramesInv'
<1> USE KindsAssumption, NamesAssumption, FramesAssumption, CapacityAssumption, BoundsAssumption,
        ManagerBoundsAssumption
<1>1. CASE BeginFrameThrows
  <2>1. /\ phase # "destroyed" /\ phase' = "outside"
        /\ UNCHANGED <<MMP!storageVars, MMP!slotVars, pending_destructions, global_frame_counter,
                        pending_writes, MMP!frameVars, sets, current_frame>>
    BY <1>1 DEF BeginFrameThrows, SubmitFrameWork, Enqueue, Alive, MMP!storageVars, MMP!slotVars,
       MMP!frameVars
  <2> QED
    BY <2>1, MMP!PhaseKept
<1>2. CASE ~BeginFrameThrows
  BY <1>2, ManagerStep, MMP!FramesStep
<1> QED
  BY <1>1, <1>2

(* Without a failed create_frame_set, the manager does not throw at all.     *)
LEMMA ManagerThrowsLate ==
  ASSUME LoopInv, [EngineNext]_engineVars, set_failures' = 0
  PROVE  set_failures = 0 /\ UsualStep
<1> USE KindsAssumption, NamesAssumption, FramesAssumption, CapacityAssumption, BoundsAssumption,
        ManagerBoundsAssumption
<1>1. MMP!FramesInv /\ MMP!SInv
  BY DEF LoopInv, MMP!FramesInv, MMP!RInv
<1>2. set_failures = 0
  <2>1. CASE BeginFrameThrows
    BY <2>1 DEF BeginFrameThrows
  <2>2. CASE ~BeginFrameThrows
    BY <1>1, <2>2, ManagerStep, MMP!UnfailedStep
  <2> QED
    BY <2>1, <2>2
<1>3. ~CreateFrameSetThrows
  BY <1>2 DEF CreateFrameSetThrows, MM!CreateFrameSetThrows
<1>4. ASSUME FlushThrows
      PROVE  FALSE
  <2>1. ~BeginFrameThrows /\ phase' # "destroyed" /\ MMP!FlushThrows
    BY <1>4, ManagerThrows DEF FlushThrows, MM!FlushThrows, BeginFrameThrows, SubmitFrameWork
  <2> QED
    BY <1>1, <2>1, ManagerStep, MMP!UnfailedStep
<1> QED
  BY <1>2, <1>3, <1>4 DEF UsualStep

-----------------------------------------------------------------------------
(* What a step does to the submissions and to what they may use.             *)

(* The submissions that a call adds are of the frame under way.              *)
LEMMA AddedBatches ==
  ASSUME IInv, UsualStep, NEW b \in batches' \ batches
  PROVE  /\ EngineSubmits
         /\ UNCHANGED <<memoryVars, current_frame, frame>>
         /\ b.frame = frame /\ b.slot = current_frame
         /\ b.seq \in Nat /\ submissions < b.seq
         /\ b.kind = "frame" => Phase = "frame"
         /\ b.kind = "frame_work" => Phase = "begin"
         /\ Phase' = IF b.kind = "frame_work" THEN "wait_compute" ELSE Phase
<1>1. TypeOK
  BY DEF IInv
<1>2. EngineSubmits
  BY <1>1, EngineStepCases
  DEF EngineBeginFrame, BeginFrame, EngineBeginFrameReturns, BeginFrameReturns, BeginFrameThrows,
      SubmitFrameWork, Enqueue, WriteDescriptors, WaitForComputeSubmissions, NoFrameWork,
      EngineEndFrame, EndFrame, HostReturns, Publish, OneTimeReturns, CallMemoryManager,
      EngineDestruct, Destruct, EngineDeviceStep, DeviceStep, Start, Signal,
      engineVars, commandVars, gpuVars
<1>3. PICK type \in Types, n \in Nat \ {0}, waits \in [Types -> Nat], kind \in SubmissionKinds :
        Submits(type, n, waits, kind)
  BY <1>2 DEF EngineSubmits
<1>4. /\ b \in NewBatches(type, n, waits, kind)
      /\ host' = "publish" /\ call' = [type |-> type, kind |-> kind, back |-> host]
      /\ UNCHANGED <<current_frame, frame>>
  BY <1>3 DEF Submits, Enqueue
<1>5. /\ b.kind = kind /\ b.frame = frame /\ b.slot = current_frame
      /\ b.seq \in Nat /\ submissions < b.seq
  BY <1>1, <1>4, NewBatchFields
<1>6. /\ host \in {"idle", "begin", "frame"}
      /\ kind = "frame" => host = "frame"
      /\ kind = "frame_work" => host = "begin"
  BY <1>3 DEF Submits
<1>7. Phase = host /\ Phase' = IF kind = "frame_work" THEN "wait_compute" ELSE host
  BY <1>4, <1>6 DEF Phase
<1> QED
  BY <1>2, <1>4, <1>5, <1>6, <1>7 DEF EngineSubmits

LEMMA UsesFollow ==
  ASSUME IInv, DOMAIN uses = Seqs(batches), UsualStep
  PROVE  /\ DOMAIN uses' = Seqs(batches')
         /\ \A b \in batches' : uses'[b.seq] = IF b \in batches THEN uses[b.seq] ELSE Usable
<1>1. TypeOK /\ Ordered
  BY DEF IInv
<1>2. CASE UNCHANGED <<batches, uses>>
  BY <1>2 DEF Seqs
<1>3. CASE Track
  <2>1. ASSUME NEW b \in batches' \ batches
        PROVE  b.seq \notin Seqs(batches)
    <3>1. b.seq \in Nat /\ submissions < b.seq
      BY AddedBatches
    <3>2. \A c \in batches : c.seq \in Nat /\ c.seq <= submissions
      BY <1>1, BatchFields DEF Ordered
    <3>3. submissions \in Nat
      BY <1>1 DEF TypeOK
    <3> QED
      BY <3>1, <3>2, <3>3 DEF Seqs
  <2>2. \A b \in batches : b.seq \in Seqs(batches)
    BY DEF Seqs
  <2>3. \A b \in batches' : b.seq \in Seqs(batches')
    BY DEF Seqs
  <2>4. /\ DOMAIN uses' = Seqs(batches')
        /\ \A s \in Seqs(batches') : uses'[s] = IF s \in DOMAIN uses THEN uses[s] ELSE Usable
    BY <1>3 DEF Track
  <2> QED
    BY <2>1, <2>2, <2>3, <2>4
<1> QED
  BY <1>1, <1>2, <1>3, EngineStepCases
  DEF EngineBeginFrame, BeginFrame, EngineBeginFrameReturns, BeginFrameReturns, BeginFrameThrows,
      SubmitFrameWork, Enqueue, WriteDescriptors, WaitForComputeSubmissions, NoFrameWork,
      EngineEndFrame, EndFrame, HostReturns, Publish, OneTimeReturns, CallMemoryManager,
      EngineDestruct, Destruct, EngineSubmits, EngineDeviceStep,
      engineVars, commandVars, gpuVars

(* Only write_descriptors writes tables, and only the current slot's.        *)
LEMMA TablesFollow ==
  ASSUME TypeOK, DOMAIN tables = Slots, UsualStep
  PROVE  /\ DOMAIN tables' = Slots
         /\ \A f \in Slots : tables'[f] # tables[f] => WriteDescriptors /\ f = current_frame
<1>1. CASE WriteDescriptors
  <2>1. PICK t : tables' = [tables EXCEPT ![current_frame] = t]
    BY <1>1 DEF WriteDescriptors, MM!WriteDescriptors, MM!CreateFrameSet, MM!KeepFrameSet
  <2> QED
    BY <1>1, <2>1
<1>2. CASE UNCHANGED tables
  BY <1>2
<1>3. CASE UNCHANGED memoryVars
  BY <1>2, <1>3 DEF memoryVars
<1> QED
  BY <1>1, <1>2, <1>3, EngineStepCases, CallsKeep
  DEF EngineBeginFrame, EngineBeginFrameReturns, MM!BeginFrame, BeginFrameThrows, EngineEndFrame,
      MM!EndFrame, MM!frameVars, EngineSubmits, HostReturns, CallMemoryManager, EngineDestruct,
      MM!Destruct, MM!DestructThrows, EngineDeviceStep, engineVars

-----------------------------------------------------------------------------
(* Where a step leaves the host thread.                                     *)

LEMMA PhaseFollows ==
  ASSUME IInv, UsualStep, failures' = failures
  PROVE  \/ EngineBeginFrame /\ Phase = "idle" /\ Phase' = "begin_wait"
         \/ EngineBeginFrameReturns /\ Phase = "begin_wait" /\ Phase' = "begin"
         \/ WriteDescriptors /\ Phase \in {"begin", "wait_compute"} /\ Phase' = "frame"
         \/ EngineEndFrame /\ Phase = "frame" /\ Phase' = "idle"
         \/ EngineDestruct /\ Phase = "idle" /\ Phase' = "destroyed" /\ batches' = {}
         \/ /\ UNCHANGED <<current_frame, frame, global_frame_counter, phase>>
            /\ ~WriteDescriptors
            /\ \/ Phase' = Phase
               \/ Phase = "begin" /\ Phase' = "wait_compute"
<1>1. TypeOK /\ CallSound
  BY DEF IInv
<1>2. CASE EngineBeginFrame
  BY <1>2 DEF EngineBeginFrame, BeginFrame, Phase
<1>3. CASE EngineBeginFrameReturns
  BY <1>3 DEF EngineBeginFrameReturns, BeginFrameReturns, Phase
<1>4. CASE WriteDescriptors
  BY <1>4 DEF WriteDescriptors, WaitForComputeSubmissions, NoFrameWork, Phase
<1>5. CASE EngineEndFrame
  BY <1>5 DEF EngineEndFrame, EndFrame, Phase
<1>6. CASE EngineDestruct
  BY <1>6 DEF EngineDestruct, Destruct, Phase, gpuVars
<1>7. ASSUME EngineSubmits, NEW type \in Types, NEW n \in Nat \ {0}, NEW waits \in [Types -> Nat],
             NEW kind \in SubmissionKinds, Submits(type, n, waits, kind)
      PROVE  /\ UNCHANGED <<current_frame, frame, global_frame_counter, phase>>
             /\ ~WriteDescriptors
             /\ \/ Phase' = Phase
                \/ Phase = "begin" /\ Phase' = "wait_compute"
  <2>1. /\ host' = "publish" /\ call' = [type |-> type, kind |-> kind, back |-> host]
        /\ UNCHANGED <<current_frame, frame>>
    <3>1. failures' # failures + 1
      BY <1>1 DEF TypeOK
    <3> QED
      BY <1>7, <3>1 DEF Submits, Enqueue
  <2>2. host \in {"idle", "begin", "frame"} /\ (kind = "frame_work" => host = "begin")
    BY <1>7 DEF Submits
  <2>3. UNCHANGED <<global_frame_counter, phase>>
    BY <1>7 DEF EngineSubmits, memoryVars
  <2> QED
    BY <2>1, <2>2, <2>3 DEF Phase, WriteDescriptors, WaitForComputeSubmissions, NoFrameWork
<1>8. CASE HostReturns
  <2>1. UNCHANGED <<global_frame_counter, phase, current_frame, frame>>
    BY <1>8 DEF HostReturns, memoryVars, Publish, OneTimeReturns
  <2>2. Phase' = Phase
    BY <1>1, <1>8 DEF HostReturns, Publish, OneTimeReturns, Phase, CallSound, AfterPublish, TypeOK,
       SubmissionKinds
  <2> QED
    BY <1>8, <2>1, <2>2
    DEF HostReturns, Publish, OneTimeReturns, WriteDescriptors, WaitForComputeSubmissions, NoFrameWork
<1>9. CASE CallMemoryManager \/ EngineDeviceStep \/ UNCHANGED engineVars
  <2>1. UNCHANGED <<global_frame_counter, phase, current_frame, frame, host, call>>
    BY <1>9, CallsKeep
    DEF CallMemoryManager, commandVars, EngineDeviceStep, DeviceStep, Start, Signal, hostVars,
        engineVars, memoryVars
  <2> QED
    BY <2>1
    DEF Phase, WriteDescriptors, WaitForComputeSubmissions, NoFrameWork
<1>10. ~BeginFrameThrows
  BY DEF BeginFrameThrows
<1> QED
  BY <1>1, <1>2, <1>3, <1>4, <1>5, <1>6, <1>7, <1>8, <1>9, <1>10, EngineStepCases DEF EngineSubmits

LEMMA WorkComesFirstStep ==
  ASSUME IInv, WorkComesFirst, UsualStep
  PROVE  WorkComesFirst'
<1> SUFFICES ASSUME Phase' = "wait_compute", NEW b \in InFrameBatches', b.kind = "frame"
             PROVE  b.frame < frame'
  BY DEF WorkComesFirst
<1>1. CASE b \in batches' \ batches
  BY <1>1, AddedBatches
<1>2. ASSUME failures' # failures
      PROVE  FALSE
  <2>1. ASSUME NEW type \in Types, NEW n \in Nat, NEW waits, NEW kind, Enqueue(type, n, waits, kind),
               host \in {"idle", "begin", "frame"}
        PROVE  host' \in {"idle", "begin", "frame"}
    BY <1>2, <2>1 DEF Enqueue
  <2>2. \/ BeginFrameThrows
        \/ \E type \in Types, n \in Nat \ {0}, waits \in [Types -> Nat], kind \in SubmissionKinds :
             Submits(type, n, waits, kind)
    <3>1. TypeOK
      BY DEF IInv
    <3> QED
      BY <1>2, <3>1, EngineStepCases
      DEF EngineBeginFrame, BeginFrame, EngineBeginFrameReturns, BeginFrameReturns, WriteDescriptors,
          WaitForComputeSubmissions, NoFrameWork, EngineEndFrame, EndFrame, EngineSubmits, HostReturns,
          Publish, OneTimeReturns, CallMemoryManager, EngineDestruct, Destruct, EngineDeviceStep,
          DeviceStep, Start, Signal, hostVars, engineVars, commandVars
  <2>3. host' \in {"idle", "begin", "frame"}
    BY <2>1, <2>2, ComputeAssumption DEF BeginFrameThrows, SubmitFrameWork, Submits
  <2> QED
    BY <2>3 DEF Phase
<1>3. CASE b \in batches
  <2>1. b \in InFrameBatches
    BY <1>3 DEF InFrameBatches
  <2>2. failures' = failures
    BY <1>2
  <2>3. Phase \in {"begin", "wait_compute"} /\ frame' = frame
    BY <2>2, PhaseFollows
  <2> QED
    BY <2>1, <2>3 DEF WorkComesFirst, IInv, FramesTagged
<1> QED
  BY <1>1, <1>3 DEF InFrameBatches

-----------------------------------------------------------------------------
(* Frame slots are used in turn.                                            *)

LEMMA RemainderIsUnique ==
  ASSUME NEW q \in Int, NEW p \in Int,
         NEW r \in 0 .. frames_in_flight - 1, NEW s \in 0 .. frames_in_flight - 1,
         frames_in_flight * q + r = frames_in_flight * p + s
  PROVE  r = s
<1>1. frames_in_flight \in Int /\ frames_in_flight > 0
  BY FramesAssumption
<1>2. frames_in_flight * (q - p) = s - r
  BY <1>1
<1>3. q - p > 0 => frames_in_flight * (q - p) >= frames_in_flight
  BY <1>1
<1>4. q - p < 0 => frames_in_flight * (q - p) <= 0 - frames_in_flight
  BY <1>1
<1> QED
  BY <1>1, <1>2, <1>3, <1>4

LEMMA Division ==
  ASSUME NEW a \in Nat
  PROVE  /\ a = frames_in_flight * (a \div frames_in_flight) + (a % frames_in_flight)
         /\ a % frames_in_flight \in 0 .. frames_in_flight - 1
         /\ (a \div frames_in_flight) \in Int
BY FramesAssumption

LEMMA RemainderIs ==
  ASSUME NEW a \in Nat, NEW q \in Int, NEW r \in 0 .. frames_in_flight - 1,
         a = frames_in_flight * q + r
  PROVE  a % frames_in_flight = r
BY Division, RemainderIsUnique

(* A slot is used again frames_in_flight frames later, ...                   *)
LEMMA SlotsRepeat ==
  ASSUME NEW a \in Nat
  PROVE  (a + frames_in_flight) % frames_in_flight = a % frames_in_flight
<1>1. a + frames_in_flight
        = frames_in_flight * ((a \div frames_in_flight) + 1) + (a % frames_in_flight)
  BY Division, FramesAssumption
<1>2. a + frames_in_flight \in Nat /\ (a \div frames_in_flight) + 1 \in Int
      /\ a % frames_in_flight \in 0 .. frames_in_flight - 1
  BY Division, FramesAssumption
<1> QED
  BY <1>1, <1>2, RemainderIs

(* ... and the next frame's is the next one.                                 *)
LEMMA SlotsFollow ==
  ASSUME NEW a \in Nat
  PROVE  NextSlot(a % frames_in_flight) = (a + 1) % frames_in_flight
<1> DEFINE r == a % frames_in_flight
           q == a \div frames_in_flight
<1>1. /\ frames_in_flight \in Nat /\ frames_in_flight > 0
      /\ r \in 0 .. frames_in_flight - 1 /\ q \in Int /\ a = frames_in_flight * q + r
  BY FramesAssumption, Division
<1> HIDE DEF r, q
<1>2. CASE r + 1 < frames_in_flight
  <2>1. /\ a + 1 = frames_in_flight * q + (r + 1)
        /\ r + 1 = frames_in_flight * 0 + (r + 1)
        /\ r + 1 \in 0 .. frames_in_flight - 1 /\ r + 1 \in Nat
    BY <1>1, <1>2
  <2>2. (a + 1) % frames_in_flight = r + 1
    BY <1>1, <2>1, RemainderIs
  <2>3. (r + 1) % frames_in_flight = r + 1
    BY <2>1, RemainderIs
  <2> QED
    BY <2>2, <2>3 DEF NextSlot, r
<1>3. CASE r + 1 = frames_in_flight
  <2>1. /\ a + 1 = frames_in_flight * (q + 1) + 0
        /\ r + 1 = frames_in_flight * 1 + 0
        /\ 0 \in 0 .. frames_in_flight - 1 /\ r + 1 \in Nat
    BY <1>1, <1>3
  <2>2. (a + 1) % frames_in_flight = 0
    BY <1>1, <2>1, RemainderIs
  <2>3. (r + 1) % frames_in_flight = 0
    BY <2>1, RemainderIs
  <2> QED
    BY <2>2, <2>3 DEF NextSlot, r
<1> QED
  BY <1>1, <1>2, <1>3

-----------------------------------------------------------------------------
(* The parts of the invariant.                                              *)

LEMMA InStepFollows ==
  ASSUME IInv, InStep, UsualStep, failures' = failures
  PROVE  InStep'
<1>1. frame \in Nat /\ Completed \in Nat
  BY DEF IInv, TypeOK, InStep
<1>2. CASE EngineBeginFrame /\ Phase = "idle" /\ Phase' = "begin_wait"
  <2>1. frame' = frame + 1 /\ UNCHANGED <<current_frame, global_frame_counter, phase>>
    BY <1>2 DEF EngineBeginFrame, BeginFrame, memoryVars
  <2> QED
    BY <1>1, <1>2, <2>1 DEF InStep, Completed
<1>3. CASE EngineBeginFrameReturns /\ Phase = "begin_wait" /\ Phase' = "begin"
  <2>1. /\ global_frame_counter' = global_frame_counter + 1 /\ phase' = "begun"
        /\ UNCHANGED <<current_frame, frame>>
    BY <1>3 DEF EngineBeginFrameReturns, BeginFrameReturns, MM!BeginFrame
  <2> QED
    BY <1>1, <1>3, <2>1 DEF InStep, Completed
<1>4. CASE WriteDescriptors /\ Phase \in {"begin", "wait_compute"} /\ Phase' = "frame"
  <2>1. phase' = "frame" /\ UNCHANGED <<current_frame, frame, global_frame_counter>>
    BY <1>4 DEF WriteDescriptors, WaitForComputeSubmissions, NoFrameWork, MM!WriteDescriptors
  <2> QED
    BY <1>1, <1>4, <2>1 DEF InStep, Completed
<1>5. CASE EngineEndFrame /\ Phase = "frame" /\ Phase' = "idle"
  <2>1. /\ phase' = "outside" /\ current_frame' = NextSlot(current_frame)
        /\ UNCHANGED <<frame, global_frame_counter>>
    BY <1>5 DEF EngineEndFrame, EndFrame, MM!EndFrame
  <2>2. Completed = frame - 1 /\ Completed' = frame
    BY <1>5, <2>1 DEF Completed
  <2>3. current_frame' = frame % frames_in_flight
    <3>1. NextSlot(Completed % frames_in_flight) = (Completed + 1) % frames_in_flight
      BY <1>1, SlotsFollow
    <3>2. Completed + 1 = frame
      BY <1>1, <2>2
    <3> QED
      BY <2>1, <3>1, <3>2 DEF InStep
  <2> QED
    BY <1>1, <1>5, <2>1, <2>2, <2>3 DEF InStep
<1>6. CASE EngineDestruct /\ Phase = "idle" /\ Phase' = "destroyed"
  <2>1. phase' = "destroyed" /\ UNCHANGED <<current_frame, frame, global_frame_counter>>
    BY <1>6 DEF EngineDestruct, Destruct, MM!Destruct, MM!DestructThrows
  <2> QED
    BY <1>1, <1>6, <2>1 DEF InStep, Completed
<1>7. CASE /\ UNCHANGED <<current_frame, frame, global_frame_counter, phase>>
           /\ Phase' = Phase \/ (Phase = "begin" /\ Phase' = "wait_compute")
  BY <1>1, <1>7 DEF InStep, Completed
<1> QED
  BY <1>2, <1>3, <1>4, <1>5, <1>6, <1>7, PhaseFollows

(* A submission that a call adds inside a frame is of this frame.            *)
LEMMA AddedRecently ==
  ASSUME IInv, InStep, UsualStep, NEW b \in batches' \ batches, InFrame(b)
  PROVE  /\ UNCHANGED memoryVars /\ current_frame' = current_frame
         /\ b.frame = frame /\ frame \in Nat \ {0}
         /\ global_frame_counter = frame
         /\ b.slot = current_frame /\ current_frame = (frame - 1) % frames_in_flight
         /\ phase \in {"begun", "frame"}
         /\ b.kind = "frame" => phase = "frame"
<1>1. /\ (b.kind = "frame" /\ Phase = "frame") \/ (b.kind = "frame_work" /\ Phase = "begin")
      /\ b.frame = frame /\ b.slot = current_frame /\ UNCHANGED <<memoryVars, current_frame>>
  BY AddedBatches DEF InFrame
<1>2. frame \in Nat
  BY DEF IInv, TypeOK
<1> QED
  BY <1>1, <1>2 DEF InStep, Completed

LEMMA RecentFollows ==
  ASSUME IInv, InStep, Recent, UsualStep, failures' = failures
  PROVE  Recent'
<1> SUFFICES ASSUME NEW b \in InFrameBatches'
             PROVE  /\ b.frame \in Nat \ {0}
                    /\ b.slot = (b.frame - 1) % frames_in_flight
                    /\ global_frame_counter' < b.frame + frames_in_flight
  BY DEF Recent
<1>1. frames_in_flight \in Nat \ {0}
  BY FramesAssumption
<1>2. CASE b \in batches' \ batches
  <2>1. InFrame(b)
    BY DEF InFrameBatches
  <2>2. global_frame_counter' = global_frame_counter
    BY <1>2, <2>1, AddedRecently DEF memoryVars
  <2> QED
    BY <1>1, <1>2, <2>1, <2>2, AddedRecently
<1>3. CASE b \in batches
  <2>1. /\ b \in InFrameBatches
        /\ b.frame \in Nat \ {0} /\ b.slot = (b.frame - 1) % frames_in_flight
        /\ global_frame_counter < b.frame + frames_in_flight
    BY <1>3 DEF InFrameBatches, Recent
  <2>2. CASE EngineBeginFrameReturns /\ Phase = "begin_wait"
    <3>1. /\ global_frame_counter' = global_frame_counter + 1
          /\ Reached(frame_end_values[current_frame])
      BY <2>2 DEF EngineBeginFrameReturns, BeginFrameReturns, MM!BeginFrame
    <3>2. /\ frame - 1 \in Nat /\ global_frame_counter = frame - 1
          /\ current_frame = (frame - 1) % frames_in_flight /\ frame \in Nat
      BY <2>2 DEF InStep, Completed, IInv, TypeOK
    <3>3. ASSUME b.frame + frames_in_flight = frame
          PROVE  FALSE
      <4>1. /\ b.frame - 1 \in Nat
            /\ (b.frame - 1) + frames_in_flight = frame - 1
        BY <1>1, <2>1, <3>3
      <4>2. b.slot = current_frame
        BY <2>1, <3>2, <4>1, SlotsRepeat
      <4>3. b.value <= frame_end_values[current_frame][b.type]
        <5>1. b.frame < frame
          BY <1>1, <2>1, <3>3
        <5> QED
          BY <2>1, <4>2, <5>1 DEF IInv, EndValuesCover
      <4>4. frame_end_values[current_frame] \in [Types -> Nat]
        BY DEF IInv, TypeOK
      <4> QED
        BY <1>3, <3>1, <4>3, <4>4, CoveredIsDone DEF IInv
    <3> QED
      BY <1>1, <2>1, <3>1, <3>2, <3>3
  <2>3. CASE UNCHANGED global_frame_counter
    BY <2>1, <2>3
  <2> QED
    BY <2>2, <2>3, PhaseFollows
    DEF EngineBeginFrame, memoryVars, WriteDescriptors, MM!WriteDescriptors, EngineEndFrame,
        MM!EndFrame, EngineDestruct, MM!Destruct, MM!DestructThrows
<1> QED
  BY <1>2, <1>3 DEF InFrameBatches

LEMMA DestroyedFollows ==
  ASSUME TypeOK, UsualStep, failures' = failures, phase' = "destroyed"
  PROVE  UNCHANGED memoryVars \/ batches' = {}
BY EngineStepCases
DEF EngineBeginFrame, EngineBeginFrameReturns, MM!BeginFrame, BeginFrameThrows, WriteDescriptors,
    MM!WriteDescriptors, EngineEndFrame, MM!EndFrame, EngineSubmits, HostReturns, CallMemoryManager,
    MM!Call, MM!AddBindless, MM!Register, MM!AddResource, MM!Destroy, MM!Unregister, MM!Release,
    MM!DestroyResource, EngineDestruct, Destruct, gpuVars, EngineDeviceStep, engineVars

(* What was not put off before frame n stays so, and exists, while the       *)
(* counter is less than frames_in_flight frames past n.                      *)
LEMMA KeptFollows ==
  ASSUME TypeOK, MMP!FramesInv, DOMAIN tables = Slots,
         UsualStep, failures' = failures,
         set_failures' = 0, phase' # "destroyed" \/ batches' # {}, NEW n \in Nat,
         n <= global_frame_counter, global_frame_counter' < n + frames_in_flight
  PROVE  /\ \A k \in Kinds : \A r : MMP!KeptSince(k, r, n) => MMP!KeptSince(k, r, n)'
         /\ \A s : MMP!SetKeptSince(s, n) => MMP!SetKeptSince(s, n)'
         /\ \A f \in Slots : MMP!TableKeptSince(f, n) => MMP!TableKeptSince(f, n)'
<1>1. /\ \A k \in Kinds : \A r : MMP!KeptSince(k, r, n) => MMP!KeptSince(k, r, n)'
      /\ \A s : MMP!SetKeptSince(s, n) => MMP!SetKeptSince(s, n)'
  <2>1. CASE phase' # "destroyed"
    <3>1. [MMP!Next]_(MMP!vars)
      BY ManagerStep DEF UsualStep, BeginFrameThrows
    <3> QED
      BY <2>1, <3>1, MMP!KeptStep, KindsAssumption, NamesAssumption, FramesAssumption,
         CapacityAssumption, BoundsAssumption, ManagerBoundsAssumption
  <2>2. CASE UNCHANGED memoryVars
    BY <2>2 DEF memoryVars, MMP!KeptSince, MMP!SetKeptSince, MMP!PutOffParts
  <2> QED
    BY <2>1, <2>2, DestroyedFollows
<1>2. ASSUME NEW f \in Slots, MMP!TableKeptSince(f, n)
      PROVE  MMP!TableKeptSince(f, n)'
  <2>1. CASE tables'[f] = tables[f]
    BY <1>1, <1>2, <2>1 DEF MMP!TableKeptSince, MMP!Indices, MMP!invalid_id
  <2>2. CASE WriteDescriptors /\ f = current_frame
    <3>1. MMP!WriteDescriptors /\ current_frame' = current_frame
      BY <2>2, ManagerWrites DEF WriteDescriptors, MM!WriteDescriptors
    <3>2. \A m : MMP!TableKeptSince(current_frame, m)'
      BY <3>1, MMP!WrittenKept, KindsAssumption, NamesAssumption, FramesAssumption,
         CapacityAssumption, BoundsAssumption, ManagerBoundsAssumption
    <3> QED
      BY <2>2, <3>1, <3>2 DEF MMP!TableKeptSince
  <2> QED
    BY <2>1, <2>2, TablesFollow
<1> QED
  BY <1>1, <1>2

LEMMA UsesKeptFollows ==
  ASSUME LoopInv, UsualStep, failures = 0, failures' = 0, set_failures = 0, set_failures' = 0
  PROVE  UsesKept'
<1> SUFFICES ASSUME NEW b, b \in InFrameBatches'
             PROVE  /\ \A k \in Kinds : \A r : r \in uses'[b.seq].resources[k] =>
                         MMP!KeptSince(k, r, b.frame)'
                    /\ \A s : s \in MMP!PartsOf(uses'[b.seq].set) =>
                         MMP!SetKeptSince(s, b.frame)'
                    /\ b.kind = "frame" => MMP!TableKeptSince(b.slot, b.frame)'
  BY DEF UsesKept, MMP!KeptSince, MMP!SetKeptSince, MMP!TableKeptSince, MMP!PartsOf
<1>1. /\ IInv /\ TypeOK /\ MMP!FramesInv /\ InStep /\ Recent /\ UsesKept /\ TablesNow
      /\ DOMAIN uses = Seqs(batches) /\ DOMAIN tables = Slots
  BY DEF LoopInv, Tracked, IInv
<1>2. CASE b \in batches' \ batches
  <2>1. /\ UNCHANGED memoryVars
        /\ b.frame = frame /\ global_frame_counter = frame /\ b.slot = current_frame
        /\ phase \in {"begun", "frame"} /\ (b.kind = "frame" => phase = "frame")
        /\ uses'[b.seq] = Usable
    <3>1. InFrame(b)
      BY DEF InFrameBatches
    <3> QED
      BY <1>1, <1>2, <3>1, AddedRecently, UsesFollow
  <2>2. /\ \A k \in Kinds : \A r \in Usable.resources[k] : MMP!KeptSince(k, r, b.frame)
        /\ \A s \in MMP!PartsOf(Usable.set) : MMP!SetKeptSince(s, b.frame)
    <3>1. /\ \A k \in Kinds : \A r \in (held[k] \union MMP!Registered(k)) \ {MMP!None} :
               \A n : MMP!KeptSince(k, r, n)
          /\ \A f \in MMP!FrameSlots : \A s \in MMP!PartsOf(frame_sets[f]) :
               \A n : MMP!SetKeptSince(s, n)
      BY <1>1, <2>1, MMP!UsableKept, KindsAssumption, NamesAssumption, FramesAssumption,
         CapacityAssumption, BoundsAssumption, ManagerBoundsAssumption
    <3>2. current_frame \in Slots
      BY <1>1 DEF TypeOK
    <3> QED
      BY <3>1, <3>2, ManagerNames DEF Usable, Named
  <2>3. b.kind = "frame" => MMP!TableKeptSince(b.slot, b.frame)
    BY <1>1, <2>1 DEF TablesNow
  <2> QED
    BY <2>1, <2>2, <2>3
    DEF memoryVars, MMP!KeptSince, MMP!SetKeptSince, MMP!TableKeptSince, MMP!PutOffParts
<1>3. CASE b \in batches
  <2>1. b \in InFrameBatches
    BY <1>3 DEF InFrameBatches
  <2>2. b.frame \in Nat /\ b.slot \in Slots
    BY <1>1, <1>3, BatchFields
  <2>3. b.frame <= global_frame_counter
    <3>1. b.frame <= frame /\ (Phase = "begin_wait" => b.frame < frame)
      BY <1>1, <2>1 DEF IInv, FramesTagged
    <3> QED
      BY <1>1, <2>2, <3>1 DEF InStep, TypeOK
  <2>4. global_frame_counter' < b.frame + frames_in_flight
    BY <1>1, RecentFollows DEF Recent
  <2>5. batches' # {}
    BY DEF InFrameBatches
  <2>6. uses'[b.seq] = uses[b.seq]
    BY <1>1, <1>3, UsesFollow DEF InFrameBatches
  <2>7. /\ \A k \in Kinds : \A r : MMP!KeptSince(k, r, b.frame) => MMP!KeptSince(k, r, b.frame)'
        /\ \A s : MMP!SetKeptSince(s, b.frame) => MMP!SetKeptSince(s, b.frame)'
        /\ \A f \in Slots : MMP!TableKeptSince(f, b.frame) => MMP!TableKeptSince(f, b.frame)'
    BY <1>1, <2>2, <2>3, <2>4, <2>5, KeptFollows
  <2> QED
    BY <1>1, <2>1, <2>2, <2>6, <2>7 DEF UsesKept
<1> QED
  BY <1>2, <1>3 DEF InFrameBatches

LEMMA TablesNowFollows ==
  ASSUME LoopInv, UsualStep, failures = 0, failures' = 0, set_failures = 0, set_failures' = 0
  PROVE  TablesNow'
<1> SUFFICES ASSUME phase' = "frame"
             PROVE  MMP!TableKeptSince(current_frame, global_frame_counter)'
  BY DEF TablesNow, MMP!TableKeptSince
<1>1. /\ IInv /\ TypeOK /\ MMP!FramesInv /\ InStep /\ TablesNow /\ DOMAIN tables = Slots
  BY DEF LoopInv, Tracked, IInv
<1>2. CASE WriteDescriptors
  <2>1. MMP!WriteDescriptors
    BY <1>2, ManagerWrites DEF WriteDescriptors
  <2>2. \A n : MMP!TableKeptSince(current_frame, n)'
    BY <1>1, <2>1, MMP!WrittenKept, KindsAssumption, NamesAssumption, FramesAssumption,
       CapacityAssumption, BoundsAssumption, ManagerBoundsAssumption
  <2> QED
    BY <2>2
<1>3. CASE UNCHANGED <<current_frame, global_frame_counter, phase>>
  <2>1. global_frame_counter \in Nat /\ frames_in_flight \in Nat \ {0}
    BY <1>1, FramesAssumption DEF InStep, Completed, TypeOK
  <2>2. global_frame_counter' < global_frame_counter + frames_in_flight
    BY <1>3, <2>1
  <2>3. MMP!TableKeptSince(current_frame, global_frame_counter)
    BY <1>1, <1>3 DEF TablesNow
  <2>4. \A f \in Slots : MMP!TableKeptSince(f, global_frame_counter)
                         => \A m : m = global_frame_counter => MMP!TableKeptSince(f, m)'
    <3> SUFFICES ASSUME NEW f \in Slots, NEW m, m = global_frame_counter,
                        MMP!TableKeptSince(f, m)
                 PROVE  MMP!TableKeptSince(f, m)'
      OBVIOUS
    <3>1. m \in Nat /\ m <= global_frame_counter /\ global_frame_counter' < m + frames_in_flight
      BY <2>1, <2>2
    <3> QED
      BY <1>1, <3>1, KeptFollows
  <2> QED
    BY <1>1, <1>3, <2>3, <2>4 DEF TypeOK, MMP!TableKeptSince
<1> QED
  BY <1>1, <1>2, <1>3, PhaseFollows
  DEF EngineBeginFrame, BeginFrame, memoryVars, EngineBeginFrameReturns, MM!BeginFrame, EngineEndFrame,
      MM!EndFrame, EngineDestruct, MM!Destruct, MM!DestructThrows

-----------------------------------------------------------------------------
(* The invariant holds, and what follows from it.                           *)

LEMMA LoopStarts == EngineInit => LoopInv
<1> SUFFICES ASSUME EngineInit
             PROVE  LoopInv
  OBVIOUS
<1>1. /\ Init /\ IInv /\ MM!Init /\ MMP!Init
      /\ DOMAIN uses = {} /\ batches = {} /\ host = "idle" /\ frame = 0 /\ current_frame = 0
  BY InitInvariant, ManagerStarts DEF EngineInit, Init
<1>2. MMP!FramesInv
  BY <1>1, MMP!FramesStart, KindsAssumption, NamesAssumption, FramesAssumption,
     CapacityAssumption, BoundsAssumption, ManagerBoundsAssumption
<1>3. Tracked
  BY <1>1 DEF Tracked, Seqs, MM!Init, MM!FrameSlots, Slots
<1>4. InFrameBatches = {} /\ Phase = "idle"
  BY <1>1 DEF InFrameBatches, Phase
<1>5. phase = "outside" /\ global_frame_counter = 0
  BY <1>1 DEF MM!Init
<1>6. InStep
  <2>1. 0 % frames_in_flight = 0
    BY FramesAssumption
  <2> QED
    BY <1>1, <1>4, <1>5, <2>1 DEF InStep, Completed
<1> QED
  BY <1>1, <1>2, <1>3, <1>4, <1>5, <1>6
  DEF LoopInv, Alive, WorkComesFirst, Recent, UsesKept, TablesNow

LEMMA LoopStep == LoopInv /\ [EngineNext]_engineVars => LoopInv'
<1> SUFFICES ASSUME LoopInv, [EngineNext]_engineVars
             PROVE  LoopInv'
  OBVIOUS
<1>1. MMP!FramesInv' /\ Alive'
  BY ManagerKeeps, AliveStep DEF LoopInv
<1>2. ASSUME set_failures' = 0
      PROVE  /\ UsualStep /\ set_failures = 0
             /\ IInv /\ TypeOK /\ WorkComesFirst /\ Tracked
  BY <1>2, ManagerThrowsLate DEF LoopInv, IInv
<1>3. ASSUME set_failures' = 0
      PROVE  IInv'
  BY <1>2, <1>3, CommandSteps, NextInvariant
<1>4. ASSUME set_failures' = 0
      PROVE  WorkComesFirst' /\ Tracked'
  BY <1>2, <1>4, WorkComesFirstStep, UsesFollow, TablesFollow DEF Tracked
<1>5. ASSUME set_failures' = 0, failures' = 0
      PROVE  failures = 0
  <2>1. failures \in Nat /\ (failures' = failures \/ failures' = failures + 1)
    BY <1>2, <1>5, CommandSteps, StepCases
    DEF TypeOK, BeginFrame, BeginFrameReturns, NoFrameWork, WaitForComputeSubmissions, EndFrame,
        Submits, Enqueue, Publish, OneTimeReturns, Destruct, Start, Signal, LoadProgress, vars, hostVars
  <2> QED
    BY <1>5, <2>1
<1>6. ASSUME set_failures' = 0, failures' = 0
      PROVE  InStep' /\ Recent' /\ UsesKept' /\ TablesNow'
  <2>1. failures = 0 /\ InStep /\ Recent
    BY <1>2, <1>5, <1>6 DEF LoopInv
  <2> QED
    BY <1>2, <1>6, <2>1, InStepFollows, RecentFollows, UsesKeptFollows, TablesNowFollows
<1> QED
  BY <1>1, <1>3, <1>4, <1>6 DEF LoopInv

THEOREM EngineInvariant == EngineSpec => []LoopInv
BY LoopStarts, LoopStep, PTL DEF EngineSpec

(* What Engine submits in a frame finds the resources and the descriptor set *)
(* it was recorded with until it has signaled: MemoryManager::destroy puts   *)
(* destructions off for frames_in_flight frames, and Command::begin_frame    *)
(* waits for the submissions of a slot that long ago.  (As long as nothing    *)
(* has thrown: no submission and no create_frame_set.)                       *)
THEOREM SubmissionsStaySound == EngineSpec => []SubmissionsSound
<1>1. LoopInv => SubmissionsSound
  BY ManagerNames
  DEF LoopInv, Unfailed, UsesKept, SubmissionsSound, SubmittedResourcesLive, MMP!KeptSince,
      MMP!SetKeptSince
<1> QED
  BY <1>1, EngineInvariant, PTL

(* Nor do the tables that write_descriptors left for a frame's submissions   *)
(* lead to a destroyed resource, as long as nothing has thrown.              *)
THEOREM FrameTablesStaySound == EngineSpec => []FrameTablesSound
<1>1. LoopInv => FrameTablesSound
  BY ManagerNames
  DEF LoopInv, Unfailed, UsesKept, FrameTablesSound, Dangling, MMP!TableKeptSince, MMP!KeptSince
<1> QED
  BY <1>1, EngineInvariant, PTL

(* Engine::begin_frame writes the tables of a slot that only the frame's own *)
(* frame work may be using, also after submissions that threw, but not after *)
(* a create_frame_set that did.                                              *)
THEOREM TablesAreWrittenUnused == EngineSpec => TablesWrittenUnused
<1> DEFINE Unused ==
      set_failures = 0 => \A b \in InFrameBatches :
        tables'[b.slot] # tables[b.slot] => b.kind = "frame_work" /\ b.frame = frame
<1>1. LoopInv /\ [EngineNext]_engineVars => Unused
  <2> SUFFICES ASSUME LoopInv, [EngineNext]_engineVars, set_failures = 0,
                      NEW b \in InFrameBatches, tables'[b.slot] # tables[b.slot]
               PROVE  b.kind = "frame_work" /\ b.frame = frame
    OBVIOUS
  <2>1. IInv /\ TypeOK /\ WorkComesFirst /\ DOMAIN tables = Slots
    BY DEF LoopInv, Tracked, IInv
  <2>2. b \in batches /\ b.slot \in Slots /\ InFrame(b) /\ b.frame \in Nat /\ frame \in Nat
    BY <2>1, BatchFields DEF InFrameBatches, TypeOK
  <2>3. WriteDescriptors /\ b.slot = current_frame
    <3>1. UsualStep
      BY DEF UsualStep, FlushThrows, MM!FlushThrows, CreateFrameSetThrows, MM!CreateFrameSetThrows,
         MM!frameVars
    <3> QED
      BY <2>1, <2>2, <3>1, TablesFollow
  <2>4. host \in {"begin", "wait_compute"} /\ Begun /\ Phase = host
    BY <2>3 DEF WriteDescriptors, WaitForComputeSubmissions, NoFrameWork, Begun, Phase
  <2>5. ~(b.frame < frame)
    BY <2>1, <2>2, <2>3, <2>4 DEF IInv, FrameSlotReusable
  <2>6. b.frame = frame /\ Phase = "wait_compute"
    BY <2>1, <2>2, <2>4, <2>5 DEF IInv, FramesTagged
  <2> QED
    BY <2>1, <2>2, <2>5, <2>6 DEF WorkComesFirst, InFrame
<1>2. EngineSpec => [][Unused]_engineVars
  BY <1>1, EngineInvariant, PTL DEF EngineSpec
<1> QED
  BY <1>2 DEF TablesWrittenUnused
=============================================================================
