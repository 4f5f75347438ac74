------------------------ MODULE TimersAndEvents_proofs ------------------------
(***************************************************************************)
(* Proofs about the two components that nothing else of the model shares     *)
(* state with.                                                               *)
(*                                                                           *)
(* DeviceTimer, for any number of timers, measurements and outstanding       *)
(* commands.  The device only sees commands in the order in which they were  *)
(* recorded, so the invariant says what follows what among the outstanding   *)
(* ones, what the first of them meets in the query pool, and what the last   *)
(* of them leaves there.                                                     *)
(*                                                                           *)
(* EventHandler, for any keys, codes, buttons and remap files.  Both         *)
(* properties are inductive as they stand, and neither needs to know what    *)
(* the remap file turned key_remap into.                                     *)
(***************************************************************************)
EXTENDS DeviceTimer, EventHandler, SequenceTheorems, TLAPS

-----------------------------------------------------------------------------
(* How the outstanding commands change.                                     *)

LEMMA OutstandingType ==
  ASSUME recorded \in Seq(Commands), pending \in Seq(Commands)
  PROVE  /\ Outstanding \in Seq(Commands)
         /\ Len(Outstanding) = Len(pending) + Len(recorded)
         /\ \A n \in 1 .. Len(pending) : Outstanding[n] = pending[n]
         /\ \A n \in 1 .. Len(recorded) : Outstanding[Len(pending) + n] = recorded[n]
BY DEF Outstanding

LEMMA RecordAppends ==
  ASSUME recorded \in Seq(Commands), pending \in Seq(Commands), NEW c \in Commands,
         Record(c), UNCHANGED pending
  PROVE  recorded' \in Seq(Commands) /\ Outstanding' = Append(Outstanding, c)
<1>1. recorded' = Append(recorded, c) /\ pending' = pending
  BY DEF Record
<1>2. Outstanding' = pending \o Append(recorded, c)
  BY <1>1 DEF Outstanding
<1> QED
  BY <1>1, <1>2 DEF Outstanding

LEMMA SubmitKeeps ==
  ASSUME recorded \in Seq(Commands), pending \in Seq(Commands), Submit
  PROVE  /\ recorded' \in Seq(Commands) /\ pending' \in Seq(Commands)
         /\ Outstanding' = Outstanding
<1>1. pending' = pending \o recorded /\ recorded' = <<>>
  BY DEF Submit
<1>2. (pending \o recorded) \o <<>> = pending \o recorded
  OBVIOUS
<1> QED
  BY <1>1, <1>2 DEF Outstanding

LEMMA ExecuteTakes ==
  ASSUME recorded \in Seq(Commands), pending \in Seq(Commands), Execute
  PROVE  /\ pending' \in Seq(Commands)
         /\ Outstanding # <<>> /\ Head(Outstanding) \in Commands
         /\ Outstanding' = Tail(Outstanding)
         /\ queries' = Executed(Head(Outstanding))
<1>1. pending # <<>> /\ pending' = Tail(pending) /\ recorded' = recorded
      /\ queries' = Executed(Head(pending))
  BY DEF Execute
<1>2. Head(pending \o recorded) = Head(pending) /\ Head(pending) \in Commands
  BY <1>1
<1>3. Tail(pending) \o recorded = Tail(pending \o recorded)
  BY <1>1
<1>4. pending \o recorded # <<>>
  BY <1>1
<1> QED
  BY <1>1, <1>2, <1>3, <1>4 DEF Outstanding

-----------------------------------------------------------------------------
(* Types.                                                                   *)

LEMMA ExecutedType ==
  ASSUME queries \in [Queries -> Measurements \cup {Unavailable, NeverReset}],
         NEW c \in Commands
  PROVE  Executed(c) \in [Queries -> Measurements \cup {Unavailable, NeverReset}]
BY DEF Executed, Commands

LEMMA CommandTypes ==
  ASSUME NEW i \in Timers
  PROVE  /\ StartQuery(i) \in Queries /\ StopQuery(i) \in Queries
         /\ ResetCommand(StartQuery(i), 2) \in Commands
         /\ ResetCommand(0, TimerCount) \in Commands
         /\ \A v \in Measurements : /\ WriteCommand(StartQuery(i), v) \in Commands
                                    /\ WriteCommand(StopQuery(i), v) \in Commands
BY TimerAssumption DEF Timers, Queries, StartQuery, StopQuery, ResetCommand, WriteCommand, Commands

(* What was started has a number.                                            *)
TInv == TypeOK /\ \A i \in Timers : phase[i] = "started" => measured[i] >= 1

LEMMA TypeStarts == TimersInit => TInv
BY TimerAssumption DEF TimersInit, TInv, TypeOK, NeverReset, Measurements, Unavailable

LEMMA StartedNumber ==
  ASSUME TInv, NEW i \in Timers
  PROVE  /\ Start(i) => measured[i] + 1 \in Measurements
         /\ Stop(i) => measured[i] \in Measurements
BY TimerAssumption DEF TInv, TypeOK, Start, Stop, Measurements

LEMMA TypeStep == TInv /\ [TimersNext]_timerVars => TInv'
<1> SUFFICES ASSUME TInv, [TimersNext]_timerVars
             PROVE  TInv'
  OBVIOUS
<1>1. recorded \in Seq(Commands) /\ pending \in Seq(Commands)
  BY DEF TInv, TypeOK
<1>2. CASE Construct
  BY <1>2 DEF Construct, TInv, TypeOK
<1>3. ASSUME NEW i \in Timers, Reset(i)
      PROVE  TInv'
  <2>1. recorded' \in Seq(Commands) /\ UNCHANGED pending
    BY <1>1, <1>3, CommandTypes, RecordAppends DEF Reset
  <2> QED
    BY <1>3, <2>1 DEF Reset, TInv, TypeOK
<1>4. CASE ResetAll
  <2>1. ResetCommand(0, TimerCount) \in Commands /\ UNCHANGED pending
    BY <1>4, CommandTypes DEF ResetAll
  <2>2. recorded' \in Seq(Commands)
    BY <1>1, <1>4, <2>1, RecordAppends DEF ResetAll
  <2> QED
    BY <1>4, <2>1, <2>2 DEF ResetAll, TInv, TypeOK
<1>5. ASSUME NEW i \in Timers, Start(i)
      PROVE  TInv'
  <2>1. measured[i] + 1 \in Measurements
    BY <1>5, StartedNumber
  <2>2. recorded' \in Seq(Commands) /\ UNCHANGED pending
    BY <1>1, <1>5, <2>1, CommandTypes, RecordAppends DEF Start
  <2>3. measured' \in [Timers -> 0 .. MaxMeasurements]
    BY <1>5, <2>1 DEF Start, TInv, TypeOK, Measurements
  <2>4. \A j \in Timers : phase'[j] = "started" => measured'[j] >= 1
    BY <1>5, <2>1 DEF Start, TInv, TypeOK, Measurements
  <2> QED
    BY <1>5, <2>2, <2>3, <2>4 DEF Start, TInv, TypeOK
<1>6. ASSUME NEW i \in Timers, Stop(i)
      PROVE  TInv'
  <2>1. recorded' \in Seq(Commands) /\ UNCHANGED pending
    BY <1>1, <1>6, StartedNumber, CommandTypes, RecordAppends DEF Stop
  <2> QED
    BY <1>6, <2>1 DEF Stop, TInv, TypeOK
<1>7. ASSUME NEW i \in Timers, GetResult(i)
      PROVE  TInv'
  <2> PICK result \in Results(i) : returned' = [returned EXCEPT ![i] = result]
    BY <1>7 DEF GetResult
  <2>1. result \in 0 .. NeverReset
    <3>1. PairOf(i) \subseteq Measurements \cup {Unavailable, NeverReset}
      BY CommandTypes DEF TInv, TypeOK, PairOf
    <3>2. Measurements \subseteq 0 .. NeverReset /\ NeverReset \in 0 .. NeverReset
      BY TimerAssumption DEF Measurements, NeverReset
    <3>3. returned[i] \in 0 .. NeverReset
      BY DEF TInv, TypeOK
    <3> QED
      BY <3>1, <3>2, <3>3 DEF Results, Available, PairOf
  <2> QED
    BY <1>7, <2>1 DEF GetResult, TInv, TypeOK
<1>8. CASE Submit
  BY <1>1, <1>8, SubmitKeeps DEF Submit, TInv, TypeOK
<1>9. CASE Execute
  <2>1. pending' \in Seq(Commands) /\ Head(Outstanding) \in Commands
        /\ queries' = Executed(Head(Outstanding))
    BY <1>1, <1>9, ExecuteTakes
  <2>2. queries' \in [Queries -> Measurements \cup {Unavailable, NeverReset}]
    BY <2>1, ExecutedType DEF TInv, TypeOK
  <2> QED
    BY <1>9, <2>1, <2>2 DEF Execute, TInv, TypeOK
<1>10. CASE Destroy
  BY <1>10 DEF Destroy, TInv, TypeOK
<1>11. CASE Destroyed \/ UNCHANGED timerVars
  BY <1>11 DEF Destroyed, timerVars, TInv, TypeOK
<1> QED
  BY <1>2, <1>3, <1>4, <1>5, <1>6, <1>7, <1>8, <1>9, <1>10, <1>11 DEF TimersNext

-----------------------------------------------------------------------------
(* How commands touch a query.                                              *)

Touches(c, q) ==
  IF c.op = "write" THEN c.query = q ELSE q \in c.first .. (c.first + c.count - 1)

(* After the command, the query it touches is v.                             *)
Gives(c, v) == IF c.op = "write" THEN v = c.value ELSE v = Unavailable

(* When a device whose queries hold this has executed the commands, q is v.  *)
Leaves(commands, pool, q, v) ==
  /\ (\A n \in DOMAIN commands : ~Touches(commands[n], q)) => pool[q] = v
  /\ \A n \in DOMAIN commands :
       /\ Touches(commands[n], q)
       /\ \A m \in DOMAIN commands : m > n => ~Touches(commands[m], q)
       => Gives(commands[n], v)

LEMMA Appending ==
  ASSUME NEW s \in Seq(Commands), NEW c
  PROVE  /\ DOMAIN Append(s, c) = DOMAIN s \union {Len(s) + 1}
         /\ Len(s) + 1 \notin DOMAIN s
         /\ \A n \in DOMAIN s : n \in Nat /\ n < Len(s) + 1 /\ Append(s, c)[n] = s[n]
         /\ Append(s, c)[Len(s) + 1] = c /\ Len(s) + 1 \in Nat
OBVIOUS

LEMMA Taking ==
  ASSUME NEW s \in Seq(Commands), s # <<>>
  PROVE  /\ 1 \in DOMAIN s /\ Head(s) = s[1]
         /\ \A n \in DOMAIN Tail(s) :
              n \in Nat \ {0} /\ n + 1 \in DOMAIN s /\ Tail(s)[n] = s[n + 1]
         /\ \A n \in DOMAIN s : n \in Nat \ {0} /\ (n # 1 =>
              n - 1 \in DOMAIN Tail(s) /\ s[n] = Tail(s)[n - 1])
OBVIOUS

LEMMA LeavesGiven ==
  ASSUME NEW s \in Seq(Commands), NEW pool, NEW q, NEW v, NEW c, Touches(c, q), Gives(c, v)
  PROVE  Leaves(Append(s, c), pool, q, v)
<1> DEFINE l == Len(s) + 1
           t == Append(s, c)
<1>1. /\ DOMAIN t = DOMAIN s \union {l} /\ t[l] = c
      /\ \A n \in DOMAIN s : l > n
  BY Appending
<1>2. Touches(t[l], q) /\ Gives(t[l], v)
  BY <1>1
<1> HIDE DEF t
<1> QED
  BY <1>1, <1>2 DEF Leaves, t

LEMMA LeavesWritten ==
  ASSUME NEW s \in Seq(Commands), NEW pool, NEW q, NEW v
  PROVE  Leaves(Append(s, WriteCommand(q, v)), pool, q, v)
BY LeavesGiven DEF Touches, Gives, WriteCommand

LEMMA LeavesKept ==
  ASSUME NEW s \in Seq(Commands), NEW pool, NEW q, NEW v, NEW c, ~Touches(c, q),
         Leaves(s, pool, q, v)
  PROVE  Leaves(Append(s, c), pool, q, v)
<1> DEFINE l == Len(s) + 1
           t == Append(s, c)
<1>1. /\ DOMAIN t = DOMAIN s \union {l} /\ t[l] = c /\ l \notin DOMAIN s
      /\ \A n \in DOMAIN s : t[n] = s[n]
  BY Appending
<1> HIDE DEF t
<1>2. Leaves(t, pool, q, v)
  BY <1>1 DEF Leaves
<1> QED
  BY <1>2 DEF t

LEMMA LeavesExecuted ==
  ASSUME NEW s \in Seq(Commands), s # <<>>, NEW pool, NEW q, NEW v, NEW after,
         Touches(s[1], q) => Gives(s[1], after[q]),
         ~Touches(s[1], q) => after[q] = pool[q],
         Leaves(s, pool, q, v)
  PROVE  Leaves(Tail(s), after, q, v)
<1> DEFINE t == Tail(s)
<1>1. /\ 1 \in DOMAIN s
      /\ \A n \in DOMAIN t : n \in Nat \ {0} /\ n + 1 \in DOMAIN s /\ t[n] = s[n + 1]
      /\ \A n \in DOMAIN s : n \in Nat \ {0} /\ (n # 1 => n - 1 \in DOMAIN t /\ s[n] = t[n - 1])
  BY Taking
<1> HIDE DEF t
<1>2. ASSUME \A n \in DOMAIN t : ~Touches(t[n], q)
      PROVE  after[q] = v
  <2>1. \A n \in DOMAIN s : n # 1 => ~Touches(s[n], q)
    BY <1>1, <1>2
  <2>2. CASE Touches(s[1], q)
    <3>1. \A m \in DOMAIN s : m > 1 => m # 1
      BY <1>1
    <3>2. Gives(s[1], v)
      BY <1>1, <2>1, <2>2, <3>1 DEF Leaves
    <3> QED
      BY <2>2, <3>2 DEF Gives
  <2>3. CASE ~Touches(s[1], q)
    BY <2>1, <2>3 DEF Leaves
  <2> QED
    BY <2>2, <2>3
<1>3. ASSUME NEW n \in DOMAIN t, Touches(t[n], q),
             \A m \in DOMAIN t : m > n => ~Touches(t[m], q)
      PROVE  Gives(t[n], v)
  <2>1. ASSUME NEW m \in DOMAIN s, m > n + 1
        PROVE  ~Touches(s[m], q)
    <3>1. m # 1 /\ m - 1 > n
      BY <1>1, <2>1
    <3> QED
      BY <1>1, <1>3, <3>1
  <2> QED
    BY <1>1, <1>3, <2>1 DEF Leaves
<1>4. Leaves(t, after, q, v)
  BY <1>2, <1>3 DEF Leaves
<1> QED
  BY <1>4 DEF t

LEMMA ExecutedGives ==
  ASSUME queries \in [Queries -> Measurements \cup {Unavailable, NeverReset}],
         NEW c \in Commands, NEW q \in Queries
  PROVE  /\ Touches(c, q) => Gives(c, Executed(c)[q])
         /\ ~Touches(c, q) => Executed(c)[q] = queries[q]
BY DEF Executed, Touches, Gives, Commands

-----------------------------------------------------------------------------
(* What was measured last is what the device will leave in the queries.      *)

Unborn ==
  object = "none" =>
    /\ Outstanding = <<>>
    /\ \A i \in Timers : phase[i] = "idle" /\ result_fetched[i]

LastIsLeft(i) ==
  /\ phase[i] = "started" => Leaves(Outstanding, queries, StartQuery(i), measured[i])
  /\ phase[i] = "idle" /\ ~result_fetched[i] =>
       /\ Leaves(Outstanding, queries, StartQuery(i), measured[i])
       /\ Leaves(Outstanding, queries, StopQuery(i), measured[i])

LInv == TInv /\ Unborn /\ \A i \in Timers : LastIsLeft(i)

LEMMA LeftStarts == TimersInit => LInv
BY TypeStarts DEF TimersInit, LInv, Unborn, Outstanding, LastIsLeft

(* The queries of different timers are different.                            *)
LEMMA OwnQueries ==
  ASSUME NEW i \in Timers, NEW j \in Timers, i # j
  PROVE  /\ \A v : /\ ~Touches(WriteCommand(StartQuery(i), v), StartQuery(j))
                   /\ ~Touches(WriteCommand(StartQuery(i), v), StopQuery(j))
                   /\ ~Touches(WriteCommand(StopQuery(i), v), StartQuery(j))
                   /\ ~Touches(WriteCommand(StopQuery(i), v), StopQuery(j))
         /\ ~Touches(ResetCommand(StartQuery(i), 2), StartQuery(j))
         /\ ~Touches(ResetCommand(StartQuery(i), 2), StopQuery(j))
BY DEF Touches, WriteCommand, ResetCommand, StartQuery, StopQuery, Timers

LEMMA StartIsNotStop ==
  ASSUME NEW i \in Timers
  PROVE  /\ StartQuery(i) # StopQuery(i)
         /\ \A v : /\ ~Touches(WriteCommand(StartQuery(i), v), StopQuery(i))
                   /\ ~Touches(WriteCommand(StopQuery(i), v), StartQuery(i))
BY DEF Touches, WriteCommand, StartQuery, StopQuery, Timers

(* Recording for one timer leaves the queries of the others alone.           *)
LEMMA LeftOfOthers ==
  ASSUME TInv, NEW j \in Timers, LastIsLeft(j), NEW c,
         ~Touches(c, StartQuery(j)), ~Touches(c, StopQuery(j)),
         Outstanding' = Append(Outstanding, c), UNCHANGED queries,
         phase'[j] = phase[j], measured'[j] = measured[j],
         result_fetched'[j] = result_fetched[j]
  PROVE  LastIsLeft(j)'
<1>1. Outstanding \in Seq(Commands)
  BY OutstandingType DEF TInv, TypeOK
<1>2. \A v : /\ Leaves(Outstanding, queries, StartQuery(j), v) =>
                  Leaves(Outstanding', queries', StartQuery(j), v)
             /\ Leaves(Outstanding, queries, StopQuery(j), v) =>
                  Leaves(Outstanding', queries', StopQuery(j), v)
  BY <1>1, LeavesKept
<1> QED
  BY <1>2 DEF LastIsLeft

LEMMA RecordingsAppend ==
  ASSUME TInv, NEW i \in Timers
  PROVE  /\ Reset(i) => Outstanding' = Append(Outstanding, ResetCommand(StartQuery(i), 2))
         /\ Start(i) => Outstanding' =
              Append(Outstanding, WriteCommand(StartQuery(i), measured[i] + 1))
         /\ Stop(i) => Outstanding' = Append(Outstanding, WriteCommand(StopQuery(i), measured[i]))
         /\ ResetAll => Outstanding' = Append(Outstanding, ResetCommand(0, TimerCount))
         /\ Reset(i) \/ Start(i) \/ Stop(i) =>
              \A j \in Timers : j # i =>
                /\ phase'[j] = phase[j] /\ measured'[j] = measured[j]
                /\ result_fetched'[j] = result_fetched[j]
<1>1. recorded \in Seq(Commands) /\ pending \in Seq(Commands)
  BY DEF TInv, TypeOK
<1>2. Reset(i) => Outstanding' = Append(Outstanding, ResetCommand(StartQuery(i), 2))
  BY <1>1, RecordAppends, CommandTypes DEF Reset
<1>3. Start(i) => Outstanding' =
        Append(Outstanding, WriteCommand(StartQuery(i), measured[i] + 1))
  BY <1>1, RecordAppends, CommandTypes, StartedNumber DEF Start
<1>4. Stop(i) => Outstanding' = Append(Outstanding, WriteCommand(StopQuery(i), measured[i]))
  BY <1>1, RecordAppends, CommandTypes, StartedNumber DEF Stop
<1>5. ResetAll => Outstanding' = Append(Outstanding, ResetCommand(0, TimerCount))
  BY <1>1, RecordAppends, CommandTypes DEF ResetAll
<1>6. Reset(i) \/ Start(i) \/ Stop(i) =>
        \A j \in Timers : j # i =>
          /\ phase'[j] = phase[j] /\ measured'[j] = measured[j]
          /\ result_fetched'[j] = result_fetched[j]
  BY DEF Reset, Start, Stop, TInv, TypeOK
<1> QED
  BY <1>2, <1>3, <1>4, <1>5, <1>6

LEMMA LeftRecording ==
  ASSUME LInv, NEW i \in Timers, Reset(i) \/ Start(i) \/ Stop(i)
  PROVE  Unborn' /\ \A j \in Timers : LastIsLeft(j)'
<1>1. TInv /\ Outstanding \in Seq(Commands)
  BY OutstandingType DEF LInv, TInv, TypeOK
<1>2. UNCHANGED queries /\ object' = "live"
  BY DEF Reset, Start, Stop, Record
<1>3. ASSUME NEW j \in Timers, j # i
      PROVE  LastIsLeft(j)'
  <2>1. \E c : /\ Outstanding' = Append(Outstanding, c)
               /\ ~Touches(c, StartQuery(j)) /\ ~Touches(c, StopQuery(j))
    BY <1>1, <1>3, RecordingsAppend, OwnQueries
  <2>2. LastIsLeft(j)
    BY DEF LInv
  <2>3. /\ phase'[j] = phase[j] /\ measured'[j] = measured[j]
        /\ result_fetched'[j] = result_fetched[j]
    BY <1>1, <1>3, RecordingsAppend
  <2> QED
    BY <1>1, <1>2, <2>1, <2>2, <2>3, LeftOfOthers
<1>4. CASE Reset(i)
  <2>1. phase'[i] = "reset"
    BY <1>1, <1>4 DEF Reset, TInv, TypeOK
  <2>2. LastIsLeft(i)'
    BY <2>1 DEF LastIsLeft
  <2> QED
    BY <1>2, <1>3, <2>2 DEF Unborn
<1>5. CASE Start(i)
  <2>1. phase'[i] = "started" /\ measured'[i] = measured[i] + 1
    BY <1>1, <1>5 DEF Start, TInv, TypeOK
  <2>2. Leaves(Outstanding', queries', StartQuery(i), measured[i] + 1)
    BY <1>1, <1>5, RecordingsAppend, LeavesWritten
  <2>3. LastIsLeft(i)'
    BY <2>1, <2>2 DEF LastIsLeft
  <2> QED
    BY <1>2, <1>3, <2>3 DEF Unborn
<1>6. CASE Stop(i)
  <2>1. phase[i] = "started" /\ phase'[i] = "idle" /\ measured' = measured
    BY <1>1, <1>6 DEF Stop, TInv, TypeOK
  <2>2. Outstanding' = Append(Outstanding, WriteCommand(StopQuery(i), measured[i]))
    BY <1>1, <1>6, RecordingsAppend
  <2>3. Leaves(Outstanding', queries', StopQuery(i), measured[i])
    BY <1>1, <2>2, LeavesWritten
  <2>4. Leaves(Outstanding, queries, StartQuery(i), measured[i])
    BY <2>1 DEF LInv, LastIsLeft
  <2>5. Leaves(Outstanding', queries', StartQuery(i), measured[i])
    BY <1>1, <1>2, <2>2, <2>4, LeavesKept, StartIsNotStop
  <2>6. LastIsLeft(i)'
    BY <2>1, <2>3, <2>5 DEF LastIsLeft
  <2> QED
    BY <1>2, <1>3, <2>6 DEF Unborn
<1> QED
  BY <1>4, <1>5, <1>6

LEMMA LeftExecuting ==
  ASSUME LInv, Execute
  PROVE  Unborn' /\ \A j \in Timers : LastIsLeft(j)'
<1>1. /\ Outstanding \in Seq(Commands) /\ Outstanding # <<>> /\ Outstanding' = Tail(Outstanding)
      /\ queries' = Executed(Head(Outstanding)) /\ Head(Outstanding) = Outstanding[1]
      /\ Outstanding[1] \in Commands
  BY ExecuteTakes, OutstandingType DEF LInv, TInv, TypeOK
<1>2. UNCHANGED <<object, phase, measured, result_fetched>>
  BY DEF Execute
<1>3. ASSUME NEW q \in Queries
      PROVE  /\ Touches(Outstanding[1], q) => Gives(Outstanding[1], queries'[q])
             /\ ~Touches(Outstanding[1], q) => queries'[q] = queries[q]
  BY <1>1, ExecutedGives DEF LInv, TInv, TypeOK
<1>4. ASSUME NEW q \in Queries, NEW v, Leaves(Outstanding, queries, q, v)
      PROVE  Leaves(Outstanding', queries', q, v)
  BY <1>1, <1>3, <1>4, LeavesExecuted
<1>5. ASSUME NEW j \in Timers
      PROVE  LastIsLeft(j)'
  <2>1. LastIsLeft(j) /\ StartQuery(j) \in Queries /\ StopQuery(j) \in Queries
    BY CommandTypes DEF LInv
  <2> QED
    BY <1>2, <1>4, <2>1 DEF LastIsLeft
<1>6. Unborn'
  BY <1>1, <1>2 DEF LInv, Unborn
<1> QED
  BY <1>5, <1>6

LEMMA LeftStep == LInv /\ [TimersNext]_timerVars => LInv'
<1> SUFFICES ASSUME LInv, [TimersNext]_timerVars
             PROVE  LInv'
  OBVIOUS
<1>1. TInv /\ TInv'
  BY TypeStep DEF LInv
<1>2. CASE \E i \in Timers : Reset(i) \/ Start(i) \/ Stop(i)
  BY <1>1, <1>2, LeftRecording DEF LInv
<1>3. CASE Execute
  BY <1>1, <1>3, LeftExecuting DEF LInv
<1>4. CASE ResetAll
  <2>1. object' = "live" /\ \A i \in Timers : phase'[i] = "reset"
    BY <1>4 DEF ResetAll, Record
  <2> QED
    BY <1>1, <2>1 DEF LInv, Unborn, LastIsLeft
<1>5. CASE Construct
  <2>1. /\ object' = "live" /\ object = "none"
        /\ \A i \in Timers : phase'[i] = phase[i] /\ result_fetched'[i]
    BY <1>5 DEF Construct
  <2>2. \A i \in Timers : phase[i] = "idle"
    BY <2>1 DEF LInv, Unborn
  <2> QED
    BY <1>1, <2>1, <2>2 DEF LInv, Unborn, LastIsLeft
<1>6. ASSUME NEW i \in Timers, GetResult(i)
      PROVE  LInv'
  <2>1. /\ object' = "live" /\ UNCHANGED <<queries, phase, measured, recorded, pending>>
        /\ \A j \in Timers : ~result_fetched'[j] => ~result_fetched[j]
    BY <1>1, <1>6 DEF GetResult, TInv, TypeOK
  <2>2. Outstanding' = Outstanding
    BY <2>1 DEF Outstanding
  <2> QED
    BY <1>1, <2>1, <2>2 DEF LInv, Unborn, LastIsLeft
<1>7. CASE Submit
  <2>1. Outstanding' = Outstanding /\ UNCHANGED <<object, queries, result_fetched, phase, measured>>
    BY <1>1, <1>7, SubmitKeeps DEF Submit, TInv, TypeOK
  <2> QED
    BY <1>1, <2>1 DEF LInv, Unborn, LastIsLeft
<1>8. CASE Destroy \/ Destroyed \/ UNCHANGED timerVars
  <2>1. UNCHANGED <<queries, result_fetched, phase, measured, recorded, pending>>
        /\ (object' = "none" => object = "none")
    BY <1>8 DEF Destroy, Destroyed, timerVars
  <2>2. Outstanding' = Outstanding
    BY <2>1 DEF Outstanding
  <2> QED
    BY <1>1, <2>1, <2>2 DEF LInv, Unborn, LastIsLeft
<1> QED
  BY <1>2, <1>3, <1>4, <1>5, <1>6, <1>7, <1>8 DEF TimersNext

(* A result nobody fetched is there once the device has caught up with the   *)
(* timer, unless a reset came after it.                                      *)
THEOREM UnfetchedResultsAreThere == TimersSpec => []UnfetchedIsThere
<1>1. LInv => UnfetchedIsThere
  <2> SUFFICES ASSUME LInv, NEW i \in Timers, ~result_fetched[i], phase[i] = "idle",
                      \A n \in DOMAIN Outstanding : ~TouchesQueries(i, Outstanding[n])
               PROVE  PairOf(i) = {measured[i]}
    BY DEF UnfetchedIsThere
  <2>1. LastIsLeft(i)
    BY DEF LInv
  <2>2. \A n \in DOMAIN Outstanding :
          ~Touches(Outstanding[n], StartQuery(i)) /\ ~Touches(Outstanding[n], StopQuery(i))
    BY DEF TouchesQueries, Touches
  <2> QED
    BY <2>1, <2>2 DEF LastIsLeft, Leaves, PairOf
<1> QED
  BY <1>1, LeftStarts, LeftStep, PTL DEF TimersSpec

-----------------------------------------------------------------------------
(* What a command meets in the query pool.                                   *)

(* When the device comes to the n-th command, q is v.                        *)
Meets(commands, pool, n, q, v) == Leaves(SubSeq(commands, 1, n - 1), pool, q, v)

LEMMA CommandPrefixes ==
  ASSUME NEW s \in Seq(Commands)
  PROVE  /\ \A c \in Commands, n \in 1 .. Len(s) + 1 :
              SubSeq(Append(s, c), 1, n - 1) = SubSeq(s, 1, n - 1)
         /\ SubSeq(s, 1, Len(s)) = s /\ SubSeq(s, 1, 0) = <<>>
         /\ \A n \in 1 .. Len(s) - 1 :
              /\ SubSeq(s, 1, n) \in Seq(Commands) /\ SubSeq(s, 1, n) # <<>>
              /\ SubSeq(s, 1, n)[1] = s[1]
              /\ Tail(SubSeq(s, 1, n)) = SubSeq(Tail(s), 1, n - 1)
<1>1. ASSUME NEW c \in Commands, NEW n \in 1 .. Len(s) + 1
      PROVE  SubSeq(Append(s, c), 1, n - 1) = SubSeq(s, 1, n - 1)
  OBVIOUS
<1>2. SubSeq(s, 1, Len(s)) = s /\ SubSeq(s, 1, 0) = <<>>
  OBVIOUS
<1>3. ASSUME NEW n \in 1 .. Len(s) - 1
      PROVE  /\ SubSeq(s, 1, n) \in Seq(Commands) /\ SubSeq(s, 1, n) # <<>>
             /\ SubSeq(s, 1, n)[1] = s[1]
             /\ Tail(SubSeq(s, 1, n)) = SubSeq(Tail(s), 1, n - 1)
  OBVIOUS
<1> QED
  BY <1>1, <1>2, <1>3

LEMMA MeetsAppended ==
  ASSUME NEW s \in Seq(Commands), NEW pool, NEW c \in Commands, NEW q, NEW v
  PROVE  /\ \A n \in DOMAIN s : Meets(Append(s, c), pool, n, q, v) <=> Meets(s, pool, n, q, v)
         /\ Meets(Append(s, c), pool, Len(s) + 1, q, v) <=> Leaves(s, pool, q, v)
<1>1. ASSUME NEW n \in 1 .. Len(s) + 1
      PROVE  SubSeq(Append(s, c), 1, n - 1) = SubSeq(s, 1, n - 1)
  BY CommandPrefixes
<1>2. (Len(s) + 1) - 1 = Len(s) /\ SubSeq(s, 1, Len(s)) = s /\ Len(s) + 1 \in 1 .. Len(s) + 1
  BY CommandPrefixes
<1>3. SubSeq(Append(s, c), 1, (Len(s) + 1) - 1) = s
  BY <1>1, <1>2
<1>4. \A n \in DOMAIN s : n \in 1 .. Len(s) + 1
  OBVIOUS
<1>5. \A n \in DOMAIN s : SubSeq(Append(s, c), 1, n - 1) = SubSeq(s, 1, n - 1)
  BY <1>1, <1>4
<1> QED
  BY <1>3, <1>5 DEF Meets

LEMMA MeetsExecuted ==
  ASSUME NEW s \in Seq(Commands), NEW pool, NEW q, NEW v, NEW after,
         NEW n \in DOMAIN Tail(s), s # <<>>,
         Touches(s[1], q) => Gives(s[1], after[q]),
         ~Touches(s[1], q) => after[q] = pool[q],
         Meets(s, pool, n + 1, q, v)
  PROVE  Meets(Tail(s), after, n, q, v)
<1> DEFINE p == SubSeq(s, 1, n)
<1>1. n \in 1 .. Len(s) - 1
  OBVIOUS
<1>2. p \in Seq(Commands) /\ p # <<>> /\ p[1] = s[1] /\ Tail(p) = SubSeq(Tail(s), 1, n - 1)
  BY <1>1, CommandPrefixes
<1>3. Leaves(p, pool, q, v)
  BY <1>1 DEF Meets
<1> HIDE DEF p
<1>4. Leaves(Tail(p), after, q, v)
  BY <1>2, <1>3, LeavesExecuted
<1> QED
  BY <1>2, <1>4 DEF Meets

LEMMA MeetsFirst ==
  ASSUME NEW s \in Seq(Commands), s # <<>>, NEW pool, NEW q, NEW v, Meets(s, pool, 1, q, v)
  PROVE  pool[q] = v
BY CommandPrefixes DEF Meets, Leaves

-----------------------------------------------------------------------------
(* A result is the start and the stop of one measurement.                    *)

Starts(c, i) == c.op = "write" /\ c.query = StartQuery(i)
Stops(c, i)  == c.op = "write" /\ c.query = StopQuery(i)

(* A start meets a stop query that was reset, a stop the start of its own    *)
(* measurement, and a reset takes both queries of a timer or none.           *)
InOrder(commands, pool, i) ==
  \A n \in DOMAIN commands :
    /\ Starts(commands[n], i) => Meets(commands, pool, n, StopQuery(i), Unavailable)
    /\ Stops(commands[n], i) => Meets(commands, pool, n, StartQuery(i), commands[n].value)
    /\ commands[n].op = "reset" =>
         (Touches(commands[n], StartQuery(i)) <=> Touches(commands[n], StopQuery(i)))

Paired(pool, i) ==
  pool[StartQuery(i)] \in Measurements /\ pool[StopQuery(i)] \in Measurements =>
    pool[StartQuery(i)] = pool[StopQuery(i)]

ResetIsLeft(i) ==
  phase[i] = "reset" => Leaves(Outstanding, queries, StopQuery(i), Unavailable)

MInv ==
  /\ LInv
  /\ \A i \in Timers :
       Covered(i) => /\ InOrder(Outstanding, queries, i)
                     /\ Paired(queries, i)
                     /\ ResetIsLeft(i)

LEMMA OrderStarts == TimersInit => MInv
<1> SUFFICES ASSUME TimersInit
             PROVE  MInv
  OBVIOUS
<1>1. LInv /\ Outstanding = <<>>
  BY LeftStarts DEF TimersInit, Outstanding
<1>2. \A i \in Timers : phase[i] = "idle" /\ queries[StartQuery(i)] = NeverReset
  BY CommandTypes DEF TimersInit
<1>3. NeverReset \notin Measurements
  BY TimerAssumption DEF NeverReset, Measurements
<1> QED
  BY <1>1, <1>2, <1>3 DEF MInv, InOrder, Paired, ResetIsLeft

LEMMA OrderAppended ==
  ASSUME NEW s \in Seq(Commands), NEW pool, NEW c \in Commands, NEW i \in Timers,
         InOrder(s, pool, i),
         Starts(c, i) => Leaves(s, pool, StopQuery(i), Unavailable),
         Stops(c, i) => Leaves(s, pool, StartQuery(i), c.value),
         c.op = "reset" => (Touches(c, StartQuery(i)) <=> Touches(c, StopQuery(i)))
  PROVE  InOrder(Append(s, c), pool, i)
<1> DEFINE t == Append(s, c)
<1>1. /\ DOMAIN t = DOMAIN s \union {Len(s) + 1} /\ t[Len(s) + 1] = c
      /\ \A n \in DOMAIN s : t[n] = s[n]
  BY Appending
<1>2. \A q, v : /\ \A n \in DOMAIN s : Meets(t, pool, n, q, v) <=> Meets(s, pool, n, q, v)
                /\ Meets(t, pool, Len(s) + 1, q, v) <=> Leaves(s, pool, q, v)
  BY MeetsAppended
<1> HIDE DEF t
<1>3. InOrder(t, pool, i)
  BY <1>1, <1>2 DEF InOrder
<1> QED
  BY <1>3 DEF t

LEMMA OrderRecorded ==
  ASSUME MInv, NEW i \in Timers, Covered(i),
         Reset(i) \/ ResetAll \/ Start(i) \/ Stop(i)
  PROVE  InOrder(Outstanding', queries, i) /\ ResetIsLeft(i)'
<1>1. /\ TInv /\ Outstanding \in Seq(Commands)
      /\ InOrder(Outstanding, queries, i) /\ ResetIsLeft(i) /\ LastIsLeft(i)
  BY OutstandingType DEF MInv, LInv, TInv, TypeOK
<1>2. UNCHANGED queries
  BY DEF Reset, ResetAll, Start, Stop
<1>3. CASE Reset(i) \/ ResetAll
  <2>1. PICK c \in Commands : /\ c.op = "reset" /\ Outstanding' = Append(Outstanding, c)
                              /\ Touches(c, StartQuery(i)) /\ Touches(c, StopQuery(i))
    <3>1. CASE Reset(i)
      <4>1. LET c == ResetCommand(StartQuery(i), 2)
            IN c.op = "reset" /\ Touches(c, StartQuery(i)) /\ Touches(c, StopQuery(i))
        BY DEF ResetCommand, Touches, StartQuery, StopQuery, Timers
      <4> QED
        BY <1>1, <3>1, <4>1, RecordingsAppend, CommandTypes
    <3>2. CASE ResetAll
      <4>1. StopQuery(i) < TimerCount
        BY <3>2 DEF ResetAll, Covered
      <4>2. LET c == ResetCommand(0, TimerCount)
            IN c.op = "reset" /\ Touches(c, StartQuery(i)) /\ Touches(c, StopQuery(i))
        BY <4>1, TimerAssumption DEF ResetCommand, Touches, StartQuery, StopQuery, Timers
      <4> QED
        BY <1>1, <3>2, <4>2, RecordingsAppend, CommandTypes
    <3> QED
      BY <1>3, <3>1, <3>2
  <2>2. InOrder(Outstanding', queries, i)
    BY <1>1, <2>1, OrderAppended DEF Starts, Stops
  <2>3. Gives(c, Unavailable)
    BY <2>1 DEF Gives
  <2>4. Leaves(Outstanding', queries', StopQuery(i), Unavailable)
    BY <1>1, <2>1, <2>3, LeavesGiven
  <2> QED
    BY <2>2, <2>4 DEF ResetIsLeft
<1>4. CASE Start(i)
  <2> DEFINE c == WriteCommand(StartQuery(i), measured[i] + 1)
  <2>1. phase[i] = "reset" /\ phase'[i] = "started"
    BY <1>1, <1>4 DEF Start, TInv, TypeOK
  <2>2. c \in Commands /\ Outstanding' = Append(Outstanding, c)
    BY <1>1, <1>4, RecordingsAppend, CommandTypes, StartedNumber
  <2>3. c.op = "write" /\ ~Stops(c, i)
    BY StartIsNotStop DEF WriteCommand, Stops
  <2>4. Leaves(Outstanding, queries, StopQuery(i), Unavailable)
    BY <1>1, <2>1 DEF ResetIsLeft
  <2> HIDE DEF c
  <2>5. InOrder(Outstanding', queries, i)
    BY <1>1, <2>2, <2>3, <2>4, OrderAppended
  <2> QED
    BY <2>1, <2>5 DEF ResetIsLeft
<1>5. CASE Stop(i)
  <2> DEFINE c == WriteCommand(StopQuery(i), measured[i])
  <2>1. phase[i] = "started" /\ phase'[i] = "idle"
    BY <1>1, <1>5 DEF Stop, TInv, TypeOK
  <2>2. c \in Commands /\ Outstanding' = Append(Outstanding, c)
    BY <1>1, <1>5, RecordingsAppend, CommandTypes, StartedNumber
  <2>3. c.op = "write" /\ ~Starts(c, i) /\ c.value = measured[i]
    BY StartIsNotStop DEF WriteCommand, Starts
  <2>4. Leaves(Outstanding, queries, StartQuery(i), measured[i])
    BY <1>1, <2>1 DEF LastIsLeft
  <2> HIDE DEF c
  <2>5. InOrder(Outstanding', queries, i)
    BY <1>1, <2>2, <2>3, <2>4, OrderAppended
  <2> QED
    BY <2>1, <2>5 DEF ResetIsLeft
<1> QED
  BY <1>3, <1>4, <1>5

LEMMA OrderOfOthers ==
  ASSUME MInv, NEW i \in Timers, NEW j \in Timers, i # j, Covered(j),
         Reset(i) \/ Start(i) \/ Stop(i)
  PROVE  InOrder(Outstanding', queries, j) /\ ResetIsLeft(j)'
<1>1. /\ TInv /\ Outstanding \in Seq(Commands)
      /\ InOrder(Outstanding, queries, j) /\ ResetIsLeft(j)
  BY OutstandingType DEF MInv, LInv, TInv, TypeOK
<1>2. queries' = queries /\ phase'[j] = phase[j]
  BY <1>1, RecordingsAppend DEF Reset, Start, Stop
<1>3. PICK c \in Commands : /\ Outstanding' = Append(Outstanding, c)
                            /\ ~Touches(c, StartQuery(j)) /\ ~Touches(c, StopQuery(j))
  BY <1>1, RecordingsAppend, CommandTypes, StartedNumber, OwnQueries
<1>4. ~Starts(c, j) /\ ~Stops(c, j)
  BY <1>3 DEF Starts, Stops, Touches
<1>5. InOrder(Outstanding', queries, j)
  BY <1>1, <1>3, <1>4, OrderAppended
<1>6. Leaves(Outstanding, queries, StopQuery(j), Unavailable) =>
        Leaves(Outstanding', queries', StopQuery(j), Unavailable)
  BY <1>1, <1>2, <1>3, LeavesKept
<1> QED
  BY <1>1, <1>2, <1>5, <1>6 DEF ResetIsLeft

LEMMA OrderExecuted ==
  ASSUME MInv, Execute, NEW i \in Timers, Covered(i)
  PROVE  InOrder(Outstanding', queries', i) /\ Paired(queries', i) /\ ResetIsLeft(i)'
<1> DEFINE s == Outstanding
           c == Outstanding[1]
<1>1. /\ s \in Seq(Commands) /\ s # <<>> /\ Outstanding' = Tail(s) /\ c \in Commands
      /\ queries' = Executed(c) /\ phase' = phase
  BY ExecuteTakes, OutstandingType DEF MInv, LInv, TInv, TypeOK, Execute
<1>2. InOrder(s, queries, i) /\ Paired(queries, i) /\ ResetIsLeft(i)
  BY DEF MInv
<1>3. StartQuery(i) \in Queries /\ StopQuery(i) \in Queries
  BY CommandTypes
<1>4. ASSUME NEW q \in Queries
      PROVE  /\ Touches(c, q) => Gives(c, queries'[q])
             /\ ~Touches(c, q) => queries'[q] = queries[q]
  BY <1>1, ExecutedGives DEF MInv, LInv, TInv, TypeOK
<1>5. /\ 1 \in DOMAIN s
      /\ \A n \in DOMAIN Tail(s) : n \in Nat \ {0} /\ n + 1 \in DOMAIN s /\ Tail(s)[n] = s[n + 1]
  BY <1>1, Taking
<1> HIDE DEF s
<1>6. InOrder(Tail(s), queries', i)
  <2>1. ASSUME NEW n \in DOMAIN Tail(s), NEW q \in Queries, NEW v,
               Meets(s, queries, n + 1, q, v)
        PROVE  Meets(Tail(s), queries', n, q, v)
    BY <1>1, <1>4, <2>1, MeetsExecuted DEF s
  <2> QED
    BY <1>2, <1>3, <1>5, <2>1 DEF InOrder
<1>7. Paired(queries', i)
  <2>1. CASE Starts(c, i)
    <3>1. Meets(s, queries, 1, StopQuery(i), Unavailable)
      BY <1>2, <1>5, <2>1 DEF InOrder, s
    <3>2. queries[StopQuery(i)] = Unavailable
      BY <1>1, <3>1, MeetsFirst
    <3>3. queries'[StopQuery(i)] = Unavailable
      BY <1>3, <1>4, <2>1, <3>2, StartIsNotStop DEF Touches, Starts
    <3> QED
      BY <3>3 DEF Paired, Unavailable, Measurements
  <2>2. CASE Stops(c, i)
    <3>1. Meets(s, queries, 1, StartQuery(i), c.value)
      BY <1>2, <1>5, <2>2 DEF InOrder, s
    <3>2. queries[StartQuery(i)] = c.value
      BY <1>1, <3>1, MeetsFirst
    <3>3. queries'[StartQuery(i)] = c.value /\ queries'[StopQuery(i)] = c.value
      BY <1>3, <1>4, <2>2, <3>2, StartIsNotStop DEF Touches, Stops, Gives
    <3> QED
      BY <3>3 DEF Paired
  <2>3. CASE c.op = "reset"
    <3>1. Touches(c, StartQuery(i)) <=> Touches(c, StopQuery(i))
      BY <1>2, <1>5, <2>3 DEF InOrder, s
    <3>2. CASE Touches(c, StartQuery(i))
      <4>1. queries'[StopQuery(i)] = Unavailable
        BY <1>3, <1>4, <2>3, <3>1, <3>2 DEF Gives
      <4> QED
        BY <4>1 DEF Paired, Unavailable, Measurements
    <3>3. CASE ~Touches(c, StartQuery(i))
      BY <1>2, <1>3, <1>4, <3>1, <3>3 DEF Paired
    <3> QED
      BY <3>2, <3>3
  <2>4. CASE c.op = "write" /\ ~Starts(c, i) /\ ~Stops(c, i)
    <3>1. ~Touches(c, StartQuery(i)) /\ ~Touches(c, StopQuery(i))
      BY <2>4 DEF Starts, Stops, Touches
    <3> QED
      BY <1>2, <1>3, <1>4, <3>1 DEF Paired
  <2> QED
    BY <1>1, <2>1, <2>2, <2>3, <2>4 DEF Commands
<1>8. Leaves(s, queries, StopQuery(i), Unavailable) =>
        Leaves(Tail(s), queries', StopQuery(i), Unavailable)
  BY <1>1, <1>3, <1>4, LeavesExecuted DEF s
<1> QED
  BY <1>1, <1>2, <1>6, <1>7, <1>8 DEF ResetIsLeft, s

LEMMA OrderStep == MInv /\ [TimersNext]_timerVars => MInv'
<1> SUFFICES ASSUME MInv, [TimersNext]_timerVars
             PROVE  MInv'
  OBVIOUS
<1>1. LInv /\ LInv' /\ TInv
  BY LeftStep DEF MInv, LInv
<1>2. ASSUME NEW i \in Timers
      PROVE  Covered(i)' <=> Covered(i)
  BY DEF Covered, TimersNext, timerVars, Construct, Reset, ResetAll, Start, Stop, GetResult, Submit,
         Execute, Destroy, Destroyed
<1>3. CASE \E i \in Timers : Reset(i) \/ Start(i) \/ Stop(i)
  <2>1. UNCHANGED queries
    BY <1>3 DEF Reset, Start, Stop
  <2>2. ASSUME NEW j \in Timers, Covered(j)
        PROVE  InOrder(Outstanding', queries, j) /\ ResetIsLeft(j)'
    BY <1>3, <2>2, OrderRecorded, OrderOfOthers
  <2> QED
    BY <1>1, <1>2, <2>1, <2>2 DEF MInv, Paired
<1>4. CASE ResetAll
  <2>1. UNCHANGED queries
    BY <1>4 DEF ResetAll
  <2> QED
    BY <1>1, <1>2, <1>4, <2>1, OrderRecorded DEF MInv, Paired
<1>5. CASE Execute
  BY <1>1, <1>2, <1>5, OrderExecuted DEF MInv
<1>6. CASE Construct
  <2>1. /\ Outstanding = <<>> /\ UNCHANGED <<recorded, pending, phase>>
        /\ queries' = [q \in Queries |-> NeverReset] /\ \A i \in Timers : phase[i] = "idle"
    BY <1>1, <1>6 DEF Construct, LInv, Unborn
  <2>2. Outstanding' = <<>>
    BY <2>1 DEF Outstanding
  <2>3. \A i \in Timers : queries'[StartQuery(i)] \notin Measurements
    BY <2>1, CommandTypes, TimerAssumption DEF NeverReset, Measurements
  <2> QED
    BY <1>1, <1>2, <2>1, <2>2, <2>3 DEF MInv, InOrder, Paired, ResetIsLeft
<1>7. CASE Submit \/ Destroy \/ Destroyed \/ UNCHANGED timerVars \/ \E i \in Timers : GetResult(i)
  <2>1. UNCHANGED <<queries, phase>>
    BY <1>7 DEF Submit, Destroy, Destroyed, GetResult, timerVars
  <2>2. Outstanding' = Outstanding
    <3>1. CASE Submit
      BY <1>1, <3>1, SubmitKeeps DEF TInv, TypeOK
    <3>2. CASE UNCHANGED <<recorded, pending>>
      BY <3>2 DEF Outstanding
    <3> QED
      BY <1>7, <3>1, <3>2 DEF Destroy, Destroyed, GetResult, timerVars
  <2> QED
    BY <1>1, <1>2, <2>1, <2>2 DEF MInv, Paired, ResetIsLeft
<1> QED
  BY <1>3, <1>4, <1>5, <1>6, <1>7 DEF TimersNext

(* However far the device is behind the recording, a call of get_result      *)
(* never mixes two measurements of a timer whose queries are reset.          *)
THEOREM ResultsAreOneMeasurement == TimersSpec => []OneMeasurement
<1>1. MInv => OneMeasurement
  BY DEF MInv, OneMeasurement, Paired, Available, PairOf
<1> QED
  BY <1>1, OrderStarts, OrderStep, PTL DEF TimersSpec

-----------------------------------------------------------------------------
(* The keys that were pressed and released.                                  *)

LEMMA PressTellsTheChange ==
  ASSUME EdgesTellTheChange, NEW key, press_key(key), UNCHANGED down_before
  PROVE  EdgesTellTheChange'
BY DEF EdgesTellTheChange, press_key

(* A release without a press is not told; one of a key that is down is.      *)
LEMMA ReleaseTellsTheChange ==
  ASSUME EdgesTellTheChange, NEW key, release_key(key), UNCHANGED down_before
  PROVE  EdgesTellTheChange'
BY DEF EdgesTellTheChange, release_key

(* What a frame reports as pressed and released (EventHandler::begin_frame,  *)
(* press_key, release_key, release_all_keys) tells how the keys changed.     *)
THEOREM EdgesAreTold == EventsSpec => []EdgesTellTheChange
<1>1. EventsInit => EdgesTellTheChange
  BY DEF EventsInit, EdgesTellTheChange
<1>2. EdgesTellTheChange /\ [EventsNext]_eventVars => EdgesTellTheChange'
  <2> SUFFICES ASSUME EdgesTellTheChange, [EventsNext]_eventVars
               PROVE  EdgesTellTheChange'
    OBVIOUS
  <2>1. ASSUME Ignore, UNCHANGED down_before
        PROVE  EdgesTellTheChange'
    BY <2>1 DEF EdgesTellTheChange, Ignore
  <2>2. CASE BeginFrame
    BY <2>2 DEF BeginFrame, EdgesTellTheChange
  <2>3. CASE KeyDown
    BY <2>1, <2>3, PressTellsTheChange DEF KeyDown
  <2>4. CASE KeyUp
    BY <2>1, <2>4, ReleaseTellsTheChange DEF KeyUp
  <2>5. CASE ButtonDown
    BY <2>1, <2>5, PressTellsTheChange DEF ButtonDown
  <2>6. CASE ButtonUp
    BY <2>6, ReleaseTellsTheChange DEF ButtonUp
  <2>7. CASE FocusLost
    BY <2>7 DEF FocusLost, ReleaseDown, EdgesTellTheChange
  <2>8. CASE MouseMotion \/ MouseWheel \/ UNCHANGED eventVars
    BY <2>8 DEF MouseMotion, MouseWheel, eventVars, EdgesTellTheChange
  <2> QED
    BY <2>2, <2>3, <2>4, <2>5, <2>6, <2>7, <2>8 DEF EventsNext
<1> QED
  BY <1>1, <1>2, PTL DEF EventsSpec

-----------------------------------------------------------------------------
(* The keys that are down.                                                   *)

(* What counts as the press of a key holds it down.                          *)
LEMMA PressFollows ==
  ASSUME KeysFollowTheirPress, UNCHANGED key_remap,
         NEW source \in Codes \union Buttons, NEW key,
         \A k \in Keys : source \in Sources(k) <=> key_remap[key] = k,
         press_key(key), held' = held \union {source}
  PROVE  KeysFollowTheirPress'
<1>1. \A k \in Keys : Sources(k)' = Sources(k)
  BY DEF Sources, Known, KeyOf
<1> QED
  BY <1>1 DEF KeysFollowTheirPress, press_key

LEMMA ReleaseFollows ==
  ASSUME KeysFollowTheirPress, UNCHANGED key_remap,
         NEW source \in Codes \union Buttons, NEW key,
         \A k \in Keys : source \in Sources(k) <=> key_remap[key] = k,
         release_key(key), held' = held \ {source}
  PROVE  KeysFollowTheirPress'
<1>1. \A k \in Keys : Sources(k)' = Sources(k)
  BY DEF Sources, Known, KeyOf
<1> QED
  BY <1>1 DEF KeysFollowTheirPress, release_key

(* The release of what stands for no key.                                    *)
LEMMA IgnoreFollows ==
  ASSUME KeysFollowTheirPress, UNCHANGED key_remap,
         NEW source, \A k \in Keys : source \notin Sources(k),
         Ignore, held' = held \/ held' = held \ {source}
  PROVE  KeysFollowTheirPress'
<1>1. \A k \in Keys : Sources(k)' = Sources(k)
  BY DEF Sources, Known, KeyOf
<1> QED
  BY <1>1 DEF KeysFollowTheirPress, Ignore

LEMMA CodeStandsFor ==
  ASSUME NEW code \in Codes, NEW k \in Keys
  PROVE  code \in Sources(k) <=> Known(code) /\ key_remap[KeyOf(code)] = k
BY KeysAssumption DEF Sources

LEMMA ButtonStandsFor ==
  ASSUME NEW button \in Buttons, NEW k \in Keys
  PROVE  button \in Sources(k) <=> key_remap[button] = k
BY KeysAssumption DEF Sources

(* EventHandler::dispatch_event: no key stays down, because a release counts *)
(* also when ImGui takes the keyboard and losing the focus releases all.     *)
THEOREM KeysAreHeld == EventsSpec => []KeysFollowTheirPress
<1>1. EventsInit => KeysFollowTheirPress
  BY DEF EventsInit, KeysFollowTheirPress
<1>2. KeysFollowTheirPress /\ [EventsNext]_eventVars => KeysFollowTheirPress'
  <2> SUFFICES ASSUME KeysFollowTheirPress, [EventsNext]_eventVars
               PROVE  KeysFollowTheirPress'
    OBVIOUS
  <2>1. ASSUME UNCHANGED <<down_keys, key_remap, held>>
        PROVE  KeysFollowTheirPress'
    BY <2>1 DEF KeysFollowTheirPress, Sources, Known, KeyOf
  <2>2. CASE KeyDown
    <3> PICK code \in Codes, repeat \in BOOLEAN, captured \in BOOLEAN :
          /\ IF Counts(code, repeat, captured) THEN press_key(KeyOf(code)) ELSE Ignore
          /\ held' = IF repeat \/ captured \/ ~Known(code) THEN held ELSE held \union {code}
          /\ UNCHANGED key_remap
      BY <2>2 DEF KeyDown
    <3>1. CASE Counts(code, repeat, captured)
      BY <3>1, PressFollows, CodeStandsFor DEF Counts
    <3>2. CASE ~Counts(code, repeat, captured)
      BY <2>1, <3>2 DEF Counts, Ignore
    <3> QED
      BY <3>1, <3>2
  <2>3. CASE KeyUp
    <3> PICK code \in Codes :
          /\ IF Known(code) THEN release_key(KeyOf(code)) ELSE Ignore
          /\ held' = held \ {code}
          /\ UNCHANGED key_remap
      BY <2>3 DEF KeyUp
    <3>1. CASE Known(code)
      BY <3>1, ReleaseFollows, CodeStandsFor
    <3>2. CASE ~Known(code)
      BY <3>2, IgnoreFollows, CodeStandsFor
    <3> QED
      BY <3>1, <3>2
  <2>4. CASE ButtonDown
    <3> PICK button \in Buttons, captured \in BOOLEAN :
          /\ IF captured THEN Ignore ELSE press_key(button)
          /\ held' = IF captured THEN held ELSE held \union {button}
          /\ UNCHANGED key_remap
      BY <2>4 DEF ButtonDown
    <3>1. CASE captured
      BY <2>1, <3>1 DEF Ignore
    <3>2. CASE ~captured
      BY <3>2, PressFollows, ButtonStandsFor
    <3> QED
      BY <3>1, <3>2
  <2>5. CASE ButtonUp
    <3> PICK button \in Buttons :
          release_key(button) /\ held' = held \ {button} /\ UNCHANGED key_remap
      BY <2>5 DEF ButtonUp
    <3> QED
      BY ReleaseFollows, ButtonStandsFor
  <2>6. CASE FocusLost
    BY <2>6 DEF FocusLost, KeysFollowTheirPress
  <2>7. CASE BeginFrame \/ MouseMotion \/ MouseWheel \/ UNCHANGED eventVars
    BY <2>1, <2>7 DEF BeginFrame, MouseMotion, MouseWheel, eventVars
  <2> QED
    BY <2>2, <2>3, <2>4, <2>5, <2>6, <2>7 DEF EventsNext
<1> QED
  BY <1>1, <1>2, PTL DEF EventsSpec
=============================================================================
