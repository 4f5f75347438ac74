---------------------------- MODULE DeviceTimer ----------------------------
(***************************************************************************)
(* DeviceTimer (src/src/vkte/device_timer.cpp, device_timer.hpp): timers   *)
(* of two timestamp queries each, reset, started and stopped by commands   *)
(* the application records, and read by the host whenever it likes.        *)
(* result_fetched changes when stop is recorded and when the host reads,   *)
(* the queries change when the device executes: the two run apart by       *)
(* everything that is recorded or submitted and not executed yet.          *)
(*                                                                         *)
(* A timestamp is the number of the measurement of its timer that wrote    *)
(* it.  The application is assumed to reset a timer before it starts it,   *)
(* to start it before it stops it, and to destroy the object only when no  *)
(* recorded command names it.                                              *)
(***************************************************************************)
EXTENDS Naturals, Sequences

CONSTANTS TimerCount,       \* timer_count of add_device_timer
          MaxMeasurements,  \* bound: measurements of one timer
          MaxOutstanding    \* bound: commands recorded and not executed

ASSUME TimerAssumption ==
    /\ TimerCount \in Nat \ {0}
    /\ MaxMeasurements \in Nat
    /\ MaxOutstanding \in Nat

Timers  == 0 .. (TimerCount - 1)
Queries == 0 .. (2 * TimerCount - 1)

StartQuery(i) == 2 * i
StopQuery(i)  == 2 * i + 1

Unavailable == 0
NeverReset   == MaxMeasurements + 1   \* a query of a new pool, never reset
Measurements == 1 .. MaxMeasurements

VARIABLES
    object,          \* "none", "live" or "destroyed"
    queries,         \* the query pool: what each query holds
    result_fetched,  \* per timer, as in the class
    phase,           \* per timer, what was recorded last for it
    measured,        \* per timer, the measurements started so far
    returned,        \* per timer, the measurement returned last, 0 for none
    recorded,        \* the commands of the open command buffer
    pending,         \* the submitted commands the device has not executed
    bulk             \* whether the application resets with reset_all

timerVars == <<object, queries, result_fetched, phase, measured, returned,
          recorded, pending, bulk>>

Commands ==
    [op : {"reset"}, first : Queries, count : 0 .. 2 * TimerCount]
        \cup [op : {"write"}, query : Queries, value : Measurements]

TimersInit ==
    /\ object = "none"
    /\ queries = [q \in Queries |-> NeverReset]
    /\ result_fetched = [i \in Timers |-> TRUE]
    /\ phase = [i \in Timers |-> "idle"]
    /\ measured = [i \in Timers |-> 0]
    /\ returned = [i \in Timers |-> 0]
    /\ recorded = <<>>
    /\ pending = <<>>
    /\ bulk \in BOOLEAN

Outstanding == pending \o recorded

\* The constructor: a new query pool, and nothing to fetch.
Construct ==
    /\ object = "none"
    /\ object' = "live"
    /\ result_fetched' = [i \in Timers |-> TRUE]
    /\ queries' = [q \in Queries |-> NeverReset]
    /\ UNCHANGED <<phase, measured, returned, recorded, pending, bulk>>

----------------------------------------------------------------------------
(* Recording.                                                              *)

Record(command) ==
    /\ object = "live"
    /\ Len(Outstanding) < MaxOutstanding
    /\ recorded' = Append(recorded, command)

ResetCommand(first, count) ==
    [op |-> "reset", first |-> first, count |-> count]

WriteCommand(query, value) ==
    [op |-> "write", query |-> query, value |-> value]

\* Mutant: reset resets the start query only.
ResetStartOnly(i) ==
    /\ ~bulk
    /\ phase[i] = "idle"
    /\ Record(ResetCommand(StartQuery(i), 1))
    /\ phase' = [phase EXCEPT ![i] = "reset"]
    /\ UNCHANGED <<object, queries, result_fetched, measured, returned,
                   pending, bulk>>

Reset(i) ==
    /\ ~bulk
    /\ phase[i] = "idle"
    /\ Record(ResetCommand(StartQuery(i), 2))
    /\ phase' = [phase EXCEPT ![i] = "reset"]
    /\ UNCHANGED <<object, queries, result_fetched, measured, returned,
                   pending, bulk>>

\* reset_all resets as many queries as there are timers: half of the pool.
ResetAll ==
    /\ bulk
    /\ \A i \in Timers : phase[i] # "started"
    /\ \E i \in Timers : phase[i] = "idle"
    /\ Record(ResetCommand(0, TimerCount))
    /\ phase' = [i \in Timers |-> "reset"]
    /\ UNCHANGED <<object, queries, result_fetched, measured, returned,
                   pending, bulk>>

Start(i) ==
    /\ phase[i] = "reset"
    /\ measured[i] < MaxMeasurements
    /\ Record(WriteCommand(StartQuery(i), measured[i] + 1))
    /\ measured' = [measured EXCEPT ![i] = @ + 1]
    /\ phase' = [phase EXCEPT ![i] = "started"]
    /\ UNCHANGED <<object, queries, result_fetched, returned, pending, bulk>>

\* Mutant: stop writes the start query.
StopWritesStart(i) ==
    /\ phase[i] = "started"
    /\ Record(WriteCommand(StartQuery(i), measured[i]))
    /\ result_fetched' = [result_fetched EXCEPT ![i] = FALSE]
    /\ phase' = [phase EXCEPT ![i] = "idle"]
    /\ UNCHANGED <<object, queries, measured, returned, pending, bulk>>

Stop(i) ==
    /\ phase[i] = "started"
    /\ Record(WriteCommand(StopQuery(i), measured[i]))
    /\ result_fetched' = [result_fetched EXCEPT ![i] = FALSE]
    /\ phase' = [phase EXCEPT ![i] = "idle"]
    /\ UNCHANGED <<object, queries, measured, returned, pending, bulk>>

----------------------------------------------------------------------------
(* The device: the commands run in the order of their submission.          *)

Submit ==
    /\ recorded # <<>>
    /\ pending' = pending \o recorded
    /\ recorded' = <<>>
    /\ UNCHANGED <<object, queries, result_fetched, phase, measured,
                   returned, bulk>>

Executed(command) ==
    IF command.op = "write"
    THEN [queries EXCEPT ![command.query] = command.value]
    ELSE [q \in Queries |->
            IF q \in command.first .. (command.first + command.count - 1)
            THEN Unavailable
            ELSE queries[q]]

Execute ==
    /\ pending # <<>>
    /\ queries' = Executed(Head(pending))
    /\ pending' = Tail(pending)
    /\ UNCHANGED <<object, result_fetched, phase, measured, returned,
                   recorded, bulk>>

----------------------------------------------------------------------------
(* get_result.                                                             *)

PairOf(i) == {queries[StartQuery(i)], queries[StopQuery(i)]}

Available(i) == PairOf(i) \subseteq Measurements

\* What the call hands out: nothing new when the queries are not available,
\* and whatever the driver makes of it when a query was never reset.
Results(i) ==
    IF Available(i) THEN {queries[StopQuery(i)]}
    ELSE {returned[i]} \cup (PairOf(i) \cap {NeverReset})

\* A call that finds nothing has fetched the result too.
GetResult(i) ==
    /\ object = "live"
    /\ ~result_fetched[i]
    /\ result_fetched' = [result_fetched EXCEPT ![i] = TRUE]
    /\ \E result \in Results(i) : returned' = [returned EXCEPT ![i] = result]
    /\ UNCHANGED <<object, queries, phase, measured, recorded, pending, bulk>>

\* Engine::destroy(DeviceTimerHandle): the handle is dead from here on.
Destroy ==
    /\ object = "live"
    /\ Outstanding = <<>>
    /\ object' = "destroyed"
    /\ UNCHANGED <<queries, result_fetched, phase, measured, returned,
                   recorded, pending, bulk>>

Destroyed == object = "destroyed" /\ UNCHANGED timerVars

TimersNext ==
    \/ Construct
    \/ ResetAll
    \/ \E i \in Timers : Reset(i) \/ Start(i) \/ Stop(i) \/ GetResult(i)
    \/ Submit
    \/ Execute
    \/ Destroy
    \/ Destroyed

TimersSpec == TimersInit /\ [][TimersNext]_timerVars

----------------------------------------------------------------------------
(* What a call of get_result would return now.                             *)

TouchesQueries(i, command) ==
    IF command.op = "write"
    THEN command.query \in {StartQuery(i), StopQuery(i)}
    ELSE {StartQuery(i), StopQuery(i)}
            \cap (command.first .. (command.first + command.count - 1)) # {}

\* The timers whose two queries reset_all reaches.
Covered(i) == ~bulk \/ StopQuery(i) < TimerCount

\* A result is the start and the stop of one measurement, however far the
\* device is behind the recording: what a call of get_result would return at
\* any moment never mixes two measurements.  Not for a timer whose queries
\* reset_all leaves out (device_timer.cpp:28): there the start of a new
\* measurement meets the stop of the one before.
OneMeasurement ==
    \A i \in Timers :
        Covered(i) /\ ~result_fetched[i] /\ Available(i) =>
            queries[StartQuery(i)] = queries[StopQuery(i)]

\* get_result is to "prevent repeated reading of the same timestamp"
\* (include/vkte/device_timer.hpp:31): what it would return now is not what it
\* returned last.  It may be: recording a stop clears result_fetched
\* (device_timer.cpp:37) while the queries hold the measurement before.
NotReturnedAgain ==
    \A i \in Timers :
        ~result_fetched[i] /\ Available(i) =>
            queries[StopQuery(i)] # returned[i]

\* A result nobody fetched is there once the device has caught up with the
\* timer, unless a reset came after it: not fetched and nothing outstanding
\* that touches its queries means that both hold the newest measurement or
\* that a reset took them away.  What is lost is lost by a call that came too
\* early or by a reset, never by the bookkeeping.
UnfetchedIsThere ==
    \A i \in Timers :
        /\ object = "live"
        /\ ~result_fetched[i]
        /\ phase[i] = "idle"
        /\ \A n \in DOMAIN Outstanding : ~TouchesQueries(i, Outstanding[n])
        => PairOf(i) = {measured[i]}

TypeOK ==
    /\ object \in {"none", "live", "destroyed"}
    /\ queries \in [Queries -> Measurements \cup {Unavailable, NeverReset}]
    /\ result_fetched \in [Timers -> BOOLEAN]
    /\ phase \in [Timers -> {"idle", "reset", "started"}]
    /\ measured \in [Timers -> 0 .. MaxMeasurements]
    /\ returned \in [Timers -> 0 .. NeverReset]
    /\ recorded \in Seq(Commands)
    /\ pending \in Seq(Commands)
    /\ bulk \in BOOLEAN
============================================================================
