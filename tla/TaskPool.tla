------------------------------ MODULE TaskPool ------------------------------
(***************************************************************************)
(* What vkte::ThreadManager promises: a task that is run starts at most      *)
(* once, in the order of the run calls and by one of a bounded number of     *)
(* workers, or is dropped unstarted by force_stop; and wait_all returns only *)
(* when every task accepted before it returned has finished or was dropped.  *)
(***************************************************************************)
EXTENDS Naturals, Sequences, FiniteSets

CONSTANTS
  Tasks,        (* the tasks                                                   *)
  WorkerCount   (* tasks that may run at the same time                         *)

VARIABLES
  waiting,      (* accepted tasks that have not started, oldest first          *)
  started,      (* tasks being executed                                        *)
  finished,     (* tasks that were executed                                    *)
  dropped       (* tasks that will never be                                    *)

vars == <<waiting, started, finished, dropped>>

Accepted == {waiting[i] : i \in DOMAIN waiting} \union started \union finished \union dropped

Init ==
  /\ waiting = <<>>
  /\ started = {}
  /\ finished = {}
  /\ dropped = {}

Accept(t) ==
  /\ t \notin Accepted
  /\ waiting' = Append(waiting, t)
  /\ UNCHANGED <<started, finished, dropped>>

Begin ==
  /\ waiting # <<>>
  /\ Cardinality(started) < WorkerCount
  /\ started' = started \union {Head(waiting)}
  /\ waiting' = Tail(waiting)
  /\ UNCHANGED <<finished, dropped>>

Finish(t) ==
  /\ t \in started
  /\ started' = started \ {t}
  /\ finished' = finished \union {t}
  /\ UNCHANGED <<waiting, dropped>>

Drop ==
  /\ waiting # <<>>
  /\ dropped' = dropped \union {waiting[i] : i \in DOMAIN waiting}
  /\ waiting' = <<>>
  /\ UNCHANGED <<started, finished>>

Next == (\E t \in Tasks : Accept(t) \/ Finish(t)) \/ Begin \/ Drop

Spec == Init /\ [][Next]_vars
=============================================================================
