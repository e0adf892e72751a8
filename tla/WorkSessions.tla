---------------------------- MODULE WorkSessions ----------------------------
(***************************************************************************)
(* The timers of workers and reviewers: start, pause, resume and stop,     *)
(* each one UPDATE with the expected status in its WHERE                   *)
(* (src/server/work-sessions.ts, src/server/actions/work-sessions.ts).     *)
(*                                                                         *)
(* A timer is a task, a user and a role: at most one of its rows is open,  *)
(* and a row that ended is never written again, so a timer is its open     *)
(* row and the seconds of the ended ones.  Every statement has an instant  *)
(* of its own, the `now` its caller took: the milliseconds between taking  *)
(* it and the statement are not modelled.                                  *)
(***************************************************************************)
EXTENDS Integers

CONSTANTS
  Timers,
  Stale,     \* STALE_AFTER_HOURS
  StintCap,  \* STALE_STINT_CAP_SECONDS
  Horizon    \* bound on the clock

ASSUME SessionsAssumption ==
  /\ Stale \in Nat
  /\ StintCap \in Nat
  /\ Horizon \in Nat

VARIABLES
  clock,
  session,   \* the open row of each timer
  logged,    \* accumulatedSeconds of its ended rows
  touched,   \* max(updatedAt) of all its rows
  began      \* instant the timer was first started, 0 if never; no code reads it

sessionVars == <<session, logged, touched, began>>

Seconds == 0..Horizon
Session == [status : {"none", "active", "paused"}, since : Seconds, accumulated : Seconds]

NoSession == [status |-> "none", since |-> 0, accumulated |-> 0]

SessionsTypeOK ==
  /\ clock \in Seconds
  /\ session \in [Timers -> Session]
  /\ logged \in [Timers -> Seconds]
  /\ touched \in [Timers -> Seconds]
  /\ began \in [Timers -> Seconds]

SessionsInit ==
  /\ clock = 0
  /\ session = [t \in Timers |-> NoSession]
  /\ logged = [t \in Timers |-> 0]
  /\ touched = [t \in Timers |-> 0]
  /\ began = [t \in Timers |-> 0]

-----------------------------------------------------------------------------
\* The next instant: that of the statement which is about to run.
Now == clock + 1

TimePasses == Now <= Horizon /\ clock' = Now

\* The stint that runs, nothing for a pause.
Stint(t) == IF session[t].status = "active" THEN Now - session[t].since ELSE 0

\* startSession: who finds an open row adopts it, so does the loser of a race.
Start(t) ==
  /\ session[t].status = "none"
  /\ TimePasses
  /\ session' = [session EXCEPT ![t] = [status |-> "active", since |-> Now, accumulated |-> 0]]
  /\ touched' = [touched EXCEPT ![t] = Now]
  /\ began' = [began EXCEPT ![t] = IF @ = 0 THEN Now ELSE @]
  /\ UNCHANGED logged

PauseSession(t) ==
  /\ session[t].status = "active"
  /\ TimePasses
  /\ session' = [session EXCEPT ![t] = [status |-> "paused", since |-> 0,
                                        accumulated |-> @.accumulated + Stint(t)]]
  /\ touched' = [touched EXCEPT ![t] = Now]
  /\ UNCHANGED <<logged, began>>

\* Mutant: lastResumedAt stays null, the stint counts from the beginning.
ResumeWhereItStarted(t) ==
  /\ session[t].status = "paused"
  /\ TimePasses
  /\ session' = [session EXCEPT ![t].status = "active"]
  /\ touched' = [touched EXCEPT ![t] = Now]
  /\ UNCHANGED <<logged, began>>

ResumeSession(t) ==
  /\ session[t].status = "paused"
  /\ TimePasses
  /\ session' = [session EXCEPT ![t].status = "active", ![t].since = Now]
  /\ touched' = [touched EXCEPT ![t] = Now]
  /\ UNCHANGED <<logged, began>>

\* stopSession, and stopAllOpenSessions for the one row there can be.
StopSession(t) ==
  /\ session[t].status # "none"
  /\ TimePasses
  /\ session' = [session EXCEPT ![t] = NoSession]
  /\ logged' = [logged EXCEPT ![t] = @ + session[t].accumulated + Stint(t)]
  /\ touched' = [touched EXCEPT ![t] = Now]
  /\ UNCHANGED began

\* A pause is as old as the write that made it, a stint as old as its start.
IsStale(t) ==
  \/ session[t].status = "active" /\ session[t].since < Now - Stale
  \/ session[t].status = "paused" /\ touched[t] < Now - Stale

Recovered(t) == IF Stint(t) < StintCap THEN Stint(t) ELSE StintCap

\* closeStaleWorkSessions: one UPDATE over all rows.
CloseStaleWorkSessions ==
  /\ \E t \in Timers : IsStale(t)
  /\ TimePasses
  /\ session' = [t \in Timers |-> IF IsStale(t) THEN NoSession ELSE session[t]]
  /\ logged' = [t \in Timers |->
                  IF IsStale(t) THEN logged[t] + session[t].accumulated + Recovered(t)
                  ELSE logged[t]]
  /\ touched' = [t \in Timers |-> IF IsStale(t) THEN Now ELSE touched[t]]
  /\ UNCHANGED began

TimerStep(t) == Start(t) \/ PauseSession(t) \/ ResumeSession(t) \/ StopSession(t)

-----------------------------------------------------------------------------
\* What the operational actual counts: no stint before it is over.
SecondsOf(t) == logged[t] + session[t].accumulated

\* All the sessions of a timer together, with the stint that runs, are never
\* more than the time that has passed since it was first started
\* (pauseSession, stopSession, stopAllOpenSessions, closeStaleWorkSessions).
NoTimeInvented ==
  \A t \in Timers :
    LET running == IF session[t].status = "active" THEN clock - session[t].since ELSE 0
        lived   == IF began[t] = 0 THEN 0 ELSE clock - began[t]
    IN  SecondsOf(t) + running <= lived
=============================================================================
