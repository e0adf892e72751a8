----------------------- MODULE OperationalActuals_proofs -----------------------
(***************************************************************************)
(* What the actuals' run checks on one task and two computations, for any  *)
(* number of both, any clock, cap, window and retry limit.  TimersInv is   *)
(* inductive by itself; the rest says what a computation carries from the  *)
(* unlocked reads to the locked write (Carries) and who may write (Locked).*)
(***************************************************************************)
EXTENDS OperationalActuals, TLAPS

LEMMA Bounds == Horizon \in Nat /\ StintCap \in Nat /\ Window \in Nat
  BY SessionsAssumption, ActualsAssumption DEF SessionsAssumption, ActualsAssumption

USE Bounds

-----------------------------------------------------------------------------
(* Timers.                                                                 *)

\* No stamp of a timer is later than the clock, and what is open has begun.
TimersInv ==
  /\ SessionsTypeOK
  /\ \A t \in Timers :
       /\ touched[t] <= clock /\ session[t].since <= clock /\ began[t] <= clock
       /\ session[t].status # "none" => began[t] # 0
  /\ NoTimeInvented

\* All that may happen to the timers.
TimersMove ==
  \/ \E t \in Timers : TimerStep(t)
  \/ CloseStaleWorkSessions
  \/ UNCHANGED sessionVars /\ (TimePasses \/ UNCHANGED clock)

\* A timer keeps its row and seconds or is touched at the next instant.
TimersKept ==
  /\ clock' \in {clock, Now}
  /\ \A t \in Timers :
       \/ touched'[t] = touched[t] /\ SecondsOf(t)' = SecondsOf(t)
       \/ touched'[t] = Now /\ clock' = Now

LEMMA TimersInit == SessionsInit => TimersInv
  BY DEF SessionsInit, TimersInv, SessionsTypeOK, NoTimeInvented, NoSession, Session, Seconds,
     SecondsOf

\* One row per timer: the seconds of the others do not move.
LEMMA TimersStay ==
  ASSUME TimersInv, TimersMove
  PROVE  TimersInv'
<1> USE DEF TimersInv, SessionsTypeOK, NoTimeInvented, Session, Seconds, SecondsOf, Now
<1>1. ASSUME NEW t \in Timers, Start(t) PROVE TimersInv'
  <2>1. session[t].accumulated \in Nat /\ logged[t] \in Nat /\ began[t] \in Nat
    OBVIOUS
  <2>2. /\ clock' = Now /\ Now <= Horizon
        /\ session' = [session EXCEPT ![t] = [status |-> "active", since |-> Now,
                                              accumulated |-> 0]]
        /\ logged' = logged
        /\ touched' = [touched EXCEPT ![t] = Now]
        /\ began' = [began EXCEPT ![t] = IF began[t] = 0 THEN Now ELSE began[t]]
    BY <1>1 DEF Start, TimePasses
  <2>3. SecondsOf(t) <= IF began[t] = 0 THEN 0 ELSE clock - began[t]
    BY <1>1 DEF Start
  <2>4. SessionsTypeOK'
    BY <2>1, <2>2
  <2>5. ASSUME NEW q \in Timers
        PROVE  LET running == IF session'[q].status = "active"
                              THEN clock' - session'[q].since ELSE 0
                   lived   == IF began'[q] = 0 THEN 0 ELSE clock' - began'[q]
               IN  SecondsOf(q)' + running <= lived
    <3>1. CASE q = t
      BY <2>1, <2>2, <2>3, <3>1
    <3>2. CASE q # t
      BY <2>2, <3>2
    <3> QED BY <3>1, <3>2
  <2>6. NoTimeInvented'
    BY <2>5
  <2> QED BY <2>1, <2>2, <2>4, <2>6
<1>2. ASSUME NEW t \in Timers, PauseSession(t) PROVE TimersInv'
  <2> DEFINE total == session[t].accumulated + Stint(t)
  <2>1. total \in Nat /\ began[t] # 0 /\ logged[t] + total <= Now - began[t]
    BY <1>2 DEF Stint, PauseSession
  <2>2. /\ clock' = Now /\ Now <= Horizon
        /\ session' = [session EXCEPT ![t] = [status |-> "paused", since |-> 0,
                                              accumulated |-> total]]
        /\ logged' = logged /\ began' = began
        /\ touched' = [touched EXCEPT ![t] = Now]
    BY <1>2 DEF PauseSession, TimePasses
  <2> HIDE DEF total
  <2> QED BY <2>1, <2>2
<1>3. ASSUME NEW t \in Timers, ResumeSession(t) PROVE TimersInv'
  BY <1>3 DEF ResumeSession, TimePasses
<1>4. ASSUME NEW t \in Timers, StopSession(t) PROVE TimersInv'
  <2> DEFINE total == logged[t] + session[t].accumulated + Stint(t)
  <2>1. total \in Nat /\ began[t] # 0 /\ total <= Now - began[t]
    BY <1>4 DEF Stint, StopSession
  <2>2. /\ clock' = Now /\ Now <= Horizon
        /\ session' = [session EXCEPT ![t] = NoSession]
        /\ logged' = [logged EXCEPT ![t] = total] /\ began' = began
        /\ touched' = [touched EXCEPT ![t] = Now]
    BY <1>4 DEF StopSession, TimePasses
  <2> HIDE DEF total
  <2> QED BY <2>1, <2>2 DEF NoSession
<1>5. CASE CloseStaleWorkSessions
  <2>1. ASSUME NEW t \in Timers PROVE Recovered(t) \in 0..Stint(t) /\ Stint(t) \in Nat
    <3>1. StintCap \in Nat
      BY SessionsAssumption DEF SessionsAssumption
    <3>2. Stint(t) \in Nat
      BY DEF Stint
    <3> QED BY <3>1, <3>2 DEF Recovered
  <2> QED BY <1>5, <2>1 DEF CloseStaleWorkSessions, TimePasses, Stint, NoSession
<1>6. CASE UNCHANGED sessionVars /\ (TimePasses \/ UNCHANGED clock)
  BY <1>6 DEF sessionVars, TimePasses
<1> QED BY <1>1, <1>2, <1>3, <1>4, <1>5, <1>6 DEF TimersMove, TimerStep

LEMMA TimersKeep ==
  ASSUME TimersInv, TimersMove
  PROVE  TimersKept
<1> USE DEF TimersInv, SessionsTypeOK, Session, Seconds, SecondsOf, Now, TimersKept
<1>1. ASSUME NEW t \in Timers, TimerStep(t) PROVE TimersKept
  BY <1>1 DEF TimerStep, Start, PauseSession, ResumeSession, StopSession, TimePasses
<1>2. CASE CloseStaleWorkSessions
  BY <1>2 DEF CloseStaleWorkSessions, TimePasses
<1>3. CASE UNCHANGED sessionVars /\ (TimePasses \/ UNCHANGED clock)
  BY <1>3 DEF sessionVars, TimePasses
<1> QED BY <1>1, <1>2, <1>3 DEF TimersMove

-----------------------------------------------------------------------------
(* The invariant.                                                          *)

Busy == {"load", "lock", "write"}
Saw  == {"lock", "write"}

\* Sources are never dated ahead of the clock, a row is written before it is
\* committed, and an open transaction's row is newer than the committed ones.
SourcesInv ==
  /\ money \in [Tasks -> Money]
  /\ moneyAt \in [Tasks -> Seconds] /\ eventAt \in [Tasks -> Seconds]
  /\ returned \in Seconds
  /\ writing \in [Tasks -> [money : Money, at : Seconds]] /\ accepting \in Seconds
  /\ moneyIn \in [Tasks -> Seconds] /\ returnedIn \in Seconds
  /\ \A t \in Tasks :
       /\ moneyAt[t] <= moneyIn[t] /\ moneyIn[t] <= clock /\ eventAt[t] <= clock
       /\ writing[t] # NoWrite => moneyAt[t] < writing[t].at /\ writing[t].at <= clock
  /\ accepting <= clock /\ returnedIn <= clock
  /\ accepting # 0 => returned = 0

Computation ==
  [at : Places, queue : SUBSET Tasks, task : Tasks \cup {Nobody}, now : Seconds,
   attempt : 1..MaxRetries, fingerprint : Fingerprint,
   seen : Figures \cup {NoFigures}, before : Figures \cup {NoFigures}]

Row == [figures : Figures \cup {NoFigures}, fingerprint : Fingerprint, computedAt : Seconds]

RowsInv ==
  /\ actual \in [Tasks -> Row]
  /\ lock \in [Tasks -> Runners \cup {Nobody}]
  /\ run \in [Runners -> Computation]
  /\ \A r \in Runners : run[r].at \in Busy => run[r].task \in Tasks
  /\ \A r \in Runners : run[r].now <= clock

\* A fingerprint is not newer than its sources, whose stamps only grow: one that
\* moves later leaves it.
Dated(t, f) == f.touched <= touched[t] /\ f.moneyAt <= moneyAt[t] /\ f.eventAt <= eventAt[t]

\* Figures go with a fingerprint and an instant: they are true while the
\* fingerprint is, and what they miss was touched or committed after the instant.
Vouched(t, figures, fingerprint, instant) ==
  /\ Dated(t, fingerprint)
  /\ instant <= clock
  /\ fingerprint = FingerprintSources(t) =>
       figures.seconds = SecondsOf(t) /\ figures.money = money[t]
  /\ figures.seconds # SecondsOf(t) => touched[t] > instant
  /\ figures.money # money[t] => moneyIn[t] >= instant

\* An answer about the client's return cannot be made false by time.
Settled(figures) ==
  /\ figures.repeat = "yes" => returned \in 1..Window
  /\ figures.repeat = "no" => ~(returned \in 1..Window /\ returnedIn < Window) /\ Window <= clock

VouchInv ==
  /\ \A t \in Tasks :
       Made(t) => Vouched(t, actual[t].figures, actual[t].fingerprint, actual[t].computedAt)
  /\ \A r \in Runners :
       /\ run[r].at \in Busy => Dated(run[r].task, run[r].fingerprint)
       /\ run[r].at \in Saw =>
            Vouched(run[r].task, run[r].seen, run[r].fingerprint, run[r].now)

RepeatInv ==
  /\ \A t \in Tasks : Settled(actual[t].figures)
  /\ \A r \in Runners : run[r].at \in Saw => Settled(run[r].seen)

LockInv ==
  /\ \A r \in Runners : run[r].at = "write" => lock[run[r].task] = r
  /\ JournalIsAChain

Inv == TimersInv /\ SourcesInv /\ RowsInv /\ VouchInv /\ RepeatInv /\ LockInv

-----------------------------------------------------------------------------
(* The world moves, or one computation does.                               *)

\* Each source keeps its figure or gets a later stamp.
SourcesMove ==
  /\ TimersKept
  /\ \A t \in Tasks :
       /\ \/ moneyAt'[t] = moneyAt[t] /\ money'[t] = money[t] /\ moneyIn'[t] = moneyIn[t]
          \/ moneyAt'[t] > moneyAt[t] /\ moneyIn'[t] = clock
       /\ eventAt'[t] = eventAt[t] \/ eventAt'[t] > eventAt[t]
  /\ \/ returned' = returned /\ returnedIn' = returnedIn
     \/ returned = 0 /\ returnedIn' = clock

\* An idle process may get tasks to compute.
RunsStart ==
  \/ UNCHANGED run
  \/ \E r \in Runners, S \in SUBSET Tasks :
       run[r].at = "idle" /\ run' = [run EXCEPT ![r] = [Idle EXCEPT !.at = "next", !.queue = S]]

World == SourcesMove /\ RunsStart /\ UNCHANGED actualVars

LEMMA Started ==
  ASSUME NEW S \in SUBSET Tasks, After(S)
  PROVE  RunsStart
  BY DEF After, WorksThrough, Becomes, RunsStart

\* What a transaction on the payments does.
MoneyStep(t) == MoneyIsWritten(t) \/ MoneyCommits(t) \/ MoneyRollsBack(t)

\* A row is dated at the next instant and seen when its transaction commits.
LEMMA MoneyStepSources ==
  ASSUME TimersInv, SourcesInv, TimersKept, NEW t \in Tasks, MoneyStep(t)
  PROVE  SourcesMove /\ SourcesInv' /\ UNCHANGED actualVars
<1> USE DEF SourcesMove, SourcesInv, NoWrite
<1>1. /\ clock \in Nat /\ moneyAt[t] \in Nat /\ moneyIn[t] \in Nat
      /\ writing[t] \in [money : Money, at : Seconds]
  BY DEF TimersInv, SessionsTypeOK, Seconds
<1>2. CASE MoneyIsWritten(t)
  <2>1. PICK m \in Money : writing' = [writing EXCEPT ![t] = [money |-> m, at |-> Now]]
    BY <1>2 DEF MoneyIsWritten
  <2>2. /\ UNCHANGED <<money, moneyAt, moneyIn, eventAt, returned, returnedIn, accepting>>
        /\ UNCHANGED actualVars /\ clock' = Now /\ Now \in Seconds /\ Now \in Nat
        /\ Now > clock
    BY <1>1, <1>2 DEF MoneyIsWritten, TimePasses, returnVars, Now, Seconds
  <2>3. [money |-> m, at |-> Now] \in [money : Money, at : Seconds] /\ moneyAt[t] < Now
    BY <1>1, <2>2
  <2>4. /\ writing' \in [Tasks -> [money : Money, at : Seconds]]
        /\ \A q \in Tasks : writing'[q] = IF q = t THEN [money |-> m, at |-> Now] ELSE writing[q]
    BY <2>1, <2>3
  <2>5. ASSUME NEW q \in Tasks
        PROVE  /\ moneyAt'[q] <= moneyIn'[q] /\ moneyIn'[q] <= clock' /\ eventAt'[q] <= clock'
               /\ writing'[q] # NoWrite => moneyAt'[q] < writing'[q].at /\ writing'[q].at <= clock'
    <3>1. /\ moneyAt[q] \in Nat /\ moneyIn[q] \in Nat /\ eventAt[q] \in Nat
          /\ writing[q].at \in Nat /\ Now \in Nat
      BY <2>2 DEF Seconds
    <3>2. CASE q = t
      BY <1>1, <2>2, <2>3, <2>4, <3>1, <3>2
    <3>3. CASE q # t
      <4>1. writing'[q] = writing[q]
        BY <2>4, <3>3
      <4> QED BY <1>1, <2>2, <3>1, <4>1
    <3> QED BY <3>2, <3>3
  <2>6. accepting' <= clock' /\ returnedIn' <= clock'
    BY <1>1, <2>2 DEF Seconds
  <2>7. SourcesInv'
    BY <2>2, <2>4, <2>5, <2>6
  <2> QED BY <2>2, <2>7
<1>3. CASE MoneyCommits(t)
  <2>1. /\ money' = [money EXCEPT ![t] = writing[t].money]
        /\ moneyAt' = [moneyAt EXCEPT ![t] = writing[t].at]
        /\ moneyIn' = [moneyIn EXCEPT ![t] = clock]
        /\ writing' = [writing EXCEPT ![t] = NoWrite]
        /\ UNCHANGED <<clock, eventAt, returned, returnedIn, accepting>> /\ UNCHANGED actualVars
        /\ moneyAt[t] < writing[t].at /\ writing[t].at <= clock
    BY <1>3 DEF MoneyCommits, returnVars
  <2>2. NoWrite \in [money : Money, at : Seconds] /\ clock \in Seconds
    <3>1. MaxMoney \in Nat
      BY ActualsAssumption DEF ActualsAssumption
    <3> QED BY <3>1 DEF Money, Seconds, TimersInv, SessionsTypeOK
  <2> QED BY <1>1, <2>1, <2>2 DEF Seconds
<1>4. CASE MoneyRollsBack(t)
  <2>1. NoWrite \in [money : Money, at : Seconds]
    <3>1. MaxMoney \in Nat
      BY ActualsAssumption DEF ActualsAssumption
    <3> QED BY <3>1 DEF Money, Seconds
  <2> QED BY <1>1, <1>4, <2>1 DEF MoneyRollsBack, returnVars
<1> QED BY <1>2, <1>3, <1>4 DEF MoneyStep

\* The same of the acceptance, which happens once.
LEMMA ClientStepSources ==
  ASSUME TimersInv, SourcesInv, TimersKept, ClientStep
  PROVE  SourcesMove /\ SourcesInv' /\ UNCHANGED actualVars
<1> USE DEF SourcesMove, SourcesInv, moneyVars, Seconds
<1>1. clock \in Seconds
  BY DEF TimersInv, SessionsTypeOK
<1>2. CASE ClientAcceptsAnother
  BY <1>1, <1>2 DEF ClientAcceptsAnother, TimePasses, Now
<1>3. CASE AcceptanceCommits
  BY <1>1, <1>3 DEF AcceptanceCommits
<1>4. CASE AcceptanceRollsBack
  BY <1>1, <1>4 DEF AcceptanceRollsBack
<1> QED BY <1>2, <1>3, <1>4 DEF ClientStep

LEMMA Kinds ==
  ASSUME Inv, [Next]_vars
  PROVE  \/ World /\ TimersInv' /\ SourcesInv'
         \/ \E r \in Runners : (Computes(r) \/ Dies(r)) /\ Quiet
<1> SUFFICES ASSUME ~ \E r \in Runners : Computes(r) \/ Dies(r)
             PROVE  World /\ TimersInv' /\ SourcesInv'
  BY DEF Computes, Takes, Loads, Locks, StartsOver, Writes, FindsItUnchanged, Dies, Quiet
<1> USE DEF World, SourcesMove, sourceVars, moneyVars, returnVars, actualVars, Tasks
<1>0. TimersInv /\ SourcesInv
  BY DEF Inv
<1>1. ASSUME TimersMove PROVE TimersInv' /\ TimersKept
  BY <1>0, <1>1, TimersStay, TimersKeep
<1>2. ASSUME NEW t \in Tasks, TimerMoves(t) PROVE World /\ TimersInv' /\ SourcesInv'
  <2>1. TimersMove
    BY <1>2 DEF TimerMoves, TimersMove
  <2> QED BY <1>0, <1>1, <1>2, <2>1 DEF TimerMoves, RunsStart, SourcesInv, TimersKept,
             TimersInv, SessionsTypeOK, Seconds, Now
<1>3. ASSUME NEW t \in Tasks, StopsAfterwards(t) PROVE World /\ TimersInv' /\ SourcesInv'
  <2>1. TimersMove /\ RunsStart
    BY <1>3, Started DEF StopsAfterwards, TimersMove, TimerStep
  <2> QED BY <1>0, <1>1, <1>3, <2>1 DEF StopsAfterwards, SourcesInv, TimersKept,
             TimersInv, SessionsTypeOK, Seconds, Now
<1>4. ASSUME StaleTimersClose PROVE World /\ TimersInv' /\ SourcesInv'
  <2>1. TimersMove
    BY <1>4 DEF StaleTimersClose, TimersMove
  <2> QED BY <1>0, <1>1, <1>4, <2>1 DEF StaleTimersClose, RunsStart, SourcesInv, TimersKept,
             TimersInv, SessionsTypeOK, Seconds, Now
<1>5. ASSUME NEW t \in Tasks, MoneyStep(t) PROVE World /\ TimersInv' /\ SourcesInv'
  <2>1. TimersMove /\ RunsStart
    BY <1>5, Started DEF MoneyStep, MoneyIsWritten, MoneyCommits, MoneyRollsBack, TimersMove,
       RunsStart
  <2> QED BY <1>0, <1>1, <1>5, <2>1, MoneyStepSources
<1>6. ASSUME NEW t \in Tasks, EventIsRecorded(t) PROVE World /\ TimersInv' /\ SourcesInv'
  <2>1. TimersMove /\ RunsStart
    BY <1>6, Started DEF EventIsRecorded, TimersMove, RunsStart
  <2> QED BY <1>0, <1>1, <1>6, <2>1 DEF EventIsRecorded, SourcesInv, TimePasses,
             TimersInv, SessionsTypeOK, Seconds, Now
<1>7. ASSUME ClientStep PROVE World /\ TimersInv' /\ SourcesInv'
  <2>1. TimersMove /\ RunsStart
    BY <1>7, Started DEF ClientStep, ClientAcceptsAnother, AcceptanceCommits,
       AcceptanceRollsBack, TimersMove, RunsStart
  <2> QED BY <1>0, <1>1, <1>7, <2>1, ClientStepSources
<1>8. ASSUME Tick PROVE World /\ TimersInv' /\ SourcesInv'
  <2>1. TimersMove /\ RunsStart
    BY <1>8 DEF Tick, TimersMove, RunsStart
  <2> QED BY <1>0, <1>1, <1>8, <2>1 DEF Tick, SourcesInv, TimePasses,
             TimersInv, SessionsTypeOK, Seconds, Now
<1>9. ASSUME NEW r \in Runners, StaleSweepSelects(r) \/ WindowSweepSelects(r)
      PROVE  World /\ TimersInv' /\ SourcesInv'
  <2>1. RunsStart
    BY <1>9 DEF StaleSweepSelects, WindowSweepSelects, Candidates, Unmade, Moved, Expired,
       WorksThrough, Becomes, RunsStart
  <2>2. UNCHANGED <<clock, sessionVars, sourceVars, actualVars>>
    BY <1>9 DEF StaleSweepSelects, WindowSweepSelects
  <2>3. TimersMove
    BY <2>2 DEF TimersMove
  <2> QED BY <1>0, <1>1, <2>1, <2>2, <2>3 DEF SourcesInv
<1>10. ASSUME UNCHANGED vars PROVE World /\ TimersInv' /\ SourcesInv'
  <2>1. TimersMove /\ RunsStart
    BY <1>10 DEF vars, TimersMove, RunsStart
  <2> QED BY <1>0, <1>1, <1>10, <2>1 DEF vars, SourcesInv
<1> QED BY <1>2, <1>3, <1>4, <1>5, <1>6, <1>7, <1>8, <1>9, <1>10 DEF Next, SourceStep, MoneyStep

-----------------------------------------------------------------------------
(* The sources move.                                                       *)

\* Whoever is busy after the world's step was so before, with the same state.
LEMMA BusyStays ==
  ASSUME RowsInv, RunsStart, NEW r \in Runners, run'[r].at \in Busy
  PROVE  run'[r] = run[r]
  BY DEF RowsInv, Computation, RunsStart, Busy, Idle

LEMMA IdleTypes == Idle \in Computation
<1>1. MaxMoney \in Nat /\ MaxRetries \in Nat \ {0}
  BY ActualsAssumption DEF ActualsAssumption
<1> QED BY <1>1 DEF Idle, Computation, Places, Fingerprint, NoFingerprint, Seconds, Money,
           NoFigures

\* Stamps grow.
LEMMA DatedStays ==
  ASSUME TimersInv, SourcesInv, TimersInv', SourcesInv', SourcesMove,
         NEW t \in Tasks, NEW f \in Fingerprint, Dated(t, f)
  PROVE  Dated(t, f)'
<1>1. /\ clock \in Nat /\ touched[t] <= clock
      /\ touched[t] \in Nat /\ moneyAt[t] \in Nat /\ eventAt[t] \in Nat
      /\ touched'[t] \in Nat /\ moneyAt'[t] \in Nat /\ eventAt'[t] \in Nat
  BY DEF TimersInv, SourcesInv, SessionsTypeOK, Seconds, Tasks
<1>2. f.touched \in Nat /\ f.moneyAt \in Nat /\ f.eventAt \in Nat
  BY DEF Fingerprint, Seconds
<1>3. /\ touched'[t] = touched[t] \/ touched'[t] = clock + 1
      /\ moneyAt'[t] = moneyAt[t] \/ moneyAt'[t] > moneyAt[t]
      /\ eventAt'[t] = eventAt[t] \/ eventAt'[t] > eventAt[t]
  BY DEF SourcesMove, TimersKept, Tasks, Now
<1> QED BY <1>1, <1>2, <1>3 DEF Dated

\* Figures that were vouched for, still are: the clock leaves what it dated.
LEMMA VouchedStays ==
  ASSUME TimersInv, SourcesInv, TimersInv', SourcesInv', SourcesMove,
         NEW t \in Tasks, NEW figures, NEW fingerprint \in Fingerprint, NEW instant \in Seconds,
         Vouched(t, figures, fingerprint, instant)
  PROVE  Vouched(t, figures, fingerprint, instant)'
<1> USE DEF Seconds, Now
<1>1. /\ clock \in Nat /\ clock' \in {clock, Now} /\ touched[t] <= clock
      /\ touched[t] \in Nat /\ moneyAt[t] \in Nat /\ eventAt[t] \in Nat /\ moneyIn[t] \in Nat
      /\ touched'[t] \in Nat /\ moneyAt'[t] \in Nat /\ eventAt'[t] \in Nat /\ moneyIn'[t] \in Nat
  BY DEF TimersInv, SourcesInv, SessionsTypeOK, SourcesMove, TimersKept, Tasks
<1>2. /\ fingerprint.touched \in Nat /\ fingerprint.moneyAt \in Nat
      /\ fingerprint.eventAt \in Nat /\ instant \in Nat
  BY DEF Fingerprint
<1>3. /\ \/ touched'[t] = touched[t] /\ SecondsOf(t)' = SecondsOf(t)
         \/ touched'[t] = Now
      /\ \/ moneyAt'[t] = moneyAt[t] /\ money'[t] = money[t] /\ moneyIn'[t] = moneyIn[t]
         \/ moneyAt'[t] > moneyAt[t] /\ moneyIn'[t] = clock
      /\ eventAt'[t] = eventAt[t] \/ eventAt'[t] > eventAt[t]
  BY DEF SourcesMove, TimersKept, Tasks
<1>4. Dated(t, fingerprint)' /\ instant <= clock'
  BY <1>1, <1>2, <1>3 DEF Vouched, Dated
<1>5. ASSUME fingerprint = FingerprintSources(t)'
      PROVE  figures.seconds = SecondsOf(t)' /\ figures.money = money'[t]
  <2>1. /\ fingerprint.touched = touched'[t] /\ fingerprint.moneyAt = moneyAt'[t]
        /\ fingerprint.eventAt = eventAt'[t]
    BY <1>5 DEF FingerprintSources
  <2>2. /\ touched'[t] = touched[t] /\ SecondsOf(t)' = SecondsOf(t)
        /\ moneyAt'[t] = moneyAt[t] /\ money'[t] = money[t]
        /\ eventAt'[t] = eventAt[t]
    BY <1>1, <1>2, <1>3, <2>1 DEF Vouched, Dated
  <2>3. fingerprint = FingerprintSources(t)
    BY <1>5, <2>2 DEF FingerprintSources
  <2> QED BY <2>2, <2>3 DEF Vouched
<1>6. figures.seconds # SecondsOf(t)' => touched'[t] > instant
  BY <1>1, <1>2, <1>3 DEF Vouched
<1>7. figures.money # money'[t] => moneyIn'[t] >= instant
  BY <1>1, <1>2, <1>3 DEF Vouched
<1> QED BY <1>4, <1>5, <1>6, <1>7 DEF Vouched

LEMMA SettledStays ==
  ASSUME TimersInv, SourcesInv, SourcesMove, NEW figures, Settled(figures)
  PROVE  Settled(figures)'
<1>1. clock \in Nat /\ clock' \in {clock, Now} /\ returned \in Nat /\ returnedIn \in Nat
  BY DEF TimersInv, SourcesInv, SessionsTypeOK, Seconds, SourcesMove, TimersKept
<1>2. \/ returned' = returned /\ returnedIn' = returnedIn
      \/ returned = 0 /\ returnedIn' = clock
  BY DEF SourcesMove
<1> QED BY <1>1, <1>2 DEF Settled, Now

LEMMA WorldStep ==
  ASSUME Inv, World, TimersInv', SourcesInv'
  PROVE  Inv'
<1>1. TimersInv /\ SourcesInv /\ RowsInv /\ VouchInv /\ RepeatInv /\ LockInv
  BY DEF Inv
<1>2. SourcesMove /\ RunsStart /\ actual' = actual /\ lock' = lock
  BY DEF World, actualVars
<1>3. clock \in Nat /\ clock' \in {clock, clock + 1}
  BY <1>1, <1>2 DEF TimersInv, SessionsTypeOK, Seconds, SourcesMove, TimersKept, Now
<1>4. RowsInv'
  <2>1. run' \in [Runners -> Computation]
    <3>1. ASSUME NEW S \in SUBSET Tasks
          PROVE  [Idle EXCEPT !.at = "next", !.queue = S] \in Computation
      BY IdleTypes DEF Computation, Places
    <3> QED BY <1>1, <1>2, <3>1 DEF RunsStart, RowsInv
  <2>2. ASSUME NEW r \in Runners PROVE run'[r].now <= clock'
    <3>1. run[r].now \in Nat /\ run[r].now <= clock
      BY <1>1 DEF RowsInv, Computation, Seconds
    <3>2. run'[r] = run[r] \/ run'[r].now = 0
      BY <1>1, <1>2 DEF RunsStart, RowsInv, Idle
    <3> QED BY <1>3, <3>1, <3>2
  <2>3. \A r \in Runners : run'[r].at \in Busy => run'[r].task \in Tasks
    BY <1>1, <1>2, BusyStays DEF RowsInv
  <2> QED BY <1>1, <1>2, <2>1, <2>2, <2>3 DEF RowsInv
<1>5. VouchInv'
  <2>1. ASSUME NEW t \in Tasks, Made(t)'
        PROVE  Vouched(t, actual[t].figures, actual[t].fingerprint, actual[t].computedAt)'
    <3>1. Made(t) /\ actual[t] \in Row
      BY <1>1, <1>2, <2>1 DEF Made, RowsInv
    <3>2. /\ actual[t].fingerprint \in Fingerprint /\ actual[t].computedAt \in Seconds
          /\ Vouched(t, actual[t].figures, actual[t].fingerprint, actual[t].computedAt)
      BY <1>1, <3>1 DEF Row, VouchInv
    <3>3. ASSUME NEW figures, NEW fingerprint \in Fingerprint, NEW instant \in Seconds,
                 Vouched(t, figures, fingerprint, instant)
          PROVE  Vouched(t, figures, fingerprint, instant)'
      BY <1>1, <1>2, <3>3, VouchedStays
    <3> QED BY <1>2, <3>2, <3>3 DEF Vouched, Dated, FingerprintSources
  <2>2. ASSUME NEW r \in Runners, run'[r].at \in Busy
        PROVE  Dated(run[r].task, run[r].fingerprint)'
    <3>1. run'[r] = run[r] /\ run[r] \in Computation /\ run[r].task \in Tasks
      BY <1>1, <1>2, <2>2, BusyStays DEF RowsInv
    <3>2. run[r].fingerprint \in Fingerprint /\ Dated(run[r].task, run[r].fingerprint)
      BY <1>1, <2>2, <3>1 DEF Computation, VouchInv
    <3>3. PICK s \in Computation : s = run[r] /\ s = run'[r]
      BY <3>1
    <3>4. s.task \in Tasks /\ s.fingerprint \in Fingerprint /\ Dated(s.task, s.fingerprint)
      BY <3>1, <3>2, <3>3
    <3>5. Dated(s.task, s.fingerprint)'
      BY <1>1, <1>2, <3>4, DatedStays
    <3> QED BY <3>3, <3>5 DEF Dated
  <2>3. ASSUME NEW r \in Runners, run'[r].at \in Saw
        PROVE  Vouched(run[r].task, run[r].seen, run[r].fingerprint, run[r].now)'
    <3>1. run'[r] = run[r] /\ run[r] \in Computation /\ run[r].task \in Tasks
      BY <1>1, <1>2, <2>3, BusyStays DEF Saw, Busy, RowsInv
    <3>2. /\ run[r].fingerprint \in Fingerprint /\ run[r].now \in Seconds
          /\ Vouched(run[r].task, run[r].seen, run[r].fingerprint, run[r].now)
      BY <1>1, <2>3, <3>1 DEF Computation, VouchInv
    <3>3. ASSUME NEW t \in Tasks, NEW figures, NEW fingerprint \in Fingerprint,
                 NEW instant \in Seconds, Vouched(t, figures, fingerprint, instant)
          PROVE  Vouched(t, figures, fingerprint, instant)'
      BY <1>1, <1>2, <3>3, VouchedStays
    <3>4. PICK s \in Computation : s = run[r] /\ s = run'[r]
      BY <3>1
    <3>5. Vouched(s.task, s.seen, s.fingerprint, s.now)'
      BY <3>1, <3>2, <3>3, <3>4
    <3> QED BY <3>4, <3>5 DEF Vouched, Dated, FingerprintSources, SecondsOf
  <2> QED BY <2>1, <2>2, <2>3 DEF VouchInv
<1>6. RepeatInv'
  <2>1. ASSUME NEW figures, Settled(figures) PROVE Settled(figures)'
    BY <1>1, <1>2, <2>1, SettledStays
  <2>2. ASSUME NEW t \in Tasks PROVE Settled(actual[t].figures)'
    BY <1>1, <1>2, <2>1 DEF RepeatInv, Settled
  <2>3. ASSUME NEW r \in Runners, run'[r].at \in Saw PROVE Settled(run[r].seen)'
    <3>1. run'[r] = run[r]
      BY <1>1, <1>2, <2>3, BusyStays DEF Saw, Busy
    <3> QED BY <1>1, <2>1, <2>3, <3>1 DEF RepeatInv, Settled
  <2> QED BY <2>2, <2>3 DEF RepeatInv
<1>7. LockInv'
  <2>1. ASSUME NEW r \in Runners, run'[r].at = "write" PROVE run'[r] = run[r]
    BY <1>1, <1>2, <2>1, BusyStays DEF Busy
  <2> QED BY <1>1, <1>2, <2>1 DEF LockInv, JournalIsAChain
<1> QED BY <1>4, <1>5, <1>6, <1>7 DEF Inv

-----------------------------------------------------------------------------
(* One computation moves; nothing else does.                               *)

\* What the sources say does not depend on the computations.
LEMMA QuietSources ==
  ASSUME Quiet
  PROVE  /\ TimersInv => TimersInv'
         /\ SourcesInv => SourcesInv'
         /\ \A t \in Tasks : SecondsOf(t)' = SecondsOf(t)
         /\ \A t \in Tasks : FingerprintSources(t)' = FingerprintSources(t)
  BY DEF Quiet, sessionVars, sourceVars, moneyVars, returnVars, TimersInv, SessionsTypeOK,
     NoTimeInvented, SecondsOf, SourcesInv, FingerprintSources

\* What a computation reads is typed, vouched for and settled.
LEMMA Reading ==
  ASSUME TimersInv, SourcesInv, NEW t \in Tasks, NEW now \in Seconds, now <= clock
  PROVE  /\ FingerprintSources(t) \in Fingerprint /\ Dated(t, FingerprintSources(t))
         /\ Assembled(t, now) \in Figures
         /\ Settled(Assembled(t, now))
         /\ \A f : Dated(t, f) => Vouched(t, Assembled(t, now), f, now)
<1>1. SecondsOf(t) \in Seconds
  <2>1. /\ session[t] \in Session /\ logged[t] \in Nat /\ clock \in Seconds
        /\ session[t].since <= clock /\ began[t] \in Nat
    BY DEF TimersInv, SessionsTypeOK, Tasks, Seconds
  <2>2. SecondsOf(t) + (IF session[t].status = "active" THEN clock - session[t].since ELSE 0)
          <= IF began[t] = 0 THEN 0 ELSE clock - began[t]
    BY DEF TimersInv, NoTimeInvented, Tasks
  <2> QED BY <2>1, <2>2 DEF SecondsOf, Session, Seconds
<1>2. /\ touched[t] \in Seconds /\ touched[t] <= clock
      /\ money[t] \in Money /\ moneyAt[t] \in Seconds /\ eventAt[t] \in Seconds
  BY DEF TimersInv, SourcesInv, SessionsTypeOK, Tasks
<1>3. FingerprintSources(t) \in Fingerprint /\ Dated(t, FingerprintSources(t))
  BY <1>1, <1>2 DEF Seconds, FingerprintSources, Fingerprint, Dated
<1>4. RepeatStatus(now) \in {"yes", "open", "no"}
  BY DEF RepeatStatus
<1>5. Assembled(t, now) \in Figures
  BY <1>1, <1>2, <1>4 DEF Assembled, Figures
<1>6. Settled(Assembled(t, now))
  BY DEF Assembled, RepeatStatus, Settled, SourcesInv, TimersInv, SessionsTypeOK, Seconds
<1>7. \A f : Dated(t, f) => Vouched(t, Assembled(t, now), f, now)
  BY DEF Vouched, Assembled
<1> QED BY <1>3, <1>5, <1>6, <1>7

\* A computation's next state, typed and dated, keeps the rows.
LEMMA RowsStay ==
  ASSUME RowsInv, Quiet, NEW r \in Runners, NEW state \in Computation,
         Becomes(r, state), state.now <= clock, state.at \in Busy => state.task \in Tasks,
         actual' \in [Tasks -> Row], lock' \in [Tasks -> Runners \cup {Nobody}]
  PROVE  RowsInv'
  BY DEF RowsInv, Quiet, Becomes

\* Those of the others need not be looked at when the actuals stay.
LEMMA OthersStay ==
  ASSUME Inv, Quiet, actual' = actual, NEW r \in Runners, NEW state \in Computation,
         Becomes(r, state),
         state.at \in Busy => Dated(state.task, state.fingerprint) /\ state.task \in Tasks,
         state.at \in Saw =>
           /\ Vouched(state.task, state.seen, state.fingerprint, state.now)
           /\ Settled(state.seen)
  PROVE  VouchInv' /\ RepeatInv'
<1>1. /\ \A t \in Tasks : SecondsOf(t)' = SecondsOf(t)
      /\ \A t \in Tasks : FingerprintSources(t)' = FingerprintSources(t)
      /\ clock' = clock /\ touched' = touched /\ money' = money /\ moneyAt' = moneyAt
      /\ returned' = returned /\ returnedIn' = returnedIn /\ moneyIn' = moneyIn
      /\ eventAt' = eventAt
  BY QuietSources DEF Quiet, sessionVars, sourceVars, moneyVars, returnVars
<1>2. /\ run' = [run EXCEPT ![r] = state] /\ run \in [Runners -> Computation]
      /\ \A q \in Runners : run[q].at \in Busy => run[q].task \in Tasks
      /\ \A place : place \in Saw => place \in Busy
  BY DEF Becomes, Inv, RowsInv, Saw, Busy
<1>3. ASSUME NEW t \in Tasks, Made(t)'
      PROVE  Vouched(t, actual[t].figures, actual[t].fingerprint, actual[t].computedAt)'
  BY <1>1, <1>3 DEF Inv, VouchInv, Made, Vouched, Dated
<1>4. ASSUME NEW q \in Runners
      PROVE  /\ run'[q].at \in Busy => Dated(run[q].task, run[q].fingerprint)'
             /\ run'[q].at \in Saw =>
                  Vouched(run[q].task, run[q].seen, run[q].fingerprint, run[q].now)'
  <2>1. CASE q = r
    BY <1>1, <1>2, <2>1 DEF Vouched, Dated, SecondsOf, FingerprintSources
  <2>2. CASE q # r
    <3>1. run'[q] = run[q]
      BY <1>2, <2>2
    <3>2. /\ run[q].at \in Busy => Dated(run[q].task, run[q].fingerprint)
          /\ run[q].at \in Saw =>
               Vouched(run[q].task, run[q].seen, run[q].fingerprint, run[q].now)
      BY DEF Inv, VouchInv
    <3> QED BY <1>1, <1>2, <3>1, <3>2 DEF Vouched, Dated, SecondsOf, FingerprintSources
  <2> QED BY <2>1, <2>2
<1>5. RepeatInv'
  BY <1>1, <1>2 DEF Inv, RepeatInv, Settled
<1> QED BY <1>3, <1>4, <1>5 DEF VouchInv

\* A computation that ends, or goes on to its next task, carries nothing.
AtRest(state) ==
  /\ state \in Computation
  /\ state.at \notin Busy
  /\ state.now = 0 /\ state.fingerprint = NoFingerprint

LEMMA Rests ==
  ASSUME RowsInv, NEW r \in Runners, Finish(r) \/ Becomes(r, Idle)
  PROVE  \E state : AtRest(state) /\ Becomes(r, state)
<1>1. AtRest(Idle)
  BY IdleTypes DEF AtRest, Idle, Busy
<1>2. AtRest([Idle EXCEPT !.at = "next", !.queue = run[r].queue])
  <2>1. run[r].queue \in SUBSET Tasks
    BY DEF RowsInv, Computation
  <2> QED BY <2>1, IdleTypes DEF AtRest, Idle, Busy, Computation, Places
<1> QED BY <1>1, <1>2 DEF Finish

\* Resting leaves everything but the locks of others as it was.
LEMMA RestStep ==
  ASSUME Inv, Quiet, actual' = actual, NEW r \in Runners, Finish(r) \/ Becomes(r, Idle),
         \A t \in Tasks : lock'[t] = lock[t] \/ (lock[t] = r /\ lock'[t] = Nobody),
         lock' \in [Tasks -> Runners \cup {Nobody}]
  PROVE  RowsInv' /\ VouchInv' /\ RepeatInv' /\ LockInv'
<1>1. PICK state : AtRest(state) /\ Becomes(r, state)
  BY Rests DEF Inv
<1>2. clock \in Nat
  BY DEF Inv, TimersInv, SessionsTypeOK, Seconds
<1>3. RowsInv'
  BY <1>1, <1>2, RowsStay DEF Inv, AtRest, RowsInv
<1>4. VouchInv' /\ RepeatInv'
  <2>1. state.at \notin Busy /\ state.at \notin Saw /\ state \in Computation
    BY <1>1 DEF AtRest, Busy, Saw
  <2> QED BY <1>1, <2>1, OthersStay
<1>5. LockInv'
  <2>1. ASSUME NEW q \in Runners, run'[q].at = "write"
        PROVE  lock'[run'[q].task] = q /\ run'[q].before = actual'[run'[q].task].figures
    <3>1. q # r /\ run'[q] = run[q]
      BY <1>1, <2>1 DEF AtRest, Busy, Becomes, Inv, RowsInv
    <3>2. /\ run[q].task \in Tasks /\ lock[run[q].task] = q
          /\ run[q].before = actual[run[q].task].figures
      BY <2>1, <3>1 DEF Inv, RowsInv, Busy, LockInv, JournalIsAChain
    <3> QED BY <3>1, <3>2
  <2> QED BY <2>1 DEF LockInv, JournalIsAChain
<1> QED BY <1>3, <1>4, <1>5

LEMMA Nobodies == Nobody \notin Runners /\ Nobody \notin Tasks
  BY ActualsAssumption DEF ActualsAssumption

LEMMA TakesStep ==
  ASSUME Inv, NEW r \in Runners, Takes(r)
  PROVE  RowsInv' /\ VouchInv' /\ RepeatInv' /\ LockInv'
<1>1. PICK t \in run[r].queue :
        Becomes(r, [run[r] EXCEPT !.at = "load", !.task = t, !.queue = @ \ {t}, !.now = clock,
                                  !.fingerprint = FingerprintSources(t)])
  BY DEF Takes
<1> DEFINE state == [run[r] EXCEPT !.at = "load", !.task = t, !.queue = @ \ {t}, !.now = clock,
                                   !.fingerprint = FingerprintSources(t)]
<1>2. TimersInv /\ SourcesInv /\ RowsInv /\ clock \in Seconds /\ clock \in Nat
  BY DEF Inv, TimersInv, SessionsTypeOK, Seconds
<1>3. run[r] \in Computation /\ t \in Tasks
  BY <1>2 DEF RowsInv, Computation
<1>4. FingerprintSources(t) \in Fingerprint /\ Dated(t, FingerprintSources(t))
  BY <1>2, <1>3, Reading
<1>5. state \in Computation /\ Becomes(r, state)
  BY <1>1, <1>2, <1>3, <1>4 DEF Computation, Places
<1>6. /\ state.at = "load" /\ state.now = clock /\ state.task = t
      /\ state.fingerprint = FingerprintSources(t)
  BY <1>3 DEF Computation
<1>7. actual' = actual /\ lock' = lock /\ Quiet
  BY DEF Takes, actualVars
<1> HIDE DEF state
<1>8. RowsInv'
  BY <1>2, <1>3, <1>5, <1>6, <1>7, RowsStay DEF RowsInv
<1>9. VouchInv' /\ RepeatInv'
  BY <1>3, <1>4, <1>5, <1>6, <1>7, OthersStay DEF Saw
<1>10. LockInv'
  BY <1>2, <1>5, <1>6, <1>7 DEF Inv, LockInv, JournalIsAChain, Becomes, RowsInv
<1> QED BY <1>8, <1>9, <1>10

LEMMA LoadsStep ==
  ASSUME Inv, NEW r \in Runners, Loads(r)
  PROVE  RowsInv' /\ VouchInv' /\ RepeatInv' /\ LockInv'
<1> DEFINE t == run[r].task
           now == run[r].now
           state == [run[r] EXCEPT !.at = "lock", !.seen = Assembled(t, now)]
<1>2. TimersInv /\ SourcesInv /\ RowsInv /\ VouchInv
  BY DEF Inv
<1>3. run[r] \in Computation /\ t \in Tasks /\ now \in Seconds /\ now <= clock
  BY <1>2 DEF RowsInv, Computation, Loads, Busy
<1>4. Dated(t, run[r].fingerprint)
  BY <1>2 DEF VouchInv, Loads, Busy
<1>5. /\ Assembled(t, now) \in Figures /\ Settled(Assembled(t, now))
      /\ Vouched(t, Assembled(t, now), run[r].fingerprint, now)
  BY <1>2, <1>3, <1>4, Reading
<1>6. state \in Computation /\ Becomes(r, state)
  BY <1>3, <1>5 DEF Computation, Places, Loads
<1>7. /\ state.at = "lock" /\ state.now = now /\ state.task = t
      /\ state.fingerprint = run[r].fingerprint /\ state.seen = Assembled(t, now)
  BY <1>3 DEF Computation
<1>8. actual' = actual /\ lock' = lock /\ Quiet
  BY DEF Loads, actualVars
<1> HIDE DEF state, t, now
<1>9. RowsInv'
  BY <1>2, <1>3, <1>6, <1>7, <1>8, RowsStay DEF RowsInv
<1>10. VouchInv' /\ RepeatInv'
  BY <1>3, <1>4, <1>5, <1>6, <1>7, <1>8, OthersStay
<1>11. LockInv'
  BY <1>2, <1>6, <1>7, <1>8 DEF Inv, LockInv, JournalIsAChain, Becomes, RowsInv
<1> QED BY <1>9, <1>10, <1>11

LEMMA LocksStep ==
  ASSUME Inv, NEW r \in Runners, Locks(r)
  PROVE  RowsInv' /\ VouchInv' /\ RepeatInv' /\ LockInv'
<1> DEFINE t == run[r].task
           state == [run[r] EXCEPT !.at = "write", !.before = actual[t].figures]
<1>1. RowsInv /\ VouchInv /\ RepeatInv /\ LockInv
  BY DEF Inv
<1>2. /\ run[r] \in Computation /\ t \in Tasks /\ run[r].now <= clock
      /\ actual[t].figures \in Figures \cup {NoFigures}
  BY <1>1 DEF RowsInv, Locks, Busy, Row
<1>3. /\ Dated(t, run[r].fingerprint) /\ Settled(run[r].seen)
      /\ Vouched(t, run[r].seen, run[r].fingerprint, run[r].now)
  BY <1>1 DEF VouchInv, RepeatInv, Locks, Saw, Busy
<1>4. state \in Computation /\ Becomes(r, state)
  BY <1>2 DEF Computation, Places, Locks
<1>5. /\ state.at = "write" /\ state.now = run[r].now /\ state.task = t
      /\ state.fingerprint = run[r].fingerprint /\ state.seen = run[r].seen
      /\ state.before = actual[t].figures
  BY <1>2 DEF Computation
<1>6. actual' = actual /\ lock' = [lock EXCEPT ![t] = r] /\ lock[t] = Nobody /\ Quiet
  BY DEF Locks
<1> HIDE DEF state, t
<1>7. RowsInv'
  <2>1. lock' \in [Tasks -> Runners \cup {Nobody}]
    BY <1>1, <1>6 DEF RowsInv
  <2> QED BY <1>1, <1>2, <1>4, <1>5, <1>6, <2>1, RowsStay DEF RowsInv
<1>8. VouchInv' /\ RepeatInv'
  BY <1>2, <1>3, <1>4, <1>5, <1>6, OthersStay
<1>9. LockInv'
  <2>1. ASSUME NEW q \in Runners, run'[q].at = "write"
        PROVE  lock'[run'[q].task] = q /\ run'[q].before = actual'[run'[q].task].figures
    <3>1. CASE q = r
      BY <1>1, <1>2, <1>4, <1>5, <1>6, <3>1 DEF Becomes, RowsInv
    <3>2. CASE q # r
      <4>1. run'[q] = run[q] /\ run[q].task \in Tasks
        BY <1>1, <1>4, <2>1, <3>2 DEF Becomes, RowsInv, Busy
      <4>2. lock[run[q].task] = q /\ run[q].task # t
        BY <1>1, <1>6, <2>1, <4>1, Nobodies DEF LockInv
      <4> QED BY <1>1, <1>2, <1>6, <2>1, <4>1, <4>2 DEF LockInv, JournalIsAChain, RowsInv
    <3> QED BY <3>1, <3>2
  <2> QED BY <2>1 DEF LockInv, JournalIsAChain
<1> QED BY <1>7, <1>8, <1>9

LEMMA StartsOverStep ==
  ASSUME Inv, NEW r \in Runners, StartsOver(r)
  PROVE  RowsInv' /\ VouchInv' /\ RepeatInv' /\ LockInv'
<1> DEFINE t == run[r].task
           state == [run[r] EXCEPT !.at = "load", !.attempt = @ + 1,
                                   !.fingerprint = FingerprintSources(t)]
<1>1. TimersInv /\ SourcesInv /\ RowsInv /\ clock \in Seconds
  BY DEF Inv, TimersInv, SessionsTypeOK
<1>2. actual' = actual /\ lock' = lock /\ Quiet
  BY DEF StartsOver, actualVars
<1>3. CASE Finish(r)
  BY <1>1, <1>2, <1>3, RestStep DEF RowsInv
<1>4. CASE run[r].attempt < MaxRetries /\ Becomes(r, state)
  <2>1. run[r] \in Computation /\ t \in Tasks /\ run[r].now <= clock
    BY <1>1 DEF RowsInv, StartsOver, Busy
  <2>2. clock \in Nat /\ 0 <= clock
    BY <1>1 DEF Seconds
  <2>3. FingerprintSources(t) \in Fingerprint /\ Dated(t, FingerprintSources(t))
    BY <1>1, <2>1, <2>2, Reading DEF Seconds
  <2>4. run[r].attempt + 1 \in 1..MaxRetries
    BY <1>4, <2>1, ActualsAssumption DEF Computation, ActualsAssumption
  <2>5. state \in Computation
    BY <2>1, <2>3, <2>4 DEF Computation, Places
  <2>6. /\ state.at = "load" /\ state.now = run[r].now /\ state.task = t
        /\ state.fingerprint = FingerprintSources(t)
    BY <2>1 DEF Computation
  <2> HIDE DEF state, t
  <2>7. RowsInv'
    BY <1>1, <1>2, <1>4, <2>1, <2>5, <2>6, RowsStay DEF RowsInv
  <2>8. VouchInv' /\ RepeatInv'
    BY <1>2, <1>4, <2>1, <2>3, <2>5, <2>6, OthersStay DEF Saw, t
  <2>9. LockInv'
    BY <1>1, <1>2, <1>4, <2>6 DEF Inv, LockInv, JournalIsAChain, Becomes, RowsInv
  <2> QED BY <2>7, <2>8, <2>9
<1> QED BY <1>3, <1>4 DEF StartsOver

\* The locks a writer gives back are its own.
LEMMA GivesBack ==
  ASSUME Inv, NEW r \in Runners, run[r].at = "write", lock' = Unlocked(run[r].task)
  PROVE  /\ \A t \in Tasks : lock'[t] = lock[t] \/ (lock[t] = r /\ lock'[t] = Nobody)
         /\ lock' \in [Tasks -> Runners \cup {Nobody}]
<1>1. run[r].task \in Tasks /\ lock[run[r].task] = r /\ lock \in [Tasks -> Runners \cup {Nobody}]
  BY DEF Inv, RowsInv, LockInv, Busy
<1> QED BY <1>1 DEF Unlocked

LEMMA WritesStep ==
  ASSUME Inv, NEW r \in Runners, Writes(r)
  PROVE  RowsInv' /\ VouchInv' /\ RepeatInv' /\ LockInv'
<1> DEFINE t == run[r].task
           row == [figures |-> run[r].seen, fingerprint |-> run[r].fingerprint,
                   computedAt |-> run[r].now]
<1>1. RowsInv /\ VouchInv /\ RepeatInv /\ LockInv /\ clock \in Nat
  BY DEF Inv, TimersInv, SessionsTypeOK, Seconds
<1>2. run[r].at = "write" /\ run[r] \in Computation /\ t \in Tasks /\ lock[t] = r
  BY <1>1 DEF RowsInv, LockInv, Writes, Busy
<1>3. PICK state : AtRest(state) /\ Becomes(r, state)
  BY <1>1, Rests DEF Writes
<1>4. /\ actual' = [actual EXCEPT ![t] = row] /\ lock' = Unlocked(t) /\ Quiet
      /\ run' = [run EXCEPT ![r] = state]
  BY <1>3 DEF Writes, Becomes
<1>5. row \in Row
  BY <1>2 DEF Row, Computation
<1>6. Settled(row.figures) /\ Vouched(t, row.figures, row.fingerprint, row.computedAt)
  BY <1>1, <1>2 DEF VouchInv, RepeatInv, Saw
<1> HIDE DEF row, t
<1>7. /\ \A q \in Tasks : SecondsOf(q)' = SecondsOf(q)
      /\ \A q \in Tasks : FingerprintSources(q)' = FingerprintSources(q)
      /\ clock' = clock /\ touched' = touched /\ money' = money /\ moneyAt' = moneyAt
      /\ returned' = returned /\ returnedIn' = returnedIn /\ moneyIn' = moneyIn
      /\ eventAt' = eventAt
  BY <1>4, QuietSources DEF Quiet, sessionVars, sourceVars, moneyVars, returnVars
<1>8. RowsInv'
  <2>1. actual' \in [Tasks -> Row]
    BY <1>1, <1>4, <1>5 DEF RowsInv
  <2>2. lock' \in [Tasks -> Runners \cup {Nobody}]
    BY <1>2, <1>4, GivesBack DEF t
  <2> QED BY <1>1, <1>3, <1>4, <2>1, <2>2, RowsStay DEF AtRest
<1>9. VouchInv'
  <2>1. ASSUME NEW q \in Tasks, Made(q)'
        PROVE  Vouched(q, actual[q].figures, actual[q].fingerprint, actual[q].computedAt)'
    <3>1. CASE q = t
      BY <1>1, <1>2, <1>4, <1>6, <1>7, <3>1 DEF RowsInv, Vouched, Dated
    <3>2. CASE q # t
      BY <1>1, <1>4, <1>7, <2>1, <3>2 DEF RowsInv, VouchInv, Made, Vouched, Dated
    <3> QED BY <3>1, <3>2
  <2>2. ASSUME NEW q \in Runners
        PROVE  /\ run'[q].at \in Busy => Dated(run[q].task, run[q].fingerprint)'
               /\ run'[q].at \in Saw =>
                    Vouched(run[q].task, run[q].seen, run[q].fingerprint, run[q].now)'
    <3>1. CASE q = r
      BY <1>1, <1>3, <1>4, <1>7, <3>1
         DEF AtRest, RowsInv, Dated, NoFingerprint, Busy, Saw
    <3>2. CASE q # r
      <4>1. run'[q] = run[q] /\ (run[q].at \in Busy => run[q].task \in Tasks)
            /\ (run[q].at \in Saw => run[q].at \in Busy)
        BY <1>1, <1>4, <3>2 DEF RowsInv, Saw, Busy
      <4>2. /\ run[q].at \in Busy => Dated(run[q].task, run[q].fingerprint)
            /\ run[q].at \in Saw =>
                 Vouched(run[q].task, run[q].seen, run[q].fingerprint, run[q].now)
        BY <1>1 DEF VouchInv
      <4> QED BY <1>7, <4>1, <4>2 DEF Vouched, Dated, SecondsOf, FingerprintSources
    <3> QED BY <3>1, <3>2
  <2> QED BY <2>1, <2>2 DEF VouchInv
<1>10. RepeatInv'
  <2>1. ASSUME NEW q \in Tasks PROVE Settled(actual[q].figures)'
    BY <1>1, <1>2, <1>4, <1>6, <1>7 DEF RowsInv, RepeatInv, Settled
  <2>2. ASSUME NEW q \in Runners, run'[q].at \in Saw PROVE Settled(run[q].seen)'
    BY <1>1, <1>3, <1>4, <1>7, <2>2 DEF AtRest, Saw, Busy, RowsInv, RepeatInv, Settled
  <2> QED BY <2>1, <2>2 DEF RepeatInv
<1>11. LockInv'
  <2>1. ASSUME NEW q \in Runners, run'[q].at = "write"
        PROVE  lock'[run'[q].task] = q /\ run'[q].before = actual'[run'[q].task].figures
    <3>1. q # r /\ run'[q] = run[q] /\ run[q].task \in Tasks
      BY <1>1, <1>3, <1>4, <2>1 DEF AtRest, Busy, RowsInv
    <3>2. lock[run[q].task] = q /\ run[q].task # t
      BY <1>1, <1>2, <2>1, <3>1 DEF LockInv
    <3> QED BY <1>1, <1>4, <2>1, <3>1, <3>2 DEF LockInv, JournalIsAChain, RowsInv, Unlocked
  <2> QED BY <2>1 DEF LockInv, JournalIsAChain
<1> QED BY <1>8, <1>9, <1>10, <1>11

LEMMA FindsItUnchangedStep ==
  ASSUME Inv, NEW r \in Runners, FindsItUnchanged(r)
  PROVE  RowsInv' /\ VouchInv' /\ RepeatInv' /\ LockInv'
  BY RestStep, GivesBack DEF FindsItUnchanged

LEMMA DiesStep ==
  ASSUME Inv, NEW r \in Runners, Dies(r)
  PROVE  RowsInv' /\ VouchInv' /\ RepeatInv' /\ LockInv'
<1>1. Quiet /\ actual' = actual /\ Becomes(r, Idle)
  BY DEF Dies, Quiet
<1>2. /\ \A t \in Tasks : lock'[t] = lock[t] \/ (lock[t] = r /\ lock'[t] = Nobody)
      /\ lock' \in [Tasks -> Runners \cup {Nobody}]
  BY DEF Dies, Inv, RowsInv
<1> QED BY <1>1, <1>2, RestStep

-----------------------------------------------------------------------------
(* Theorems.                                                               *)

LEMMA InitInv == Init => Inv
<1> SUFFICES ASSUME Init PROVE Inv
  OBVIOUS
<1>1. TimersInv /\ clock = 0
  BY TimersInit DEF Init, SessionsInit
<1>2. MaxMoney \in Nat
  BY ActualsAssumption DEF ActualsAssumption
<1>3. SourcesInv
  BY <1>1, <1>2 DEF Init, SourcesInv, Seconds, Money, NoWrite
<1>4. NoActual \in Row
  BY <1>2 DEF NoActual, Row, Fingerprint, NoFingerprint, Seconds, Money
<1>5. RowsInv
  BY <1>1, <1>4, IdleTypes DEF Init, RowsInv, Idle, Busy
<1>6. VouchInv
  BY <1>1 DEF Init, VouchInv, Made, NoActual, Idle, Saw, Busy
<1>7. RepeatInv
  BY DEF Init, RepeatInv, NoActual, NoFigures, Settled, Idle, Saw
<1>8. LockInv
  BY DEF Init, LockInv, JournalIsAChain, Idle
<1> QED BY <1>1, <1>3, <1>5, <1>6, <1>7, <1>8 DEF Inv

LEMMA NextInv == Inv /\ [Next]_vars => Inv'
<1> SUFFICES ASSUME Inv, [Next]_vars PROVE Inv'
  OBVIOUS
<1>1. CASE World /\ TimersInv' /\ SourcesInv'
  BY <1>1, WorldStep
<1>2. ASSUME NEW r \in Runners, (Computes(r) \/ Dies(r)) /\ Quiet PROVE Inv'
  <2>1. TimersInv' /\ SourcesInv'
    BY <1>2, QuietSources DEF Inv
  <2>2. RowsInv' /\ VouchInv' /\ RepeatInv' /\ LockInv'
    BY <1>2, TakesStep, LoadsStep, LocksStep, StartsOverStep, WritesStep,
       FindsItUnchangedStep, DiesStep DEF Computes
  <2> QED BY <2>1, <2>2 DEF Inv
<1> QED BY <1>1, <1>2, Kinds

\* The invariant holds of every behaviour of the actuals
\* (operational-actuals.ts, work-sessions.ts).
THEOREM Invariance == Spec => []Inv
  BY InitInv, NextInv, PTL DEF Spec

\* Rows, timers and computations keep their types, retries their limit
\* (computeTaskOperationalActual).
THEOREM TypeCorrect == Spec => []TypeOK
<1>1. Inv => TypeOK
  BY DEF Inv, TimersInv, SourcesInv, RowsInv, TypeOK, Computation, Row
<1> QED BY <1>1, Invariance, PTL

\* No timer says more than the time since it was first started (work-sessions.ts).
THEOREM TimersAreHonest == Spec => []NoTimeInvented
<1>1. Inv => NoTimeInvented
  BY DEF Inv, TimersInv
<1> QED BY <1>1, Invariance, PTL

\* A row with the sources' fingerprint says what the sources say
\* (computeTaskOperationalActual).
THEOREM FingerprintsVouch == Spec => []FingerprintVouches
<1>1. Inv => FingerprintVouches
  BY DEF Inv, VouchInv, Vouched, FingerprintVouches
<1> QED BY <1>1, Invariance, PTL

\* A writer's event begins where the last one ended (the advisory lock of
\* computeTaskOperationalActual).
THEOREM JournalsAreChains == Spec => []JournalIsAChain
<1>1. Inv => JournalIsAChain
  BY DEF Inv, LockInv
<1> QED BY <1>1, Invariance, PTL

\* A stale row is one the sweep selects, unless it was computed while the
\* transaction it misses was open (recomputeStaleOperationalActuals).
THEOREM StaleIsSeen == Spec => []StaleIsVisible
<1>1. Inv => StaleIsVisible
  <2> SUFFICES ASSUME Inv, NEW t \in Tasks, Outdated(t), t \notin Moved
               PROVE  /\ actual[t].figures.seconds = SecondsOf(t)
                      /\ actual[t].computedAt \in moneyAt[t]..moneyIn[t]
    BY DEF StaleIsVisible
  <2>1. Made(t) /\ Vouched(t, actual[t].figures, actual[t].fingerprint, actual[t].computedAt)
    BY DEF Inv, VouchInv, Outdated
  <2>2. /\ touched[t] \in Nat /\ moneyAt[t] \in Nat /\ moneyIn[t] \in Nat
        /\ actual[t].computedAt \in Nat
    BY DEF Inv, TimersInv, SessionsTypeOK, SourcesInv, RowsInv, Row, Seconds, Tasks
  <2>3. touched[t] <= actual[t].computedAt /\ moneyAt[t] <= actual[t].computedAt
    BY <2>1, <2>2 DEF Moved
  <2> QED BY <2>1, <2>2, <2>3 DEF Vouched, Outdated
<1> QED BY <1>1, Invariance, PTL

\* A resolved window was resolved rightly, but for an acceptance that was open
\* when the window ended (resolveRepeatStatus).
THEOREM RepeatsAreHonest == Spec => []RepeatIsHonest
<1>1. Inv => RepeatIsHonest
  BY DEF Inv, RepeatInv, Settled, RepeatIsHonest
<1> QED BY <1>1, Invariance, PTL
=============================================================================
