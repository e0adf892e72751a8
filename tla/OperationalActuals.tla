------------------------- MODULE OperationalActuals -------------------------
(***************************************************************************)
(* The operational actual of each accepted task: one row derived from all  *)
(* the others, recomputed by hooks after a change and by two sweeps        *)
(* (src/server/operational-actuals.ts).                                    *)
(*                                                                         *)
(* A computation fingerprints the sources, loads them, and only then locks *)
(* the task, fingerprints again and writes if nothing moved.  The sources  *)
(* are never locked: timers (WorkSessions), payments and payouts, and      *)
(* events that change nothing the actual says.  A timer's row is written   *)
(* by one statement that commits at once; a payment, a payout and the      *)
(* acceptance of another task are dated by a statement of a transaction    *)
(* that others see only when it commits, up to Slowest later.              *)
(*                                                                         *)
(* The actual's figures are abstracted to the seconds worked, what the     *)
(* payments and payouts come to, and whether the client came back within   *)
(* the window, which is read from the client's other tasks.                *)
(*                                                                         *)
(* Every task has been accepted at instant 0; Timers are the tasks' own.   *)
(***************************************************************************)
EXTENDS WorkSessions, FiniteSets

CONSTANTS
  Runners,    \* processes: the after() of a request, the cron, a page's sweep
  Nobody,
  MaxMoney,   \* bound on what payments and payouts come to
  Window,     \* REPEAT_WINDOW_DAYS
  MaxRetries, \* MAX_FINGERPRINT_RETRIES
  Limit,      \* limit of recomputeStaleOperationalActuals
  Slowest,    \* ticks a transaction may stay open: the limit Prisma sets it
  Mortal      \* whether processes die

Tasks == Timers
Money == 0..MaxMoney

ASSUME ActualsAssumption ==
  /\ Nobody \notin Runners \cup Tasks
  /\ MaxMoney \in Nat
  /\ Window \in Nat \ {0}
  /\ MaxRetries \in Nat \ {0}
  /\ Limit \in Nat \ {0}
  /\ Slowest \in Nat
  /\ Mortal \in BOOLEAN

VARIABLES
  money,      \* sums over payments, refunds and payouts
  moneyAt,    \* max(updatedAt) of those rows
  eventAt,    \* max(createdAt) of the task's events, but for the journal
  returned,   \* acceptedAt of the client's other task, 0 without one
  writing,    \* the open transaction on a task's payments, NoWrite without one
  accepting,  \* acceptedAt in the open transaction of the other task, 0 if none
  moneyIn,    \* when the money was last committed; no code reads it
  returnedIn, \* when the other task was committed; no code reads it
  actual,     \* TaskOperationalActual, NoActual without a row
  lock,       \* holder of the task's advisory lock
  run         \* of each process, its computation

moneyVars  == <<money, moneyAt, moneyIn, writing>>
returnVars == <<returned, returnedIn, accepting>>
sourceVars == <<moneyVars, eventAt, returnVars>>
actualVars == <<actual, lock>>
vars == <<clock, sessionVars, sourceVars, actualVars, run>>

-----------------------------------------------------------------------------
\* Mutant: the window closes a moment early.
RepeatStatusEarly(now) ==
  IF returned # 0 /\ returned <= Window THEN "yes"
  ELSE IF now < Window - 1 THEN "open" ELSE "no"

\* resolveRepeatStatus: open is null, the window is not over.
RepeatStatus(now) ==
  IF returned # 0 /\ returned <= Window THEN "yes"
  ELSE IF now < Window THEN "open" ELSE "no"

Figures == [seconds : Seconds, money : Money, repeat : {"yes", "open", "no"}]
NoFigures == [seconds |-> 0, money |-> 0, repeat |-> "none"]

\* loadAndAssemble
Assembled(t, now) ==
  [seconds |-> SecondsOf(t), money |-> money[t], repeat |-> RepeatStatus(now)]

\* Mutant: the timers are counted, not summed, and a pause adds no row.
FingerprintCounts(t) ==
  [seconds |-> 0, touched |-> 0,
   money |-> money[t], moneyAt |-> moneyAt[t], eventAt |-> eventAt[t]]

\* fingerprintSources: sums and latest stamps, not the client's other tasks.
FingerprintSources(t) ==
  [seconds |-> SecondsOf(t), touched |-> touched[t],
   money |-> money[t], moneyAt |-> moneyAt[t], eventAt |-> eventAt[t]]

NoWrite == [money |-> 0, at |-> 0]

Fingerprint ==
  [seconds : Seconds, touched : Seconds, money : Money, moneyAt : Seconds,
   eventAt : Seconds]
NoFingerprint ==
  [seconds |-> 0, touched |-> 0, money |-> 0, moneyAt |-> 0, eventAt |-> 0]

NoActual == [figures |-> NoFigures, fingerprint |-> NoFingerprint, computedAt |-> 0]
Made(t)  == actual[t].figures # NoFigures

Idle ==
  [at |-> "idle", queue |-> {}, task |-> Nobody, now |-> 0, attempt |-> 1,
   fingerprint |-> NoFingerprint, seen |-> NoFigures, before |-> NoFigures]

Places == {"idle", "next", "load", "lock", "write"}

TypeOK ==
  /\ SessionsTypeOK
  /\ money \in [Tasks -> Money]
  /\ moneyAt \in [Tasks -> Seconds] /\ eventAt \in [Tasks -> Seconds]
  /\ returned \in Seconds
  /\ writing \in [Tasks -> [money : Money, at : Seconds]] /\ accepting \in Seconds
  /\ moneyIn \in [Tasks -> Seconds] /\ returnedIn \in Seconds
  /\ actual \in [Tasks -> [figures : Figures \cup {NoFigures}, fingerprint : Fingerprint,
                           computedAt : Seconds]]
  /\ lock \in [Tasks -> Runners \cup {Nobody}]
  /\ run \in [Runners -> [at : Places, queue : SUBSET Tasks, task : Tasks \cup {Nobody},
                          now : Seconds, attempt : 1..MaxRetries, fingerprint : Fingerprint,
                          seen : Figures \cup {NoFigures}, before : Figures \cup {NoFigures}]]

Init ==
  /\ SessionsInit
  /\ money = [t \in Tasks |-> 0]
  /\ moneyAt = [t \in Tasks |-> 0] /\ eventAt = [t \in Tasks |-> 0]
  /\ returned = 0
  /\ writing = [t \in Tasks |-> NoWrite] /\ accepting = 0
  /\ moneyIn = [t \in Tasks |-> 0] /\ returnedIn = 0
  /\ actual = [t \in Tasks |-> NoActual]
  /\ lock = [t \in Tasks |-> Nobody]
  /\ run = [r \in Runners |-> Idle]

-----------------------------------------------------------------------------
(* The sources move.                                                       *)

Becomes(r, state) == run' = [run EXCEPT ![r] = state]

WorksThrough(r, S) == Becomes(r, [Idle EXCEPT !.at = "next", !.queue = S])

\* The request that made a change recomputes S in its after(), unless it dies.
After(S) == \E r \in Runners : run[r].at = "idle" /\ WorksThrough(r, S)

\* The buttons of a timer have no hook.
TimerMoves(t) ==
  /\ TimerStep(t)
  /\ UNCHANGED <<sourceVars, actualVars, run>>

\* submitDeliverable and the reviews: stopAllOpenSessions, then the hook.
StopsAfterwards(t) ==
  /\ StopSession(t)
  /\ After({t})
  /\ UNCHANGED <<sourceVars, actualVars>>

StaleTimersClose ==
  /\ CloseStaleWorkSessions
  /\ UNCHANGED <<sourceVars, actualVars, run>>

\* A capture, a refund, a payout paid or re-armed in place: the statement that
\* dates the row, in a transaction no other reads.
MoneyIsWritten(t) ==
  /\ writing[t] = NoWrite
  /\ TimePasses
  /\ \E m \in Money \ {money[t]} :
       writing' = [writing EXCEPT ![t] = [money |-> m, at |-> Now]]
  /\ UNCHANGED <<sessionVars, money, moneyAt, moneyIn, eventAt, returnVars, actualVars, run>>

\* Its transaction commits, of a request with a hook, or of a webhook, an order
\* or a sweep without one.
MoneyCommits(t) ==
  /\ writing[t] # NoWrite /\ clock <= writing[t].at + Slowest
  /\ money' = [money EXCEPT ![t] = writing[t].money]
  /\ moneyAt' = [moneyAt EXCEPT ![t] = writing[t].at]
  /\ moneyIn' = [moneyIn EXCEPT ![t] = clock]
  /\ writing' = [writing EXCEPT ![t] = NoWrite]
  /\ After({t}) \/ UNCHANGED run
  /\ UNCHANGED <<clock, sessionVars, eventAt, returnVars, actualVars>>

\* It fails, runs out of time or dies with its process.
MoneyRollsBack(t) ==
  /\ writing[t] # NoWrite
  /\ writing' = [writing EXCEPT ![t] = NoWrite]
  /\ UNCHANGED <<clock, sessionVars, money, moneyAt, moneyIn, eventAt, returnVars, actualVars, run>>

\* An event of which the actual says nothing, as the retention sweep writes one.
EventIsRecorded(t) ==
  /\ TimePasses
  /\ eventAt' = [eventAt EXCEPT ![t] = Now]
  /\ After({t}) \/ UNCHANGED run
  /\ UNCHANGED <<sessionVars, moneyVars, returnVars, actualVars>>

\* acceptQuote of another task of the client dates the acceptance.
ClientAcceptsAnother ==
  /\ returned = 0 /\ accepting = 0
  /\ TimePasses
  /\ accepting' = Now
  /\ UNCHANGED <<sessionVars, moneyVars, eventAt, returned, returnedIn, actualVars, run>>

\* It commits, and its hook is recomputeOpenRepeatWindowsForClient.
AcceptanceCommits ==
  /\ accepting # 0 /\ clock <= accepting + Slowest
  /\ returned' = accepting /\ returnedIn' = clock /\ accepting' = 0
  /\ (clock < Window /\ After(Tasks)) \/ UNCHANGED run
  /\ UNCHANGED <<clock, sessionVars, moneyVars, eventAt, actualVars>>

AcceptanceRollsBack ==
  /\ accepting # 0
  /\ accepting' = 0
  /\ UNCHANGED <<clock, sessionVars, moneyVars, eventAt, returned, returnedIn, actualVars, run>>

Tick ==
  /\ TimePasses
  /\ UNCHANGED <<sessionVars, sourceVars, actualVars, run>>

-----------------------------------------------------------------------------
(* The sweeps select.                                                      *)

Unmade == {t \in Tasks : ~Made(t)}

\* Sources that moved after the actual was computed, as the sweep can tell.
Moved ==
  {t \in Tasks : /\ Made(t)
                 /\ \/ eventAt[t] > actual[t].computedAt
                    \/ moneyAt[t] > actual[t].computedAt
                    \/ touched[t] > actual[t].computedAt}

\* The first Limit of them, those without an actual before the others.
Candidates ==
  {S \in SUBSET (Unmade \cup Moved) :
     /\ Cardinality(S) = IF Cardinality(Unmade \cup Moved) < Limit
                         THEN Cardinality(Unmade \cup Moved) ELSE Limit
     /\ Unmade \subseteq S \/ S \subseteq Unmade}

\* recomputeStaleOperationalActuals selects.
StaleSweepSelects(r) ==
  /\ run[r].at = "idle" /\ Unmade \cup Moved # {}
  /\ \E S \in Candidates : WorksThrough(r, S)
  /\ UNCHANGED <<clock, sessionVars, sourceVars, actualVars>>

Expired == {t \in Tasks : Made(t) /\ actual[t].figures.repeat = "open" /\ Window <= clock}

\* closeExpiredRepeatWindows selects; its 50 are more than the tasks here.
WindowSweepSelects(r) ==
  /\ run[r].at = "idle" /\ Expired # {}
  /\ WorksThrough(r, Expired)
  /\ UNCHANGED <<clock, sessionVars, sourceVars, actualVars>>

-----------------------------------------------------------------------------
(* computeTaskOperationalActual                                            *)

Quiet == UNCHANGED <<clock, sessionVars, sourceVars>>

Finish(r) ==
  Becomes(r, IF run[r].queue = {} THEN Idle
             ELSE [Idle EXCEPT !.at = "next", !.queue = run[r].queue])

\* The first fingerprint, and the instant the row will bear.
Takes(r) ==
  /\ run[r].at = "next"
  /\ \E t \in run[r].queue :
       Becomes(r, [run[r] EXCEPT !.at = "load", !.task = t, !.queue = @ \ {t}, !.now = clock,
                                 !.fingerprint = FingerprintSources(t)])
  /\ UNCHANGED actualVars /\ Quiet

Loads(r) ==
  /\ run[r].at = "load"
  /\ Becomes(r, [run[r] EXCEPT !.at = "lock", !.seen = Assembled(run[r].task, run[r].now)])
  /\ UNCHANGED actualVars /\ Quiet

\* Mutant: no lock.
LocksNothing(r) ==
  LET t == run[r].task IN
  /\ run[r].at = "lock"
  /\ FingerprintSources(t) = run[r].fingerprint
  /\ Becomes(r, [run[r] EXCEPT !.at = "write", !.before = actual[t].figures])
  /\ UNCHANGED actualVars /\ Quiet

\* The lock, the second fingerprint and the row as it is.
Locks(r) ==
  LET t == run[r].task IN
  /\ run[r].at = "lock" /\ lock[t] = Nobody
  /\ FingerprintSources(t) = run[r].fingerprint
  /\ lock' = [lock EXCEPT ![t] = r]
  /\ Becomes(r, [run[r] EXCEPT !.at = "write", !.before = actual[t].figures])
  /\ UNCHANGED actual /\ Quiet

\* Mutant: one attempt too many.
StartsOverAgain(r) ==
  LET t == run[r].task IN
  /\ run[r].at = "lock" /\ lock[t] = Nobody
  /\ FingerprintSources(t) # run[r].fingerprint
  /\ Becomes(r, [run[r] EXCEPT !.at = "load", !.attempt = @ + 1,
                               !.fingerprint = FingerprintSources(t)])
  /\ UNCHANGED actualVars /\ Quiet

\* Something moved: once more from the beginning, or left to the next trigger.
StartsOver(r) ==
  LET t == run[r].task IN
  /\ run[r].at = "lock" /\ lock[t] = Nobody
  /\ FingerprintSources(t) # run[r].fingerprint
  /\ IF run[r].attempt < MaxRetries
     THEN Becomes(r, [run[r] EXCEPT !.at = "load", !.attempt = @ + 1,
                                    !.fingerprint = FingerprintSources(t)])
     ELSE Finish(r)
  /\ UNCHANGED actualVars /\ Quiet

Unlocked(t) == [lock EXCEPT ![t] = Nobody]

\* Mutant: the row bears the instant it was written, not that of its figures.
WritesStampedLate(r) ==
  LET t == run[r].task IN
  /\ run[r].at = "write" /\ run[r].before # run[r].seen
  /\ actual' = [actual EXCEPT ![t] = [figures |-> run[r].seen,
                                      fingerprint |-> run[r].fingerprint,
                                      computedAt |-> clock]]
  /\ lock' = Unlocked(t)
  /\ Finish(r) /\ Quiet

Writes(r) ==
  LET t == run[r].task IN
  /\ run[r].at = "write" /\ run[r].before # run[r].seen
  /\ actual' = [actual EXCEPT ![t] = [figures |-> run[r].seen,
                                      fingerprint |-> run[r].fingerprint,
                                      computedAt |-> run[r].now]]
  /\ lock' = Unlocked(t)
  /\ Finish(r) /\ Quiet

\* Equal hashes write nothing, not even computedAt.
FindsItUnchanged(r) ==
  /\ run[r].at = "write" /\ run[r].before = run[r].seen
  /\ lock' = Unlocked(run[r].task)
  /\ Finish(r)
  /\ UNCHANGED actual /\ Quiet

\* A process that dies leaves its tasks to the sweep; the lock is its transaction's.
Dies(r) ==
  /\ run[r].at # "idle" /\ Mortal
  /\ lock' = [t \in Tasks |-> IF lock[t] = r THEN Nobody ELSE lock[t]]
  /\ Becomes(r, Idle)
  /\ UNCHANGED <<clock, sessionVars, sourceVars, actual>>

-----------------------------------------------------------------------------
Computes(r) ==
  \/ Takes(r) \/ Loads(r) \/ Locks(r) \/ StartsOver(r)
  \/ Writes(r) \/ FindsItUnchanged(r)

SourceStep(t) ==
  \/ TimerMoves(t) \/ StopsAfterwards(t) \/ EventIsRecorded(t)
  \/ MoneyIsWritten(t) \/ MoneyCommits(t) \/ MoneyRollsBack(t)

ClientStep == ClientAcceptsAnother \/ AcceptanceCommits \/ AcceptanceRollsBack

Next ==
  \/ \E t \in Tasks : SourceStep(t)
  \/ StaleTimersClose \/ ClientStep \/ Tick
  \/ \E r \in Runners :
       \/ StaleSweepSelects(r) \/ WindowSweepSelects(r)
       \/ Computes(r) \/ Dies(r)

Spec == Init /\ [][Next]_vars

\* Time goes on, the cron's sweeps run again and again, and code that runs goes
\* on.  Nothing is assumed of hooks.  With Mortal FALSE it does not die either.
Fairness ==
  /\ WF_vars(Tick)
  /\ \A r \in Runners : /\ WF_vars(Computes(r))
                        /\ SF_vars(StaleSweepSelects(r)) /\ SF_vars(WindowSweepSelects(r))

FairSpec == Spec /\ Fairness

-----------------------------------------------------------------------------
(* Properties.                                                             *)

\* A row that carries the fingerprint its sources have now says what they say:
\* the second fingerprint leaves no way to write figures loaded while they moved
\* (computeTaskOperationalActual).  The client's other tasks are not in it.
FingerprintVouches ==
  \A t \in Tasks :
    Made(t) /\ actual[t].fingerprint = FingerprintSources(t) =>
      actual[t].figures.seconds = SecondsOf(t) /\ actual[t].figures.money = money[t]

\* The event a writer is about to add begins where the last one ended
\* ("beforeHash -> upsert -> TaskEvent is ONE coherent transition").
JournalIsAChain ==
  \A r \in Runners : run[r].at = "write" => run[r].before = actual[run[r].task].figures

\* The row no longer says what its timers and payments say.
Outdated(t) ==
  Made(t) /\ (actual[t].figures.seconds # SecondsOf(t) \/ actual[t].figures.money # money[t])

\* An actual that no longer says what its timers and payments say is one the
\* sweep's query returns, whichever computation wrote it last and however early
\* that one began; unless its timers are right and the payments were written
\* before that computation began and committed only after it
\* (recomputeStaleOperationalActuals).
StaleIsVisible ==
  \A t \in Tasks :
    Outdated(t) =>
      \/ t \in Moved
      \/ /\ actual[t].figures.seconds = SecondsOf(t)
         /\ actual[t].computedAt \in moneyAt[t]..moneyIn[t]

\* A resolved window is resolved rightly, though the instant is taken before the
\* client's other tasks are read; unless the acceptance that counts was open at
\* the window's end (resolveRepeatStatus, loadAndAssemble).
RepeatIsHonest ==
  \A t \in Tasks :
    /\ actual[t].figures.repeat = "yes" => returned \in 1..Window
    /\ actual[t].figures.repeat = "no" => ~(returned \in 1..Window /\ returnedIn < Window)

\* "any task whose sources moved after its actual gets recomputed" (runOperatorSweeps):
\* once the sources are at rest every actual comes to say what they say.
ActualsCatchUp ==
  <>[](\A t \in Tasks : /\ actual[t].figures.seconds = SecondsOf(t)
                        /\ actual[t].figures.money = money[t])
=============================================================================
