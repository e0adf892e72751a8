----------------------------- MODULE WorkflowRun -----------------------------
(***************************************************************************)
(* The automated run of one paid task: src/server/workflow-runs.ts with    *)
(* its budget (workflow-budget.ts), its metered calls (metered-call.ts),   *)
(* its payloads (workflow-artifacts.ts) and the stall sweep.               *)
(*                                                                         *)
(* An invocation is the after() callback of a payment or a cron tick.  It  *)
(* holds no transaction across a step, so each round trip is an action: it *)
(* claims, reserves, calls, persists and finishes, and may die in between. *)
(* A lease may lapse whenever its step runs, so an invocation that lost it *)
(* (a ghost) goes on beside the one that took the step over.  One thing is *)
(* assumed of time: the deadline of a call is shorter than that of its     *)
(* step (CALL_TIMEOUT_MS under the registry's timeoutMs), so a step is not *)
(* given up while its call is open: withTimeout would release its hold.    *)
(*                                                                         *)
(* The payment may lapse while the machine works, and then the database    *)
(* refuses the task to the pool (migration 20260806170200).                *)
(***************************************************************************)
EXTENDS Integers, FiniteSets

CONSTANTS
  Invocations,
  Nobody,        \* lockedBy is null
  NSteps,        \* steps of the accepted plan
  Billable,      \* steps whose primitive calls a provider
  MaxAttempts,   \* attemptsAllowedForStep
  WorstCase,     \* maxCostMicrosPerAttemptAtQuote
  Ceiling,       \* runAutomationBudgetMicros
  PayoutKnown,   \* vaPayoutCents and estimatedMinutes were quoted above zero
  MayLapse,      \* whether a payment may lapse
  MaxDeaths      \* bound on processes that die

Steps    == 1..NSteps
Attempts == Steps \X (1..MaxAttempts)

ASSUME RunAssumption ==
  /\ Nobody \notin Invocations
  /\ NSteps \in Nat
  /\ Billable \subseteq Steps
  /\ MaxAttempts \in Nat \ {0}
  /\ WorstCase \in Nat
  /\ Ceiling \in Nat
  /\ PayoutKnown \in BOOLEAN
  /\ MayLapse \in BOOLEAN
  /\ MaxDeaths \in Nat

VARIABLES
  task,        \* Task.status
  payout,      \* vaPayoutCents: as quoted, or the residual
  run,         \* TaskWorkflowRun.status, "none" without a row
  automated,   \* TaskWorkflowRun.automatedStepCount
  package,     \* the TaskHumanWorkPackage exists
  status,      \* of each step; "lapsed" and "backoff" split running and failed by time
  attempts,    \* of each step
  holder,      \* lockedBy of each step
  payload,     \* the attempt whose payload is stored, 0 for none
  hold,        \* WorkflowBudgetHold of each attempt
  spent,       \* actualAiCostMicros + actualToolCostMicros
  sent,        \* attempts whose request left for the provider
  calls,       \* requests sent, per step
  at,          \* where each invocation is
  on,          \* the step and attempt it works on
  paid,        \* the task has an authorized or received Payment
  deaths       \* processes that died so far

taskVars   == <<task, payout, run, automated, package>>
stepVars   == <<status, attempts, holder>>
budgetVars == <<hold, spent>>
callVars   == <<sent, calls>>
invVars    == <<at, on>>
worldVars  == <<paid, deaths>>
vars == <<taskVars, stepVars, payload, budgetVars, callVars, invVars, worldVars>>

StepOf(i)  == on[i][1]
Working    == {"claimed", "ready", "calling", "answered", "persisted", "failing", "fatal"}
Automated  == {s \in Steps : status[s] # "human"}
Held       == {k \in Attempts : hold[k] = "held"}
Finished   == {"done", "human"}

TypeOK ==
  /\ task \in {"ai_processing", "open", "cancelled"}
  /\ payout \in {"quoted", "residual"}
  /\ run \in {"none", "running", "awaiting_human", "paused", "abandoned"}
  /\ automated \in 0..NSteps
  /\ package \in BOOLEAN
  /\ status \in [Steps -> {"pending", "running", "lapsed", "backoff", "failed", "done", "human"}]
  /\ attempts \in [Steps -> 0..MaxAttempts]
  /\ holder \in [Steps -> Invocations \cup {Nobody}]
  /\ payload \in [Steps -> 0..MaxAttempts]
  /\ hold \in [Attempts -> {"none", "held", "settled", "released"}]
  /\ spent \in Nat
  /\ sent \subseteq Attempts
  /\ calls \in [Steps -> Nat]
  /\ at \in [Invocations -> Working \cup {"idle", "walk", "again", "closing", "pausing", "handover", "overBudget", "publish"}]
  /\ on \in [Invocations -> Attempts \cup {<<0, 0>>}]
  /\ \A i \in Invocations : at[i] \in Working => on[i] \in Attempts
  /\ paid \in BOOLEAN /\ deaths \in 0..MaxDeaths

Init ==
  /\ task = "ai_processing" /\ payout = "quoted" /\ run = "none"
  /\ automated = 0 /\ package = FALSE
  /\ status = [s \in Steps |-> "pending"]
  /\ attempts = [s \in Steps |-> 0]
  /\ holder = [s \in Steps |-> Nobody]
  /\ payload = [s \in Steps |-> 0]
  /\ hold = [k \in Attempts |-> "none"]
  /\ spent = 0 /\ sent = {} /\ calls = [s \in Steps |-> 0]
  /\ at = [i \in Invocations |-> "idle"]
  /\ on = [i \in Invocations |-> <<0, 0>>]
  /\ paid = TRUE /\ deaths = 0

Goes(i, place) == at' = [at EXCEPT ![i] = place] /\ UNCHANGED on

\* The same, done with its step.
Leaves(i, place) ==
  /\ at' = [at EXCEPT ![i] = place]
  /\ on' = [on EXCEPT ![i] = <<0, 0>>]

Returns(i) == Leaves(i, "idle")

-----------------------------------------------------------------------------
(* Compilation and the ways into the run.                                  *)

\* startWorkflow: compile the accepted plan; a plan that is all human goes
\* straight to the handover.  The compiler decides which steps a machine does.
\* The callback may be late for a cancellation, not for the six-hour sweep;
\* a second one finds the run there.
StartWorkflow(i) ==
  /\ at[i] = "idle" /\ run = "none" /\ task # "open"
  /\ \E machine \in SUBSET Steps :
       /\ automated' = Cardinality(machine)
       /\ status' = [s \in Steps |-> IF s \in machine THEN "pending" ELSE "human"]
       /\ run' = IF machine = {} THEN "awaiting_human" ELSE "running"
       /\ Goes(i, IF machine = {} THEN "handover" ELSE "idle")
  /\ UNCHANGED <<task, payout, package, attempts, holder, payload, budgetVars, callVars, worldVars>>

\* releaseToPoolWithoutAutomation: the pool takes a task as it was quoted, if
\* the payout is known and the payment guard of the database lets it in.
ReleaseToPool ==
  /\ task = "ai_processing" /\ PayoutKnown /\ paid
  /\ task' = "open"

\* startWorkflow with nothing to compile.
ReleaseUncompiled ==
  /\ run = "none"
  /\ ReleaseToPool
  /\ UNCHANGED <<payout, run, automated, package, stepVars, payload, budgetVars, callVars,
                 invVars, worldVars>>

\* advanceWorkflow, from startWorkflow or processWorkflowRuns: the run and the
\* task are looked at once, here, and not again while the invocation walks.
Tick(i) ==
  /\ at[i] = "idle" /\ run = "running"
  /\ IF task = "ai_processing"
       THEN Goes(i, "walk") /\ UNCHANGED run
       ELSE run' = "abandoned" /\ UNCHANGED invVars
  /\ UNCHANGED <<task, payout, automated, package, stepVars, payload, budgetVars, callVars,
                 worldVars>>

-----------------------------------------------------------------------------
(* Claiming.                                                               *)

\* Mutant: the lowest claimable step, whatever runs before it.
LowestClaimable(s) == status[s] \notin Finished

\* The first step that is not finished, the only one the walk may consider.
IsNext(s) ==
  /\ status[s] \notin Finished
  /\ \A r \in 1..(s - 1) : status[r] \in Finished

Claimable(s) == IsNext(s) /\ status[s] \in {"pending", "failed", "lapsed"}

\* Mutant: one attempt too many.
AttemptLeftOffByOne(s) == attempts[s] <= MaxAttempts

AttemptLeft(s) == attempts[s] < MaxAttempts

\* Mutant: taking over a lapsed lease is not counted as an attempt.
ClaimUncounted(i, s) ==
  /\ at[i] \in {"walk", "again"}
  /\ Claimable(s) /\ AttemptLeft(s)
  /\ status' = [status EXCEPT ![s] = "running"]
  /\ attempts' = [attempts EXCEPT ![s] = IF status[s] = "lapsed" THEN @ ELSE @ + 1]
  /\ holder' = [holder EXCEPT ![s] = i]
  /\ at' = [at EXCEPT ![i] = "claimed"]
  /\ on' = [on EXCEPT ![i] = <<s, attempts'[s]>>]
  /\ UNCHANGED <<taskVars, payload, budgetVars, callVars, worldVars>>

Claim(i, s) ==
  /\ at[i] \in {"walk", "again"}
  /\ Claimable(s) /\ AttemptLeft(s)
  /\ status' = [status EXCEPT ![s] = "running"]
  /\ attempts' = [attempts EXCEPT ![s] = @ + 1]
  /\ holder' = [holder EXCEPT ![s] = i]
  /\ at' = [at EXCEPT ![i] = "claimed"]
  /\ on' = [on EXCEPT ![i] = <<s, attempts[s] + 1>>]
  /\ UNCHANGED <<taskVars, payload, budgetVars, callVars, worldVars>>

PauseRun == run' = IF run = "running" THEN "paused" ELSE run

\* Mutant: the claim loop passes over a row without attempts.
ExhaustionUnnoticed(i, s) ==
  /\ at[i] \in {"walk", "again"}
  /\ Claimable(s) /\ ~AttemptLeft(s)
  /\ Leaves(i, "closing")
  /\ UNCHANGED <<taskVars, stepVars, payload, budgetVars, callVars, worldVars>>

\* A step out of attempts, whose last process may have died: stop and tell.
ExhaustedAtClaim(i, s) ==
  /\ at[i] \in {"walk", "again"}
  /\ Claimable(s) /\ ~AttemptLeft(s)
  /\ status' = [status EXCEPT ![s] = "failed"]
  /\ holder' = [holder EXCEPT ![s] = Nobody]
  /\ PauseRun
  /\ Leaves(i, "closing")
  /\ UNCHANGED <<task, payout, automated, package, attempts, payload, budgetVars, callVars,
                 worldVars>>

\* Mutant: the counter moves whether or not the step did.
HandOffCountsAgain(s) ==
  /\ status' = [status EXCEPT ![s] = IF @ = "done" THEN @ ELSE "human"]
  /\ holder' = [holder EXCEPT ![s] = Nobody]
  /\ automated' = automated - 1
  /\ UNCHANGED attempts

\* handOffStepToHuman: the step and the counter move in one transaction, and
\* only if the step is still automated.  It is not fenced by the lease.
HandOff(s) ==
  IF status[s] \in Finished
    THEN UNCHANGED <<stepVars, automated>>
    ELSE /\ status' = [status EXCEPT ![s] = "human"]
         /\ holder' = [holder EXCEPT ![s] = Nobody]
         /\ automated' = automated - 1
         /\ UNCHANGED attempts

\* The registry withdrew the primitive after the plan was accepted.
HandOffAtClaim(i, s) ==
  /\ at[i] \in {"walk", "again"} /\ Claimable(s)
  /\ HandOff(s)
  /\ Leaves(i, "closing")
  /\ UNCHANGED <<task, payout, run, package, payload, budgetVars, callVars, worldVars>>

\* Parameters the code no longer accepts, or no cost frozen at the quote.
HandOffClaimed(i) ==
  /\ at[i] = "claimed"
  /\ HandOff(StepOf(i))
  /\ Leaves(i, "again")
  /\ UNCHANGED <<task, payout, run, package, payload, budgetVars, callVars, worldVars>>

\* Nothing claimable, or the invocation's minute is over: a minute is long
\* enough for a first claim.
EndsWalk(i) ==
  /\ at[i] \in {"walk", "again"}
  /\ at[i] = "again" \/ \A s \in Steps : ~Claimable(s)
  /\ Leaves(i, "closing")
  /\ UNCHANGED <<taskVars, stepVars, payload, budgetVars, callVars, worldVars>>

-----------------------------------------------------------------------------
(* Reserving and calling.                                                  *)

Promised == Cardinality(Held) * WorstCase

Committed == spent + Promised

\* A primitive that cannot bill reserves nothing.
NeedsNoBudget(i) ==
  /\ at[i] = "claimed" /\ StepOf(i) \notin Billable
  /\ Goes(i, "ready")
  /\ UNCHANGED <<taskVars, stepVars, payload, budgetVars, callVars, worldVars>>

\* Mutant: only what is spent counts, not what is promised.
ReserveOnSpent(i) ==
  /\ at[i] = "claimed" /\ StepOf(i) \in Billable
  /\ spent + WorstCase <= Ceiling
  /\ hold' = [hold EXCEPT ![on[i]] = "held"]
  /\ Goes(i, "ready")
  /\ UNCHANGED <<taskVars, stepVars, payload, spent, callVars, worldVars>>

\* reserveSpend, under the run's advisory lock.  A row that is held already is
\* the same reservation.
Reserve(i) ==
  /\ at[i] = "claimed" /\ StepOf(i) \in Billable
  /\ \/ hold[on[i]] = "held" /\ UNCHANGED hold
     \/ /\ hold[on[i]] = "none"
        /\ Committed + WorstCase <= Ceiling
        /\ hold' = [hold EXCEPT ![on[i]] = "held"]
  /\ Goes(i, "ready")
  /\ UNCHANGED <<taskVars, stepVars, payload, spent, callVars, worldVars>>

\* A refusal is not an attempt: the step goes back with its attempt refunded,
\* if this invocation still holds it, and the run pauses.
RefundAttempt(i) ==
  LET s == StepOf(i)
  IN  IF holder[s] = i
        THEN /\ status' = [status EXCEPT ![s] = "pending"]
             /\ attempts' = [attempts EXCEPT ![s] = @ - 1]
             /\ holder' = [holder EXCEPT ![s] = Nobody]
        ELSE UNCHANGED stepVars

Refused(i) ==
  /\ at[i] = "claimed" /\ StepOf(i) \in Billable
  /\ hold[on[i]] # "held"
  /\ Committed + WorstCase > Ceiling
  /\ RefundAttempt(i)
  /\ PauseRun
  /\ Leaves(i, "closing")
  /\ UNCHANGED <<task, payout, automated, package, payload, budgetVars, callVars, worldVars>>

\* releaseHold, only for a hold that is still held.
ReleaseHold(k) == hold' = [hold EXCEPT ![k] = IF @ = "held" THEN "released" ELSE @]

\* The primitive returns without a call: local work, or nothing to extract.
RunsLocally(i) ==
  /\ at[i] = "ready"
  /\ ReleaseHold(on[i])
  /\ Goes(i, "answered")
  /\ UNCHANGED <<taskVars, stepVars, payload, spent, callVars, worldVars>>

\* It throws before a call: unreadable input before the reservation, no key
\* after it.
ThrowsBeforeCall(i) ==
  /\ \/ at[i] = "claimed" /\ UNCHANGED hold
     \/ at[i] = "ready" /\ ReleaseHold(on[i])
  /\ \E outcome \in {"failing", "fatal"} : Goes(i, outcome)
  /\ UNCHANGED <<taskVars, stepVars, payload, spent, callVars, worldVars>>

Dispatch(i) ==
  /\ at[i] = "ready" /\ StepOf(i) \in Billable
  /\ sent' = sent \cup {on[i]}
  /\ calls' = [calls EXCEPT ![StepOf(i)] = @ + 1]
  /\ Goes(i, "calling")
  /\ UNCHANGED <<taskVars, stepVars, payload, budgetVars, worldVars>>

\* recordInvocation of a settled call: row, hold and counters in one
\* transaction; the output may still prove unusable.
Settles(i) ==
  /\ at[i] = "calling"
  /\ \E c \in 0..WorstCase : spent' = spent + c
  /\ hold' = [hold EXCEPT ![on[i]] = IF @ = "held" THEN "settled" ELSE @]
  /\ \E outcome \in {"answered", "failing"} : Goes(i, outcome)
  /\ UNCHANGED <<taskVars, stepVars, payload, callVars, worldVars>>

\* Mutant: an unknown outcome is taken for no charge.
CallIsLostForFree(i) ==
  /\ at[i] = "calling"
  /\ hold' = [hold EXCEPT ![on[i]] = "released"]
  /\ \E outcome \in {"failing", "fatal"} : Goes(i, outcome)
  /\ UNCHANGED <<taskVars, stepVars, payload, spent, callVars, worldVars>>

\* recordInvocation of a call cut off or lost: its hold stays, nobody knows
\* what it cost.
CallIsLost(i) ==
  /\ at[i] = "calling"
  /\ \E outcome \in {"failing", "fatal"} : Goes(i, outcome)
  /\ UNCHANGED <<taskVars, stepVars, payload, budgetVars, callVars, worldVars>>

-----------------------------------------------------------------------------
(* Ending a step.                                                          *)

\* The payload is written first and without a fence.
Persist(i) ==
  /\ at[i] = "answered"
  /\ payload' = [payload EXCEPT ![StepOf(i)] = on[i][2]]
  /\ Goes(i, "persisted")
  /\ UNCHANGED <<taskVars, stepVars, budgetVars, callVars, worldVars>>

\* finishClaimedStep: only the invocation that still holds the step ends it.
FinishClaimedStep(i, end) ==
  /\ holder[StepOf(i)] = i
  /\ status' = [status EXCEPT ![StepOf(i)] = end]
  /\ holder' = [holder EXCEPT ![StepOf(i)] = Nobody]
  /\ UNCHANGED attempts

Done(i) ==
  /\ at[i] = "persisted"
  /\ FinishClaimedStep(i, "done")
  /\ Leaves(i, "again")
  /\ UNCHANGED <<taskVars, payload, budgetVars, callVars, worldVars>>

\* A failure that may be retried backs off; the last one, or one no retry can
\* cure, leaves the step unclaimed and pauses the run in a second statement.
Fails(i) ==
  /\ at[i] \in {"failing", "fatal"}
  /\ LET last == at[i] = "fatal" \/ on[i][2] >= MaxAttempts
     IN  /\ FinishClaimedStep(i, IF last THEN "failed" ELSE "backoff")
         /\ IF last THEN Leaves(i, "pausing") ELSE Returns(i)
  /\ UNCHANGED <<taskVars, payload, budgetVars, callVars, worldVars>>

Superseded(i) ==
  /\ at[i] \in {"persisted", "failing", "fatal"}
  /\ holder[StepOf(i)] # i
  /\ Leaves(i, "closing")
  /\ UNCHANGED <<taskVars, stepVars, payload, budgetVars, callVars, worldVars>>

PausesRun(i) ==
  /\ at[i] = "pausing"
  /\ PauseRun
  /\ Returns(i)
  /\ UNCHANGED <<task, payout, automated, package, stepVars, payload, budgetVars, callVars,
                 worldVars>>

-----------------------------------------------------------------------------
(* Handing over to a person.                                               *)

\* Mutant: a step nobody works on any more counts as finished.
ClosesOnFailed(i) ==
  /\ at[i] = "closing"
  /\ IF \A s \in Automated : status[s] \in {"done", "failed"}
       THEN Goes(i, "handover") ELSE Returns(i)
  /\ UNCHANGED <<taskVars, stepVars, payload, budgetVars, callVars, worldVars>>

\* The walk is over: is the machine block?
Closes(i) ==
  /\ at[i] = "closing"
  /\ IF \A s \in Automated : status[s] = "done" THEN Goes(i, "handover") ELSE Returns(i)
  /\ UNCHANGED <<taskVars, stepVars, payload, budgetVars, callVars, worldVars>>

\* finishRun reads the task and the payload, and computes the residual.  Without
\* a known payout it tells an operator, and leaves the run as it is.
FinishRun(i) ==
  /\ at[i] = "handover"
  /\ IF task = "ai_processing" /\ PayoutKnown
       THEN \E next \in {"publish", "overBudget"} : Goes(i, next)
       ELSE Returns(i)
  /\ UNCHANGED <<taskVars, stepVars, payload, budgetVars, callVars, worldVars>>

\* The residual exceeds the reserve: the run is paused by id, whatever it is.
OverBudget(i) ==
  /\ at[i] = "overBudget"
  /\ run' = "paused"
  /\ Returns(i)
  /\ UNCHANGED <<task, payout, automated, package, stepVars, payload, budgetVars, callVars,
                 worldVars>>

\* Mutant: the task is published without the compare-and-swap.
PublishById(i) ==
  /\ at[i] = "publish"
  /\ task' = "open" /\ payout' = "residual"
  /\ run' = "awaiting_human" /\ package' = TRUE
  /\ Returns(i)
  /\ UNCHANGED <<automated, stepVars, payload, budgetVars, callVars, worldVars>>

\* One transaction: the package, the run, the payout and the task.  A task that
\* has moved, a package that is there, or the payment guard of the database
\* rolls it back; the error is swallowed, and the run stays what it was.
Publish(i) ==
  /\ at[i] = "publish"
  /\ IF task = "ai_processing" /\ ~package /\ paid
       THEN /\ task' = "open" /\ payout' = "residual"
            /\ run' = "awaiting_human" /\ package' = TRUE
       ELSE UNCHANGED <<task, payout, run, package>>
  /\ Returns(i)
  /\ UNCHANGED <<automated, stepVars, payload, budgetVars, callVars, worldVars>>
-----------------------------------------------------------------------------
(* Time, death, the stall sweep and the operator.                          *)

LeaseLapses(s) ==
  /\ status[s] = "running"
  /\ status' = [status EXCEPT ![s] = "lapsed"]
  /\ UNCHANGED <<taskVars, attempts, holder, payload, budgetVars, callVars, invVars, worldVars>>

BackoffElapses(s) ==
  /\ status[s] = "backoff"
  /\ status' = [status EXCEPT ![s] = "failed"]
  /\ UNCHANGED <<taskVars, attempts, holder, payload, budgetVars, callVars, invVars, worldVars>>

\* The process ends wherever it is; its lease and its hold are left behind.
Dies(i) ==
  /\ at[i] # "idle" /\ deaths < MaxDeaths
  /\ deaths' = deaths + 1
  /\ Returns(i)
  /\ UNCHANGED <<taskVars, stepVars, payload, budgetVars, callVars, paid>>

\* abandonStalledWorkflowRuns: first the run, then the task, as it was quoted.
SweepAbandons ==
  /\ task = "ai_processing" /\ run \in {"running", "paused"}
  /\ run' = "abandoned"
  /\ UNCHANGED <<task, payout, automated, package, stepVars, payload, budgetVars, callVars,
                 invVars, worldVars>>

SweepReleases ==
  /\ run \notin {"running", "paused"}
  /\ ReleaseToPool
  /\ UNCHANGED <<payout, run, automated, package, stepVars, payload, budgetVars, callVars,
                 invVars, worldVars>>

\* The hold expires at the provider, or the charge is taken back, while the
\* machine works.  Nothing asks for the money again.
PaymentLapses ==
  /\ MayLapse /\ task = "ai_processing" /\ paid
  /\ paid' = FALSE
  /\ UNCHANGED <<taskVars, stepVars, payload, budgetVars, callVars, invVars, deaths>>

Cancel ==
  /\ task = "ai_processing"
  /\ task' = "cancelled"
  /\ UNCHANGED <<payout, run, automated, package, stepVars, payload, budgetVars, callVars,
                 invVars, worldVars>>

-----------------------------------------------------------------------------
Takes(i) == \E s \in Steps : Claim(i, s) \/ ExhaustedAtClaim(i, s) \/ HandOffAtClaim(i, s)

Works(i) ==
  \/ HandOffClaimed(i) \/ NeedsNoBudget(i) \/ Reserve(i) \/ Refused(i) \/ RunsLocally(i)
  \/ ThrowsBeforeCall(i) \/ Dispatch(i) \/ Settles(i) \/ CallIsLost(i) \/ Persist(i)
  \/ Done(i) \/ Fails(i) \/ Superseded(i)

Ends(i) ==
  \/ EndsWalk(i) \/ PausesRun(i) \/ Closes(i) \/ FinishRun(i) \/ OverBudget(i) \/ Publish(i)

Advances(i) == Tick(i) \/ Takes(i) \/ Works(i) \/ Ends(i)

Next ==
  \/ \E i \in Invocations : StartWorkflow(i) \/ Advances(i) \/ Dies(i)
  \/ \E s \in Steps : LeaseLapses(s) \/ BackoffElapses(s)
  \/ ReleaseUncompiled \/ SweepAbandons \/ SweepReleases \/ PaymentLapses \/ Cancel

Spec == Init /\ [][Next]_vars

\* The cron ticks, a process that lives runs on, and time passes.  Nothing is
\* assumed of the sweep or of operators.
FairSpec ==
  /\ Spec
  /\ \A i \in Invocations : WF_vars(Advances(i))
  /\ \A s \in Steps : WF_vars(LeaseLapses(s)) /\ WF_vars(BackoffElapses(s))

-----------------------------------------------------------------------------
(* Properties.                                                             *)

Ledger == INSTANCE SpendLedger WITH
  Keys <- Attempts, held <- Held, promised <- Promised

\* The run's budget is a spend ledger: whatever dies, lapses or comes back
\* late, what it spent and what its unsettled calls may still cost stay under
\* the ceiling the client accepted (reserveSpend, settleHold, releaseHold).
BudgetIsALedger == Ledger!Spec

\* A request that left is either settled or still holds its worst case: no
\* call goes on spending money the ledger has given back (releaseHold).
SentIsCovered == \A k \in sent : hold[k] \in {"held", "settled"}

\* A step never bills more requests than the contract funded, whichever
\* invocations made them (attemptsAllowedForStep, the refund of a refusal).
CallsAreFunded == \A s \in Steps : calls[s] <= MaxAttempts

\* A machine step is only worked on behind steps that are all finished, and a
\* finished machine step has left its payload (claimNextStep, persistPayload).
FedByPredecessor ==
  \A s \in Steps :
    status[s] \in {"running", "lapsed", "done"} =>
      \A r \in 1..(s - 1) : status[r] \in Finished /\ (status[r] = "done" => payload[r] # 0)

\* The count the residual is computed from is the count of machine steps, once
\* the run exists (handOffStepToHuman).
CountIsTrue == run # "none" => automated = Cardinality(Automated)

\* A task published with a residual payout has its package, and its machine
\* steps are all done: nobody is paid less for work no machine did (finishRun).
ResidualIsEarned ==
  payout = "residual" => task = "open" /\ package /\ \A s \in Automated : status[s] = "done"

\* The payout the pool shows never moves (finishRun, the stall sweep).
PublishedPayoutStays == [][task = "open" => payout' = payout /\ task' = "open"]_vars

\* A run does not stay running: it is handed over, paused for an operator or
\* abandoned, though processes die on its last attempt (claimNextStep).  Only a
\* task whose payment has gone, or whose payout nobody quoted, keeps it running:
\* every tick is refused the handover, until the stall sweep gives the run up.
RunSettles == run = "running" ~> run # "running" \/ ~paid \/ ~PayoutKnown
=============================================================================
