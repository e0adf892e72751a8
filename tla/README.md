# AfterDesk: specifications, model checks and proofs

TLA+ modules for the parts of AfterDesk (`src/`, a Next.js application over
Postgres) whose correctness depends on order, failure and concurrency, with the
TLC configurations that check them and the proofs TLAPS checks.

## 1. The system

A client submits a task, accepts a quote and pays by card (a Stripe hold) or by
wire. An optional automated run prepares the work; a worker takes the task from
the pool, submits, and an operator reviews. After approval a dispute window
runs; then the hold is captured and the worker's payout released. Cron jobs,
webhooks and several people act on the same rows at the same time; the only
tools against them are compare-and-swap updates, transactions at READ COMMITTED,
leases and idempotency keys.

| Part | State | Operations | What makes it hard | What makes it correct |
| --- | --- | --- | --- | --- |
| Money intents (`server/money-intents.ts`) | `MoneyIntent` rows, attempts, lease | select, claim, call Stripe, commit, fail | a runner dies or outlives its lease between a Stripe call and its commit; writes go by id | every order resolves; the books say only what Stripe did |
| Stripe (`lib/payments/stripe.ts`, webhook route) | `Payment`, `Refund`, ledger | checkout, fulfilment, refund, dispute and cancellation reconcilers | events late, twice, out of order, racing the runners | the same, and no order leaves a charge unrecorded |
| Escrow (`lib/escrow.ts`, sweep in `server/sweeps.ts`) | `Payout`, `release_payout` and capture orders | release after the window or a rejected dispute | the sweep acts on tasks selected earlier | released only for a final delivery, idempotently |
| Operator money actions (`actions/admin-payments.ts`) | the same rows | record a wire, record a refund, mark a payout paid | the check and the swap guard different rows | a payout is paid once and from money held |
| Task status (`lib/state.ts` and its callers) | `Task.status`, claim, rounds, windows | accept, pay, claim, submit, approve, reject, reassign, revise, dispute, cancel | long legal sequences; money moved in the same transactions | who delivered can be paid; nobody is charged early |
| Workflow runs (`server/workflow-runs.ts`, `workflow-artifacts.ts`) | runs, steps, leases, artifacts | compile, claim a step, execute, finish, pause, abandon | a step that outlives its lease or its timeout, a process that dies | every paid task reaches the pool; one step result |
| Budgets (`workflow-budget.ts`, `account-spend.ts`, `metered-call.ts`) | holds, spent | reserve, settle, release, retain | concurrent reservations, unknown outcomes | spent and held never exceed a ceiling |
| AI operations (`server/ai-operations.ts`) | operation rows, lease | claim, succeed, fail | a fenced late result | at most one result, within the attempts |
| Model gateway (`server/model-gateway/`) | operations, attempts, breakers | admit, dispatch, settle, trip, reset | unaccounted outcomes, generations | no retry after an unknown outcome |
| Voice intake (`model-gateway/voice/`, `lib/voice-intake-state.ts`) | sessions, transcripts | open, append, finalize | segments out of order | one transcript |
| Standing capacity (`actions/standing-capacity.ts`, `lib/standing-*.ts`) | subscriptions, periods, minutes | create, assign, reserve, restore, roll over, cancel | a period ends under a reservation | minutes neither lost nor minted |
| Work sessions (`server/work-sessions.ts`) | sessions | start, pause, resume, stop, close stale | a closed laptop, a stop that races the sweep | no time is worked that was not, none twice |
| Files (`lib/storage.ts`, upload and download routes, sweeps) | rows and blobs | upload, attach, reap, purge, download | reaping races attaching | no row without its blob |
| Operational actuals (`server/operational-actuals.ts`, `workflow-calibration.ts`) | derived rows, a journal | recompute by hooks and sweeps, calibrate | sources are never locked, computations overlap | a row says what its sources said, and staleness is found |
| Ledger, audit, notifications | append-only rows | insert | written inside others' transactions | what the transactions make them |
| Automation planning (`lib/ai-work-engine/index.ts`, `admin-plan.ts`, `approvePricing`, `acceptQuote`) | plan versions, the task's quote | propose, edit, approve, answer | a pipeline that died and its successor; an operator editing meanwhile | the client signs what was shown |
| Codecs, pricing, assistant, academy, auth, pages | none shared | pure or read-only | – | unit tests |

`PROJECT.json` lists these as components with their files, and the hazards of
the code at the line where each bites.

**How they interact.** A task is submitted and priced by the planning pipeline,
whose model calls are AI operations; an operator approves a plan and the client
accepts it; the payment's webhook moves the task to the pool or starts a
workflow run, which spends under the budget the client accepted and offers the
rest to the pool; workers time their sessions and submit; approval starts the
dispute window, after which the release queues the intents the runners carry
out. Every change leaves an event, and the actuals are recomputed from all of it.
A standing client's task skips the quote and the payment: it takes minutes from a
week's block and is routed to the account's worker.

## 2. Modules

| Module | Models |
| --- | --- |
| `Payments` | one task's payments, Stripe's side of them, the money intents, the runners that drain them, the webhooks; no specification of its own |
| `Escrow` | extends `Payments` with the task from the accepted quote on, its worker, payouts, release orders, disputes and operators; implements `EscrowPromise` |
| `EscrowPromise` | abstract: what a client is promised about the money of one task |
| `SpendLedger` | abstract: amounts held, spent or released under one ceiling |
| `WorkflowRun` | one run: compilation, the invocations that walk it, leases, retries, the metered call, the handover to the pool, the stall sweep; implements `SpendLedger` |
| `MeteredAnswers` | abstract: questions put to a provider that bills each answer |
| `AiOperations` | the operations table: reserve, claim by lease, succeed or fail by fence, record usage; no specification of its own |
| `Quote` | extends `AiOperations` with the planning pipeline, plan versions, pricing, the quote and its answer; implements `MeteredAnswers` |
| `WeeklyBlocks` | abstract: a block of minutes sold week by week |
| `StandingCapacity` | one account: weeks, minutes, submissions, credits, assignments, recorded payments; implements `WeeklyBlocks` |
| `WorkSessions` | the task timers and the sweep that stops forgotten ones; no specification of its own |
| `OperationalActuals` | extends `WorkSessions` with money that moves, the derived row, the computations, hooks and sweeps |
| `MC...` | each of the five specifications with symmetry sets for TLC |
| `..._proofs` | inductive invariants and theorems |

They follow the code's own seams: where two parts share rows and act at the same
time they are one specification (`Payments` within `Escrow`, `AiOperations` within
`Quote`, `WorkSessions` within `OperationalActuals`); where one hands over to
another by a committed status they are separate, and the later one starts from
what the earlier one may leave behind.

### How the models read the code

*Transactions.* A `prisma.$transaction` is one step when a compare-and-swap or a
lock protects what it read. Where it is not protected it takes two:
`releaseDisputeWindowFunds` selects and later releases (`SweepSelects`,
`SweepReleases`); `markPayoutPaid` checks the payments but swaps the payout
(`CheckFunding`, `MarkPayoutPaid`); `cancelTask` and `decideDispute` read the
newest payment and then swap (`ReadNewestPayment`, `CancelTask` and `DecideUpheld`);
`editPlanVersion` reads and later writes
(`EditReads`, `EditCommits`); `submitStandingTask` holds a lock that neither
assignments nor the clock respect (`SubmitReads`, `SubmitCommits`); a payment, a
payout and an acceptance are dated by one statement and seen by others when their
transaction commits, up to `Slowest` ticks later, or never (`MoneyIsWritten`,
`MoneyCommits`, `MoneyRollsBack` and the same for `accepting`; one such transaction
at a time per task); a computation of an actual takes five, since it fingerprints
and loads outside any transaction. `releaseHeldFunds`, which
reads the claim and the payments with no lock and writes at once, is one step:
`SweepSelects` already leaves a longer interval of the same kind open.

*Processes.* Runners, invocations and computations are program counters with what
they have read; between any two steps they may die, and a lease may end at any
time while its holder is alive, which covers every way two of them can overlap.
A step whose external call took effect and whose answer was lost is an outcome of
its own.

*External parties.* Stripe answers a repeated idempotency key with its first answer
and delivers events at least once in any order (`Payments`); a model provider
answers, refuses or says nothing, and bills what was sent (`WorkflowRun`, `Quote`).

*Time* is three-valued in `Escrow` (unset, ahead, past), a clock of ticks in
`StandingCapacity` and `OperationalActuals`, where boundaries are what can go
wrong, and absent from `WorkflowRun` and `Quote`, whose leases and backoffs may
end at any step.

*Abstracted.* Amounts are small units; payloads, prompts, schemas, figures, ratings
and notifications are left out. Names kept from the code are the names of its
functions and statuses.

`Escrow`: `intent` is keyed by what the idempotency keys stand for (one capture,
one refund, two releases of a hold), `release[w]` is the `release_payout` order the
drain skips, `card` and `wire` are the at most two Payment rows of a task, `pi` is
Stripe's session, then PaymentIntent.

`WorkflowRun`: a step is pending, processing, done, failed or handed to a person;
`lease` is its fence. The call is metered as the code does it: reserve the worst
case, send, settle or, if the outcome is unknown, retain. The residual is what the
pool is offered for the steps people do. `paid` is what the payment guard of the
database asks for when a task enters the pool (migration
`20260806170200_workflow_guards`): if the hold lapses while the machine works, the
publication is rolled back, the error swallowed, and the run stays `running`.
`PayoutKnown` is what `handoverBlockedForUnknownPayout` asks for. A call's own timeout
is nested under the step's (20 s apart for every primitive that calls a provider, and
only local work comes before the call), so a step never gives up an open call.
If it did, its catch would release that call's hold.

`Quote`: one pipeline per task in three stages, each stage one operation row, so
several invocations share rows. An invocation whose lease has passed still
records the usage of its answer, but may not store it.

`StandingCapacity`: a submission takes up to `Slowest` ticks from the instant it rolls
the account to, and its task is dated somewhere in between, so it may be counted in
one week and dated in the next. `counted` and `credited` remember which week's counter
a task was taken from and given back to; no code reads them.

`OperationalActuals`: each statement has an instant of its own on one clock; a timer's
row is written and committed by one statement, money and the client's return by a
longer transaction. `moneyIn`, `returnedIn` and `began` (`WorkSessions`: when a timer
was first started) remember instants for the properties; no code reads them. The
figures are the seconds worked, the sum of the money, and whether the client came
back within the window, which is read without a fingerprint.

## 3. Runs

| Run | Question | Bounds | States |
| --- | --- | --- | --- |
| `money` | can a card be charged before approval, a capture be forgotten, a cancelled task's hold be left without an order? | card, 2 runners, 2 attempts, 1 dispute | 0.6M |
| `bank` | can the books claim what Stripe did not do, an order be closed and not carried out, a client's money move in a way they were not promised? | card and wire, a refund made in Stripe, a chargeback won or lost, 1 runner | 1.9M |
| `pool` | who is payable after any sequence of work? | 2 workers, 2 review rounds, 1 revision, 1 dispute | 3.5M |
| `live` | does every order resolve? | fairness below, 2 attempts, 1 dispute | 217k |
| `workflow` | is every request covered by the budget, every step fed by the one before, the pool offered what was earned? | 2 invocations, 2 steps of which 1 billed, 2 attempts, worst case 2 under a ceiling of 3, 1 death | 1.6M |
| `workflow_live` | does a run settle, unless its payment is gone, though processes die on the last attempt? | 1 step, 2 attempts, 2 deaths, a payment that may lapse | 518k |
| `standing` | is the counter what was sold, a week sold once though submissions run into the next, and only who held a week paid for it? | 3 tasks, 1 worker, 2 weeks of 2 ticks, a size of 2 in a block of 3, 2 assignments, 1 record, submissions open for a tick | 1.0M |
| `quote` | what is asked, billed, overwritten and signed? | 3 invocations, 3 stages, 2 attempts, 3 versions, 2 prices | 1.6M |
| `actuals` | does an actual say what its sources said, and is a stale one visible? | 1 task, 2 computations, 2 attempts, 4 instants, transactions open for a tick | 1.3M |

`PROJECT.json` says in a sentence what each shows. Why the bounds are enough: two
processes are all that overlap on a row at a moment when it matters, one that lost its
lease and one that took over; `Quote` takes a third because the late answer of one may
meet both a failed and a successful successor. Two attempts are a first try and a retry;
with one no recovery would happen. A price or worst case of two lets an amount be
partial, and a ceiling of three holds one worst case and not two. Two weeks of two ticks
have an inside, a boundary and a week before; a third adds only a longer backlog, which
`RollForward` treats alike. Three tasks are one that runs into a week and two that fill
it before and after its return. Two assignments are a worker who leaves and comes back,
or a worker and a successor: the rows name their worker, and the proofs cover any number
of them. The actual's window and stint cap lie inside its horizon, so both are crossed.
A transaction that may stay open for one tick (`Slowest`) straddles every boundary there
is: the end of a week, the end of the window, the instant of a computation.
`PayoutKnown` is TRUE, as `approvePricing` makes it; with FALSE no run reaches the pool.
`MayLapse` is TRUE where it can hurt, in `workflow_live`; the safety properties of
`workflow` are proved for both of its values. `finding_starve` needs no money and no
slow transaction, so it has neither. One dispute, one revision, two rounds let each be
followed by every other. Counters the code does not limit (disputes, plan versions,
assignments, records, deaths, the clock) are bounded by the constants `MaxDisputes`,
`MaxVersions`, `MaxRows`, `MaxRecords`, `MaxDeaths`, `Horizon`. No run checks deadlock:
each system stops when its task is finished or its bounds are used up.

**Fairness.** `Escrow`: the hourly cron claims what is claimable, a lease ends, a
runner's next step runs or the runner dies. `WorkflowRun`: the same three (a live
process advances, leases lapse, backoffs elapse); deaths are bounded and nothing is
assumed of the stall sweep. `OperationalActuals`: time passes, a computation goes on,
and both sweeps select again and again, each on every cron tick in a process of its
own, hence strong fairness; nothing of the hooks, which are only `after()` callbacks.
Nothing is assumed anywhere of clients, workers, operators, webhooks or banks.

### Disagreements with the code's own words

Three runs end in a counterexample to a sentence of the repository; `PROJECT.json`
quotes each.

* `finding_refund`: a capture in progress survives a cancellation, and the client
  stays charged. The run is checked under `PromptSpec`, where a cancellation and a sweep
  go from their read to their write with nothing in between: the cancellation found
  the hold on the books and ordered its release, the runner that had claimed the
  capture charged the card, and no refund follows. That, and a sweep that had selected
  the task, are the only windows: `CancelledStaysUncharged`, checked in `money` and
  proved.
* `finding_week`: the first week of an account cannot be recorded once it is over.
* `finding_starve`: a task whose recomputation changes nothing is selected at every
  tick, and with enough of them another is never reached. With `Limit = 2` for the
  two tasks the same property holds: the limit and nothing else is what starves.

Others the models reach and no run is spent on.

* Money: a cancellation that reads the payments just before a checkout is fulfilled
  succeeds from the status that checkout made, has seen no payment and orders nothing: a
  cancelled task with a hold nobody releases (`admin.ts:329-349`; drop `~overlooked`
  from `HoldIsBeingReleased` and `money` shows it). The sweep pays over a dispute opened
  after it selected (`sweeps.ts:117` against :92-93). A runner that dies on the last
  attempt strands its row (`money-intents.ts:32` against :28). A late commit erases a
  chargeback. A reassigned worker stays payable. A chargeback slips in between the check
  and the swap of `markPayoutPaid`. A webhook that overtakes the commit keeps the sale
  out of the ledger. `releaseHeldFunds`, called idempotent, requeues a finished order.
  Paying one worker closes the release orders of every worker of the task.
* Runs: an invocation that lost its lease may overwrite a finished step's payload
  (`persistPayload` has no fence). The over-budget pause goes by id and races the stall
  sweep. The run's and the task's status are checked only when `advanceWorkflow` begins.
  A step that failed for good is claimable again if its process dies before pausing the
  run. A run whose payment lapsed, or whose payout is unknown, stays running: each tick
  it is finished again, the guard of migration 20260806170200 refuses the release, and
  the six-hour sweep that abandons it cannot release the task either, which stays in
  `ai_processing`. A process that dies before compiling leaves the task in
  `ai_processing` with no run until the stall sweep.
* Planning: the pipeline's last write puts its own figures over those of a plan edited
  meanwhile (`ai-work-engine/index.ts:708` against `admin-plan.ts:256`). A pipeline that
  dies in its critique leaves no suggestion for good (:173-179). `approvePricing` accepts
  an older version of the same task's plan where its comment says a stale id must
  fail (`admin.ts:122-124`). The model client retries once by itself, so one usage row
  may stand for two calls. `account-spend.ts:31-43` says every billable call takes room
  under the account's ceiling; only the model gateway reserves, and nothing calls it.
* Standing: a task counted in one week and inserted in the next
  (`standing-capacity.ts:729` against :739) gives its minutes back to the next
  (`standing-restitution.ts:64`), which is then sold beyond its block, where :68-70
  promises it never is. `NeverOversold` excepts exactly this: one task a week, by its
  minutes (`Extra`). A return after the end of a week and before its roll credits a
  dead week and tells the client "for this week" (`standing-restitution.ts:14`). A
  submission that read "no assignee" leaves its task waiting beside an assigned worker,
  and one that read a worker since suspended still routes to them. A cancelled account
  can be set active again, which its comment denies (`standing-capacity.ts:450`). The
  week of a worker suspended in its middle, without a successor, cannot be paid.
* Actuals: a payment written before a computation began and committed after it is newer
  than the actual's figures and older than its date, so the sweep never selects it,
  where `operational-actuals.ts:844-846` says it sees every change made in place.
  `StaleIsVisible` excepts exactly this. An acceptance still open when the window ends
  is answered `no` for good, as nothing asks again (the exception of `RepeatIsHonest`).
  The sweep's query ignores sources the fingerprint has (run costs, tool invocations,
  usage, reviews, submissions). Whether a client returned is in no fingerprint: an older
  computation may put an answer back to open until the next window sweep. A stop before
  the stale sweep adds the whole forgotten stint. The profile is lost if the process
  dies after writing the actual.

## 4. Proofs

Each `..._proofs` module proves, for every value of the constants allowed by the
named assumptions, what its run checks on a small instance. None of the properties is
inductive; each module's `Inv` adds what an actor that acts later counts on.

**`Escrow_proofs`** (from `PaymentsAssumption`, `EscrowAssumption`): `TypeCorrect`,
`BooksAreTrue`, `NoEarlyCharge`, `HoldsAreReleased`, `LostCapturesAreKept`,
`DelivererIsPayable`, `PaidIsPaid`. In the order in which they are inductive:
`PaymentsSafe` (a runner about to commit has Stripe's answer, its row exists, only
charges are reversed, so a commit by id writes the truth however late); `ChargeSafe` (a
capture order, a selected task, a completed one all imply an approved delivery; only
the runner with the capture charges); `HoldSafe` (cancellation orders exist only on
cancelled tasks, one is closed only with the row off `authorized`, and a cancellation
that missed a hold is remembered in `overlooked`); `LostSafe`
(while the hold stands, a capture in a runner's hand is processing or failed);
`PayableSafe` (work in progress has a worker).

Two facts are carried beside that invariant. `RefundIsOfCancelled`: a refund order
exists only on a task called off, for which the only road to money given back is a
compare-and-swap that committed. `WorkIsPaid`: from the moment a task may be worked on, a
wire is paid or a hold was placed. With them the system implements `EscrowPromise`
(`EscrowKeepsPromise`): Stripe's side moves in five ways (`PaymentsOnPromise`), each a
step of the promise or a stutter, whichever runner, webhook or retry caused it, and the
task's actions map to approving, calling off and the operator's refund of a wire. So a
client of `Escrow` is square (`TaskIsSquare`). What the promise does not contain is that
a task called off is charged no more: the code may do it (run `finding_refund`).
`ClosedIsCarriedOut`: a money order marked done has moved the money at Stripe, or there
is a cancellation behind it; only a runner past its call closes a row (`ClosedBy`), by
then it has Stripe's answer (`RunnerKnows`), and a cancellation that retires orders
retires no refund (`RefundUnwound`).

`UnchargedStays` and `NeverChargedLater` bound `finding_refund`: once a cancelled task
has no capture ordered, failed or in progress and no sweep holds it, it never has one
again and its card is never charged (`CancelledTaskIsOver`: only a late hold and a
refund by hand still move; runners find no capture to claim).

`TaskOnPayments` says the task's
thirty-odd actions touch the money in six ways, so each group is proved over seven cases.

**`EscrowPromise_proofs`**: `ClientIsSquare`, from the promise alone and for every
price: nothing is given back that was not paid, nor more than it, nothing by the
platform while the deal is on, and no card is charged for a delivery nobody approved.

**`SpendLedger_proofs`**: `CeilingHolds`, for any attempts and amounts.

**`WorkflowRun_proofs`** (`RunAssumption`): `TypeCorrect`, `NoCallIsFree`,
`FundedCalls`, `InOrder`, `HonestCount`, `EarnedResidual`, `PayoutStays`, and that a
run's holds implement `SpendLedger` (`BudgetImplementsLedger`), whence
`RunStaysInBudget`. The invariant has four groups: `LeaseInv` (who holds the fence of a
step did claim it, attempts belong to somebody), `MoneyInv` (what is reserved, sent
and settled agree, attempt by attempt), `OrderInv` (nothing runs before compilation,
done steps have a payload, steps start in order, the count of automated steps is
theirs), `CloseInv` (a closed run has no step left to claim, the residual is earned).
None of them needs the payment or the payout to be there: a run that loses them is
stuck, not wrong.

**`Quote_proofs`** (`OperationsAssumption`, `QuoteAssumption`): `TypeCorrect`,
`CallsAreBilledOnce`, `ResultsStay`, `LockedUnderQuote`, `SignedAsShown`. The
invariant says no two invocations share a call (`CallsInv`), a lock is held only on a
running row and a result only on a succeeded one (`ClosingInv`), plans exist only
once their operation has a result (`PlanInv`), and what the client saw is the quote
(`AnswerInv`). Two frames, `Pipeline` and `Desk`, say which
variables the invocations and the people touch, so each property is proved over the
side it concerns. The pipeline implements `MeteredAnswers`
(`PipelineIsMeteredClient`): `OrderInv` adds that an operation succeeds with its answer
and an invocation is at a stage only when the one before it has one; a claim is then an
`Ask`, and any of the three ways a usage row is written a `Bill` of a call that has
none (`HeldIsUnbilled`), so the unique index on attempts never refuses a row.

**`MeteredAnswers_proofs`**: `AnswersAreAccounted`, for any questions, tries and order.

**`StandingCapacity_proofs`** (`StandingAssumption`): every property of the run
(`TypeCorrect`, `CounterStaysTrue`, `BlockHolds`, `PaidWasHeld`), that recorded weeks
never share a day (`NoDayTwice`), and that an account implements `WeeklyBlocks`
(`AccountSellsBlocks`): a roll, a sale or a credit changes the week the account is in
and, but for that withdrawal, no week behind it. Weeks start on multiples of `Week`
whatever is rolled when (`CalendarInv`, with `Rolls`, `RollsWhole` and `Selects` about
the operators that compute a week), the submission in flight fits what is left of the
block (`MinutesInv`), and closing a row never takes it off a week it was paid for, since
only weeks that have begun can be recorded (`RowsInv`, `Closes`). The minutes are the
hard part (`BookingInv`): a task may be counted in one week, dated in the next and given
back to the next, so the counter is what its week was sold for less at most what that
week has to spare (`Extra`). A submission commits no earlier task than it read
(`InFlight`), so two tasks cannot run into the same week (`StraysApart`), and what a
week has to spare is one task's minutes (`OneMisplaced`). `WeeklyBlocks` promises no
more: `LateCredit` is that task's withdrawal, once a week. Sums are stated as
cardinalities, one element `<<task, minute>>` for each minute, so that the library's
theorems about finite sets stand for an induction over tasks. `OnlyTheFirstWeekIsLost`
bounds the finding of `finding_week`: every later week within `MaxBackdated` is
selectable.

**`OperationalActuals_proofs`** (`SessionsAssumption`, `ActualsAssumption`):
`TypeCorrect`, `TimersAreHonest`, `FingerprintsVouch`, `JournalsAreChains`,
`StaleIsSeen`, `RepeatsAreHonest`, every safety property of the run. `Kinds` says a step
either moves the world (sources, time, a process that starts) or one computation while
nothing else moves. The argument is about stamps. A timer's write is committed where it
is dated, a payment's some time later: so figures read under a fingerprint stay true as
long as the fingerprint does, seconds they miss are dated after the instant they bear,
and money they miss was committed no earlier than that instant (`Vouched`), which leaves
the sweep blind exactly from the row's date to its commit (`StaleIsSeen`). That travels
from the unlocked reads to the locked write and into the row. A resolved window is right
but for an acceptance that was open at its end (`Settled`). Timers count from where they
began, not from the first instant (`TimersInv`). The lock is needed only for the journal
(`LockInv`).

**Only model-checked**: liveness (`IntentsResolve`, `RunSettles`), which neither
the proof system nor its temporal prover reaches under fairness.

## 5. Not modelled

* *Model gateway, voice intake*: complete in the source, called by nothing but tests;
  voice runs on the gateway. There is no behaviour of the program to be faithful to.
* *Files*: upload, attachment, retention and the orphan reaper. The hazard is listed
  (the reaper deletes a blob and then a row by id that may have been attached meanwhile).
* *Calibration profile*: statistics over the actuals, replaced whole.
* *Several tasks in one money queue*: the batch of 25 skips `release_payout` rows
  without ageing them out, so 25 of them would starve captures.
* *Provider's daily cap*: reached only through the gateway.
* *Academy, authentication, notifications, pages, translations, queries, codecs,
  prompts*: pure, delegated or read-only; they are most of the repository's lines (the
  academy's content alone is 12.9k of 83k), which is why the share of lines modelled
  stays small although the stateful core is covered.

## 6. Plan

In this order: an `IntentQueue` over several tasks; `Files`; the calibration
profile, with concurrent rebuilds; the composition of `Quote` with `Escrow` at the
accepted quote.
