-------------------------- MODULE StandingCapacity --------------------------
(***************************************************************************)
(* One client's standing capacity account: a block of minutes a week, the  *)
(* worker assigned to it, and what operators record as paid.               *)
(* src/server/actions/standing-capacity.ts, src/lib/standing-period.ts,    *)
(* standing-restitution.ts, standing-assignments.ts and the rollover of    *)
(* src/server/sweeps.ts.                                                   *)
(*                                                                         *)
(* A submission, a credit and the sweep take the account's advisory lock;  *)
(* an assignment, a suspension and a change of status do not, so a         *)
(* submission is two actions: what it read, and what it commits.  A week   *)
(* is Week ticks.  The clock does not wait for a submission: it rolls the  *)
(* account to the moment it read and dates its task later, so its minutes  *)
(* may be taken from one week and its task made in the next.               *)
(***************************************************************************)
EXTENDS Integers, FiniteSets

CONSTANTS
  Tasks,
  Workers,
  Nobody,
  Week,           \* ticks in a week
  CreatedLater,   \* createdAt is a moment after the first currentPeriodStart
  Block,          \* tierHours * 60
  Sizes,          \* estimates a client gives
  MaxBackdated,   \* MAX_BACKDATED_PERIODS
  Slowest,        \* ticks a transaction may stay open before it is rolled back
  Horizon,        \* bound on the clock
  MaxRows,        \* bound on assignments
  MaxRecords      \* bound on recorded payments and payouts

ASSUME StandingAssumption ==
  /\ IsFiniteSet(Tasks)
  /\ Nobody \notin Workers
  /\ Week \in Nat \ {0}
  /\ CreatedLater \in BOOLEAN
  /\ Block \in Nat
  /\ Sizes \subseteq Nat \ {0}
  /\ MaxBackdated \in Nat \ {0}
  /\ Slowest \in Nat
  /\ Horizon \in Nat
  /\ MaxRows \in Nat
  /\ MaxRecords \in Nat

Never == Horizon + 1     \* activeTo is null; no event
Weeks == {w \in 0..Horizon : w % Week = 0}

VARIABLES
  clock,
  start,        \* currentPeriodStart
  used,         \* minutesUsedThisPeriod
  active,       \* status = active
  approved,     \* vaProfile.status of each worker
  held,         \* StandingCapacityAssignment rows
  submitting,   \* what the submission in flight has read, {} without one
  status,       \* of each task; "claimed" is with its worker, delivered or not
  made,         \* createdAt of each task
  size,         \* estimatedMinutes of each task
  counted,      \* the week whose counter took each task, history
  credited,     \* the week whose counter got it back with the task's
                \* standing_minutes_returned event, Never without one
  paid,         \* weeks with a StandingCapacityPayment
  payouts       \* StandingCapacityPayout rows: worker and week

accountVars == <<start, used>>
taskVars    == <<status, made, size, counted, credited>>
workerVars  == <<approved, held>>
bookVars    == <<paid, payouts>>
vars == <<clock, accountVars, active, workerVars, submitting, taskVars, bookVars>>

End  == start + Week
Open == {a \in held : a.to = Never}

Returned == {t \in Tasks : credited[t] # Never}

Reads == [task : Tasks, size : Sizes, by : Workers \cup {Nobody},
          now : 0..Horizon, start : Weeks, used : 0..Block]

TypeOK ==
  /\ clock \in 0..Horizon
  /\ start \in Weeks
  /\ used \in 0..Block
  /\ active \in BOOLEAN
  /\ approved \in [Workers -> BOOLEAN]
  /\ held \subseteq [worker : Workers, from : 0..Horizon, to : 0..Never]
  /\ Cardinality(Open) <= 1
  /\ submitting \subseteq Reads /\ Cardinality(submitting) <= 1
  /\ status \in [Tasks -> {"new", "submitted", "claimed", "gone"}]
  /\ made \in [Tasks -> 0..Horizon]
  /\ size \in [Tasks -> Sizes \cup {0}]
  /\ counted \in [Tasks -> Weeks]
  /\ credited \in [Tasks -> Weeks \cup {Never}]
  /\ paid \subseteq Weeks
  /\ payouts \subseteq Workers \X Weeks

\* createStandingCapacityAccount.
Init ==
  /\ clock = 0 /\ start = 0 /\ used = 0 /\ active = TRUE
  /\ approved = [w \in Workers |-> TRUE]
  /\ held = {} /\ submitting = {}
  /\ status = [t \in Tasks |-> "new"]
  /\ made = [t \in Tasks |-> 0]
  /\ size = [t \in Tasks |-> 0]
  /\ counted = [t \in Tasks |-> 0]
  /\ credited = [t \in Tasks |-> Never]
  /\ paid = {} /\ payouts = {}

Unlocked == submitting = {}

-----------------------------------------------------------------------------
(* The period.                                                             *)

\* Mutant: the new week starts when somebody looks.
RollFromNow(from, now) == IF from + Week > now THEN from ELSE now

\* rollForwardPeriods: whole weeks from the old boundary.
RollForward(from, now) == from + Week * ((now - from) \div Week)

\* advanceStandingCapacityPeriods selects accounts without a lock, then takes
\* the lock and looks again: a submission may have rolled the account first,
\* an operator may have paused it.
SweepRolls ==
  /\ Unlocked /\ active /\ End <= clock
  /\ start' = RollForward(start, clock) /\ used' = 0
  /\ UNCHANGED <<clock, active, workerVars, submitting, taskVars, bookVars>>

-----------------------------------------------------------------------------
(* Submitting a task.                                                      *)

\* currentAssignee: the open row, if its worker is approved.
CurrentAssignee ==
  IF \E a \in Open : approved[a.worker]
    THEN (CHOOSE a \in Open : approved[a.worker]).worker
    ELSE Nobody

\* Mutant: the estimate is held against the block, not what is left of it.
SubmitReadsTheBlock(t, n) ==
  /\ Unlocked /\ active /\ status[t] = "new" /\ n <= Block
  /\ LET week == RollForward(start, clock)
     IN  submitting' = {[task |-> t, size |-> n, by |-> CurrentAssignee, now |-> clock,
                         start |-> week, used |-> IF week = start THEN used ELSE 0]}
  /\ UNCHANGED <<clock, accountVars, active, workerVars, taskVars, bookVars>>

\* submitStandingTask under the lock: the week it is now, what is left of it,
\* and who works on the account.
SubmitReads(t, n) ==
  /\ Unlocked /\ active /\ status[t] = "new"
  /\ LET week   == RollForward(start, clock)
         before == IF week = start THEN used ELSE 0
     IN  /\ n <= Block - before
         /\ submitting' = {[task |-> t, size |-> n, by |-> CurrentAssignee, now |-> clock,
                            start |-> week, used |-> before]}
  /\ UNCHANGED <<clock, accountVars, active, workerVars, taskVars, bookVars>>

\* It commits: the roll to the moment it read, the task dated when it was
\* inserted after that, its routing, and the minutes it takes from the week
\* rolled to.
SubmitCommits ==
  \E s \in submitting :
    /\ clock <= s.now + Slowest
    /\ submitting' = {}
    /\ start' = s.start
    /\ used' = s.used + s.size
    /\ status' = [status EXCEPT ![s.task] = IF s.by = Nobody THEN "submitted" ELSE "claimed"]
    /\ \E created \in s.now..clock : made' = [made EXCEPT ![s.task] = created]
    /\ size' = [size EXCEPT ![s.task] = s.size]
    /\ counted' = [counted EXCEPT ![s.task] = s.start]
    /\ UNCHANGED <<clock, active, workerVars, credited, bookVars>>

\* A file it could not attach, a process that died, or a transaction open for
\* too long.
SubmitRollsBack ==
  /\ submitting # {}
  /\ submitting' = {}
  /\ UNCHANGED <<clock, accountVars, active, workerVars, taskVars, bookVars>>

-----------------------------------------------------------------------------
(* Giving minutes back.                                                    *)

Lesser(a, b) == IF a < b THEN a ELSE b

\* Mutant: a task of a closed week is credited to the current one.
ReturnsWhateverTheWeek(t) ==
  IF t \in Returned
    THEN UNCHANGED <<used, credited>>
    ELSE /\ used' = used - Lesser(size[t], used)
         /\ credited' = [credited EXCEPT ![t] = start]

\* returnStandingMinutes: once a task, and only in the week it was made in as
\* far as the account has been rolled, whichever week it was taken from.
ReturnStandingMinutes(t) ==
  IF t \in Returned \/ made[t] < start
    THEN UNCHANGED <<used, credited>>
    ELSE /\ used' = used - Lesser(size[t], used)
         /\ credited' = [credited EXCEPT ![t] = start]

\* cancelTask, or resolveDispute for the client.
Cancel(t) ==
  /\ Unlocked /\ status[t] \in {"submitted", "claimed"}
  /\ status' = [status EXCEPT ![t] = "gone"]
  /\ ReturnStandingMinutes(t)
  /\ UNCHANGED <<clock, start, active, workerVars, submitting, made, size, counted,
                 bookVars>>

\* reassignTask sends a standing task back to wait for its routing.
Reassign(t) ==
  /\ status[t] = "claimed"
  /\ status' = [status EXCEPT ![t] = "submitted"]
  /\ UNCHANGED <<clock, accountVars, active, workerVars, submitting, made, size,
                 counted, credited, bookVars>>

-----------------------------------------------------------------------------
(* Who works on the account.                                               *)

Closed(rows) == {[a EXCEPT !.to = IF a \in rows THEN clock ELSE @] : a \in held}

Routed == [t \in Tasks |-> IF status[t] = "submitted" THEN "claimed" ELSE status[t]]

\* Mutant: the row of the worker before stays open.
AssignBeside(w) ==
  /\ Cardinality(held) < MaxRows
  /\ held' = held \cup {[worker |-> w, from |-> clock, to |-> Never]}
  /\ status' = Routed
  /\ UNCHANGED <<clock, accountVars, active, approved, submitting, made, size, counted,
                 credited, bookVars>>

\* assignWorker closes the open row, opens a new one and routes what waits, in
\* one transaction.  It checked the account and the worker before, and either
\* may have been suspended since.
AssignWorker(w) ==
  /\ Cardinality(held) < MaxRows
  /\ held' = Closed(Open) \cup {[worker |-> w, from |-> clock, to |-> Never]}
  /\ status' = Routed
  /\ UNCHANGED <<clock, accountVars, active, approved, submitting, made, size, counted,
                 credited, bookVars>>

\* suspendVa and the two floors of reviews close the worker's rows.
Suspend(w) ==
  /\ approved[w]
  /\ approved' = [approved EXCEPT ![w] = FALSE]
  /\ held' = Closed({a \in Open : a.worker = w})
  /\ UNCHANGED <<clock, accountVars, active, submitting, taskVars,
                 bookVars>>

\* approveVa takes a suspended worker back.
Approve(w) ==
  /\ ~approved[w]
  /\ approved' = [approved EXCEPT ![w] = TRUE]
  /\ UNCHANGED <<clock, accountVars, active, held, submitting, taskVars,
                 bookVars>>

\* setStandingCapacityStatus takes no lock and refuses nothing.
SetStatus ==
  /\ active' = ~active
  /\ UNCHANGED <<clock, accountVars, workerVars, submitting, taskVars, bookVars>>

-----------------------------------------------------------------------------
(* What operators record as paid.                                          *)

MayRecord == Cardinality(paid) + Cardinality(payouts) < MaxRecords

Predates(week) == IF CreatedLater THEN week <= 0 ELSE week < 0

\* selectablePeriods: the current week and those before it, as far as the
\* account's own creation.
Selectable ==
  {start - k * Week : k \in {k \in 0..(MaxBackdated - 1) : k = 0 \/ ~Predates(start - k * Week)}}

\* recordPeriodPayment, once a week by its unique index.
RecordPayment(week) ==
  /\ MayRecord /\ active /\ week \notin paid
  /\ paid' = paid \cup {week}
  /\ UNCHANGED <<clock, accountVars, active, workerVars, submitting, taskVars,
                 payouts>>

\* Mutant: whoever has the account now.
AssigneeNow(week) == Open

\* assigneeAtPeriodEnd: the rows that cover the end of the week.
AssigneeAtPeriodEnd(week) == {a \in held : a.from < week + Week /\ a.to >= week + Week}

\* recordWorkerPeriodPayout: the latest of them is paid, once a week.
RecordPayout(week) ==
  /\ MayRecord
  /\ \E a \in AssigneeAtPeriodEnd(week) :
       /\ \A b \in AssigneeAtPeriodEnd(week) : b.from <= a.from
       /\ <<a.worker, week>> \notin payouts
       /\ payouts' = payouts \cup {<<a.worker, week>>}
  /\ UNCHANGED <<clock, accountVars, active, workerVars, submitting, taskVars, paid>>

Tick ==
  /\ clock < Horizon
  /\ clock' = clock + 1
  /\ UNCHANGED <<accountVars, active, workerVars, submitting, taskVars, bookVars>>

-----------------------------------------------------------------------------
Next ==
  \/ \E t \in Tasks : Cancel(t) \/ Reassign(t) \/ \E n \in Sizes : SubmitReads(t, n)
  \/ SubmitCommits \/ SubmitRollsBack
  \/ \E w \in Workers :
       AssignWorker(w) \/ Suspend(w) \/ Approve(w)
  \/ \E week \in Selectable : RecordPayment(week) \/ RecordPayout(week)
  \/ SweepRolls \/ SetStatus \/ Tick

Spec == Init /\ [][Next]_vars

-----------------------------------------------------------------------------
(* Properties.                                                             *)

\* Tasks a week's counter took that were not given back.
SoldFrom(week) ==
  {t \in Tasks : status[t] # "new" /\ t \notin Returned /\ counted[t] = week}

\* Tasks taken from an earlier week, made in this one or later, and given back
\* to this one.
Misplaced(week) == {t \in Tasks : credited[t] = week /\ counted[t] < week /\ week <= made[t]}

\* One element for every minute the tasks of S were booked for.
Minutes(S) == UNION {{t} \X (1..size[t]) : t \in S}

\* What each week was sold for, and what it got back that another was sold for.
Sold  == [week \in Weeks |-> Cardinality(Minutes(SoldFrom(week)))]
Extra == [week \in Weeks |-> Cardinality(Minutes(Misplaced(week)))]

\* The counter is what the account's week was sold for: no roll, credit or
\* submission leaves the client less of the block, and none leaves more but the
\* return of a task whose submission ran from an earlier week into this one
\* (lockStandingAccount, submitStandingTask, returnStandingMinutes).
CounterIsTrue == used <= Sold[start] /\ Sold[start] <= used + Extra[start]

\* No week, open or closed long ago, is sold for more than its block and the
\* one task that was given back to it though an earlier week was sold for it:
\* late rolls and late credits move nothing else from one week to another
\* (submitStandingTask, rollForwardPeriods, returnStandingMinutes).
NeverOversold ==
  \A week \in Weeks : Sold[week] <= Block + Extra[week] /\ Cardinality(Misplaced(week)) <= 1

Blocks == INSTANCE WeeklyBlocks WITH week <- start, sold <- Sold, extra <- Extra

\* The account sells a block a week: whoever submits, withdraws or rolls late,
\* every change is to the week the account is in, and what an earlier week was
\* sold for is never touched, but for one withdrawal a week that frees minutes
\* of this week for those of an earlier one (submitStandingTask,
\* returnStandingMinutes, advanceStandingCapacityPeriods).
SellsWeeklyBlocks == Blocks!Spec

\* A worker is only paid for a week in which an assignment of theirs ran, and
\* not for one that began after they had left (assigneeAtPeriodEnd).
PaidForHeldWeek ==
  \A p \in payouts : \E a \in held :
    a.worker = p[1] /\ a.from < p[2] + Week /\ a.to >= p[2]

\* "then each earlier week back to the account's opening": an operator can
\* still record every week the account has had (selectablePeriods).
EveryWeekRecordable ==
  \A week \in Weeks : week <= start /\ start - week < MaxBackdated * Week => week \in Selectable
=============================================================================
