------------------------------ MODULE Payments ------------------------------
(***************************************************************************)
(* The money side of one fixed-price task: its Payment rows, the Stripe    *)
(* objects behind them, the MoneyIntent queue and the runners that drain   *)
(* it (src/server/money-intents.ts), and the webhook reconcilers           *)
(* (src/lib/payments/stripe.ts).                                           *)
(*                                                                         *)
(* A task has at most one card payment (checkoutUrlForTask reuses the      *)
(* pending row) and at most one wire payment (recordManualPayment leaves   *)
(* awaiting_payment for good).  A runner works in three separate steps,    *)
(* because nothing holds a transaction across them: it claims an intent,   *)
(* calls Stripe, and commits or records a failure.  Between two of them    *)
(* anything may happen, the runner's death included.                       *)
(***************************************************************************)
EXTENDS Integers, FiniteSets

CONSTANTS
  Runners,           \* invocations of processMoneyIntents alive at once
  MaxAttempts,       \* MAX_ATTEMPTS
  Price,             \* the accepted price, in units a refund can split
  DashboardRefunds,  \* amounts an operator may refund in Stripe's Dashboard
  BankRulings        \* how a chargeback may end: {}, or some of "won", "lost"

ASSUME PaymentsAssumption ==
  /\ MaxAttempts \in Nat \ {0}
  /\ Price \in Nat \ {0}
  /\ DashboardRefunds \subseteq 1..Price
  /\ BankRulings \subseteq {"won", "lost"}

VARIABLES
  card,         \* status of the Stripe Payment row, "absent" before it exists
  wire,         \* status of the manual Payment row
  wireRefund,   \* sum of the manual Refund rows
  saleBooked,   \* the ledger holds the card's "sale" entry
  refundRow,    \* the Stripe refunds that have a Refund row and ledger entry
  intent,       \* the MoneyIntent rows the cron drains
  refundDue,    \* amountCents of the refund_client intent
  runner,       \* what each runner is doing
  pi,           \* Stripe: the Checkout session, then its PaymentIntent
  sentRefund,   \* Stripe: the amount of each refund it has made
  bankDispute   \* Stripe: the state of the card holder's chargeback

booksVars  == <<card, wire, wireRefund, saleBooked, refundRow>>
queueVars  == <<intent, refundDue, runner>>
stripeVars == <<pi, sentRefund, bankDispute>>
payVars    == <<booksVars, queueVars, stripeVars>>

(***************************************************************************)
(* The drained intents, by what their idempotency key stands for: the      *)
(* capture, the two reasons to release a hold (a payment that lands after  *)
(* the cancellation; the cancellation or upheld dispute itself) and the    *)
(* refund.  release_payout rows are skipped by the drain: see Escrow.      *)
(* void_payout is never enqueued by any code.                              *)
(***************************************************************************)
CancelKeys == {"late_cancel", "end_cancel"}
IntentKeys == CancelKeys \cup {"capture", "refund"}
RefundIds  == {"app", "dashboard"}

Settled == {"received", "partially_refunded"}

CardStatuses ==
  Settled \cup {"absent", "pending", "authorized", "refunded", "cancelled", "chargeback"}
WireStatuses == Settled \cup {"absent", "refunded"}

Intent ==
  [status: {"absent", "queued", "processing", "done", "failed"},
   attempts: Nat,
   leased: BOOLEAN]

Working == [pc: {"claimed", "called"}, key: IntentKeys]
Idle    == [pc |-> "idle", key |-> "none"]

PaymentsTypeOK ==
  /\ card \in CardStatuses
  /\ wire \in WireStatuses
  /\ wireRefund \in 0..Price
  /\ saleBooked \in BOOLEAN
  /\ refundRow \subseteq RefundIds
  /\ intent \in [IntentKeys -> Intent]
  /\ refundDue \in 0..Price
  /\ runner \in [Runners -> Working \cup {Idle}]
  /\ pi \in {"none", "open", "held", "captured", "canceled"}
  /\ sentRefund \in [RefundIds -> 0..Price]
  /\ bankDispute \in {"none", "open", "won", "lost"}

NoIntent == [status |-> "absent", attempts |-> 0, leased |-> FALSE]

PaymentsInit ==
  /\ card = "absent"
  /\ wire = "absent"
  /\ wireRefund = 0
  /\ saleBooked = FALSE
  /\ refundRow = {}
  /\ intent = [k \in IntentKeys |-> NoIntent]
  /\ refundDue = 0
  /\ runner = [r \in Runners |-> Idle]
  /\ pi = "none"
  /\ sentRefund = [id \in RefundIds |-> 0]
  /\ bankDispute = "none"

-----------------------------------------------------------------------------
(* What the rows add up to. *)

RefundOf(rows, id) == IF id \in rows THEN sentRefund[id] ELSE 0

(* refund.aggregate over the card payment's Refund rows. *)
Refunded(rows) == RefundOf(rows, "app") + RefundOf(rows, "dashboard")

AfterRefund(total) == IF total >= Price THEN "refunded" ELSE "partially_refunded"

(* The funding check of markPayoutPaid: settled payments less their refunds. *)
Held == (IF card \in Settled THEN Price - Refunded(refundRow) ELSE 0)
          + (IF wire \in Settled THEN Price - wireRefund ELSE 0)

(* upsert with update: {}: the row is created once and never touched again. *)
EnqueuedOnce(queue, k) ==
  IF queue[k].status = "absent"
  THEN [queue EXCEPT ![k] = [NoIntent EXCEPT !.status = "queued"]]
  ELSE queue

(* Mutant: the selection before its recovery half was added. *)
ClaimableByStatusOnly(k) ==
  /\ intent[k].attempts < MaxAttempts
  /\ intent[k].status \in {"queued", "failed"}

(* The WHERE clause of both the selection and the claim. *)
Claimable(k) ==
  /\ intent[k].attempts < MaxAttempts
  /\ \/ intent[k].status \in {"queued", "failed"}
     \/ intent[k].status = "processing" /\ ~intent[k].leased

-----------------------------------------------------------------------------
(***************************************************************************)
(* processMoneyIntents.                                                    *)
(***************************************************************************)
On(r, pc, keys) == runner[r].pc = pc /\ runner[r].key \in keys

Claim(r, k) ==
  /\ runner[r] = Idle
  /\ Claimable(k)
  /\ intent' = [intent EXCEPT ![k] =
                  [status |-> "processing", attempts |-> @.attempts + 1, leased |-> TRUE]]
  /\ runner' = [runner EXCEPT ![r] = [pc |-> "claimed", key |-> k]]
  /\ UNCHANGED <<booksVars, refundDue, stripeVars>>

(* LEASE_MS passes while the row is processing, its runner dead or slow. *)
LeaseExpires(k) ==
  /\ intent[k].status = "processing"
  /\ intent[k].leased
  /\ intent' = [intent EXCEPT ![k].leased = FALSE]
  /\ UNCHANGED <<booksVars, refundDue, runner, stripeVars>>

(* Writing `done` by id, whatever the row's status has become meanwhile.   *)
(* The lease of a done row is never read again.                            *)
MarkDone(k) == intent' = [intent EXCEPT ![k].status = "done", ![k].leased = FALSE]

(* Mutant: the books are written before Stripe is asked. *)
CallCaptureBooksFirst(r) ==
  /\ On(r, "claimed", {"capture"})
  /\ card = "authorized"
  /\ card' = "received"
  /\ runner' = [runner EXCEPT ![r].pc = "called"]
  /\ UNCHANGED <<wire, wireRefund, saleBooked, refundRow, intent, refundDue, stripeVars>>

(* Stripe captures a hold once; the same idempotency key is answered with  *)
(* the first result.                                                       *)
CallCapture(r) ==
  /\ On(r, "claimed", {"capture"})
  /\ card = "authorized"
  /\ pi \in {"held", "captured"}
  /\ pi' = "captured"
  /\ runner' = [runner EXCEPT ![r].pc = "called"]
  /\ UNCHANGED <<booksVars, intent, refundDue, sentRefund, bankDispute>>

CommitCapture(r) ==
  /\ On(r, "called", {"capture"})
  /\ card' = "received"
  /\ saleBooked' = TRUE
  /\ MarkDone("capture")
  /\ runner' = [runner EXCEPT ![r] = Idle]
  /\ UNCHANGED <<wire, wireRefund, refundRow, refundDue, stripeVars>>

CallCancel(r) ==
  /\ On(r, "claimed", CancelKeys)
  /\ card = "authorized"
  /\ pi \in {"held", "canceled"}
  /\ pi' = "canceled"
  /\ runner' = [runner EXCEPT ![r].pc = "called"]
  /\ UNCHANGED <<booksVars, intent, refundDue, sentRefund, bankDispute>>

CommitCancel(r) ==
  /\ On(r, "called", CancelKeys)
  /\ card' = "cancelled"
  /\ MarkDone(runner[r].key)
  /\ runner' = [runner EXCEPT ![r] = Idle]
  /\ UNCHANGED <<wire, wireRefund, saleBooked, refundRow, refundDue, stripeVars>>

(* Mutant: only money received is looked up, so a hold reads as resolved. *)
NothingSettledToCancel(r) ==
  /\ On(r, "claimed", CancelKeys)
  /\ card \notin Settled
  /\ MarkDone(runner[r].key)
  /\ runner' = [runner EXCEPT ![r] = Idle]
  /\ UNCHANGED <<booksVars, refundDue, stripeVars>>

(* No authorized payment is left: "Already resolved", the intent is done. *)
NothingToCancel(r) ==
  /\ On(r, "claimed", CancelKeys)
  /\ card # "authorized"
  /\ MarkDone(runner[r].key)
  /\ runner' = [runner EXCEPT ![r] = Idle]
  /\ UNCHANGED <<booksVars, refundDue, stripeVars>>

(* Stripe refunds at most what it still holds, not during a chargeback,    *)
(* and answers a repeated key with the refund it made.                     *)
CallRefund(r) ==
  /\ On(r, "claimed", {"refund"})
  /\ card \in Settled
  /\ \/ /\ sentRefund["app"] = 0
        /\ bankDispute \in {"none", "won"}
        /\ refundDue + sentRefund["dashboard"] <= Price
        /\ sentRefund' = [sentRefund EXCEPT !["app"] = refundDue]
     \/ /\ sentRefund["app"] # 0
        /\ UNCHANGED sentRefund
  /\ runner' = [runner EXCEPT ![r].pc = "called"]
  /\ UNCHANGED <<booksVars, intent, refundDue, pi, bankDispute>>

CommitRefund(r) ==
  /\ On(r, "called", {"refund"})
  /\ refundRow' = refundRow \cup {"app"}
  /\ card' = AfterRefund(Refunded(refundRow'))
  /\ MarkDone("refund")
  /\ runner' = [runner EXCEPT ![r] = Idle]
  /\ UNCHANGED <<wire, wireRefund, saleBooked, refundDue, stripeVars>>

(* Mutant: the status is written in a `finally`, as if nothing was left to do. *)
RunnerFailsDone(r) ==
  /\ runner[r] # Idle
  /\ MarkDone(runner[r].key)
  /\ runner' = [runner EXCEPT ![r] = Idle]
  /\ UNCHANGED <<booksVars, refundDue, stripeVars>>

(* Every throw ends in the catch: no payment in the right state, Stripe    *)
(* refused or timed out (the call may have taken effect), the commit       *)
(* failed.  A refund whose payment is manual writes the same status.  The  *)
(* write is by id: nothing checks that this runner still owns the row.     *)
RunnerFails(r) ==
  /\ runner[r] # Idle
  /\ intent' = [intent EXCEPT ![runner[r].key].status = "failed",
                              ![runner[r].key].leased = FALSE]
  /\ runner' = [runner EXCEPT ![r] = Idle]
  /\ UNCHANGED <<booksVars, refundDue, stripeVars>>

(* The process dies: the row stays as the claim left it. *)
RunnerDies(r) ==
  /\ runner[r] # Idle
  /\ runner' = [runner EXCEPT ![r] = Idle]
  /\ UNCHANGED <<booksVars, intent, refundDue, stripeVars>>

RunnerStep(r) ==
  \/ CallCapture(r) \/ CommitCapture(r)
  \/ CallCancel(r) \/ CommitCancel(r) \/ NothingToCancel(r)
  \/ CallRefund(r) \/ CommitRefund(r)
  \/ RunnerFails(r)

-----------------------------------------------------------------------------
(***************************************************************************)
(* Stripe and the people who act on it, outside this code.                 *)
(***************************************************************************)
(* Mutant: the session lost its `capture_method: manual`. *)
ClientPaysOutright ==
  /\ pi = "open"
  /\ pi' = "captured"
  /\ UNCHANGED <<booksVars, queueVars, sentRefund, bankDispute>>

(* The session is opened with `capture_method: manual`. *)
ClientCompletesCheckout ==
  /\ pi = "open"
  /\ pi' = "held"
  /\ UNCHANGED <<booksVars, queueVars, sentRefund, bankDispute>>

(* The seven-day card authorization lapses. *)
HoldLapses ==
  /\ pi = "held"
  /\ pi' = "canceled"
  /\ UNCHANGED <<booksVars, queueVars, sentRefund, bankDispute>>

RefundInDashboard ==
  /\ pi = "captured"
  /\ sentRefund["dashboard"] = 0
  /\ bankDispute \in {"none", "won"}
  /\ \E amount \in DashboardRefunds :
       /\ amount + sentRefund["app"] <= Price
       /\ sentRefund' = [sentRefund EXCEPT !["dashboard"] = amount]
  /\ UNCHANGED <<booksVars, queueVars, pi, bankDispute>>

BankOpensDispute ==
  /\ pi = "captured"
  /\ bankDispute = "none"
  /\ BankRulings # {}
  /\ bankDispute' = "open"
  /\ UNCHANGED <<booksVars, queueVars, pi, sentRefund>>

BankRules ==
  /\ bankDispute = "open"
  /\ bankDispute' \in BankRulings
  /\ UNCHANGED <<booksVars, queueVars, pi, sentRefund>>

-----------------------------------------------------------------------------
(***************************************************************************)
(* The webhook reconcilers.  Stripe delivers an event at least once and in *)
(* any order, so each is enabled from the moment its event exists, and     *)
(* carries the dispute status of the moment it was emitted.                *)
(***************************************************************************)

(* reconcileStripeRefunds: the refund list is read from Stripe or, when     *)
(* that call fails, taken from the payload, which carries none.            *)
ReconcileRefunds ==
  LET made == {id \in RefundIds : sentRefund[id] > 0} IN
  /\ made # {}
  /\ card \notin {"absent", "pending"}        \* found by providerRef
  /\ \E listed \in {made, {}} : refundRow' = refundRow \cup listed
  /\ card' = IF card = "chargeback" \/ Refunded(refundRow') = 0
             THEN card
             ELSE AfterRefund(Refunded(refundRow'))
  /\ UNCHANGED <<wire, wireRefund, saleBooked, queueVars, stripeVars>>

(* reconcileStripeDispute on an event whose dispute is not won: the        *)
(* `created` event, or `closed` with a loss.                               *)
ReconcileDispute ==
  /\ bankDispute # "none"
  /\ card \notin {"absent", "pending", "chargeback"}
  /\ card' = "chargeback"
  /\ UNCHANGED <<wire, wireRefund, saleBooked, refundRow, queueVars, stripeVars>>

(* reconcileStripeDispute on `closed` with a win. *)
ReconcileDisputeWon ==
  /\ bankDispute = "won"
  /\ card = "chargeback"
  /\ card' = IF Refunded(refundRow) > 0 THEN AfterRefund(Refunded(refundRow)) ELSE "received"
  /\ UNCHANGED <<wire, wireRefund, saleBooked, refundRow, queueVars, stripeVars>>

(* reconcileStripePaymentIntentCanceled. *)
ReconcileCanceled ==
  /\ pi = "canceled"
  /\ card = "authorized"
  /\ card' = "cancelled"
  /\ UNCHANGED <<wire, wireRefund, saleBooked, refundRow, queueVars, stripeVars>>

PaymentsNext ==
  \/ \E r \in Runners : \/ \E k \in IntentKeys : Claim(r, k)
                        \/ RunnerStep(r)
                        \/ RunnerDies(r)
  \/ \E k \in IntentKeys : LeaseExpires(k)
  \/ ClientCompletesCheckout \/ HoldLapses
  \/ RefundInDashboard \/ BankOpensDispute \/ BankRules
  \/ ReconcileRefunds \/ ReconcileDispute \/ ReconcileDisputeWon \/ ReconcileCanceled
=============================================================================
