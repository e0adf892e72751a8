------------------------------- MODULE Escrow -------------------------------
(***************************************************************************)
(* A fixed-price task from the accepted quote to its end, with the money   *)
(* that follows it: the status machine of src/lib/state.ts as its callers  *)
(* drive it, the worker payouts, the release_payout orders, the dispute    *)
(* window sweep and the operator's money actions.  Payments is the other   *)
(* half of the state; an action of this module that enqueues, retires or   *)
(* fulfils something changes both halves in one transaction.               *)
(*                                                                         *)
(* A transaction whose compare-and-swap on the task's status vouches for   *)
(* all it read before is one step.  Three are not guarded that way and     *)
(* take two: the dispute window sweep, which selects tasks and later       *)
(* releases each one without looking at it again; markPayoutPaid, whose    *)
(* swap is on the payout while what it checked is the payments; and a      *)
(* cancellation, which reads the newest payment and then swaps from almost *)
(* any status, READ COMMITTED letting a payment in between.                *)
(***************************************************************************)
EXTENDS Payments

CONSTANTS
  Workers,
  NoWorker,            \* claimedById is null
  PayoutAmount,        \* vaPayoutCents
  Methods,             \* how the client may pay: some of "card", "wire"
  AfterPayment,        \* "open", or "ai_processing" with an executable plan
  MaxQcRounds,         \* settings.maxQcRounds
  MaxRevisionRounds,   \* settings.maxRevisionRounds
  MaxDisputes          \* bound on disputes opened; the code has none

ASSUME EscrowAssumption ==
  /\ NoWorker \notin Workers
  /\ PayoutAmount \in 1..Price
  /\ Methods \subseteq {"card", "wire"}
  /\ AfterPayment \subseteq {"open", "ai_processing"}
  /\ MaxQcRounds \in Nat \ {0}
  /\ MaxRevisionRounds \in Nat
  /\ MaxDisputes \in Nat

VARIABLES
  status,           \* Task.status
  claimedBy,        \* Task.claimedById
  barred,           \* workers with a rejected submission on the task
  qcRounds,         \* Task.qcRounds
  revisionRounds,   \* Task.revisionRounds
  instructed,       \* revisionInstructions is set
  delivered,        \* firstCompletedAt is set
  disputeWindow,    \* disputeWindowEndsAt: unset, ahead or past
  revisionWindow,   \* revisionWindowEndsAt, likewise
  disputes,         \* disputes opened so far
  payout,           \* Payout.status of each worker, "none" without a row
  release,          \* release_payout order of each worker
  picked,           \* a sweep has selected the task and not yet released it
  funded,           \* payouts past markPayoutPaid's funding check
  seen,             \* what a cancellation in progress read of the payments
  overlooked        \* (history) the one that went through missed a hold

taskVars   == <<status, claimedBy, barred, qcRounds, revisionRounds, instructed>>
windowVars == <<delivered, disputeWindow, revisionWindow, disputes>>
payoutVars == <<payout, release, picked, funded>>
cancelVars == <<seen, overlooked>>
escrowVars == <<taskVars, windowVars, payoutVars, cancelVars>>
vars       == <<payVars, escrowVars>>

Statuses ==
  {"awaiting_payment", "expired", "ai_processing", "open", "claimed", "submitted_for_qc",
   "qc_rejected", "revision_requested", "completed", "disputed", "cancelled"}

InWork == {"claimed", "qc_rejected", "submitted_for_qc", "revision_requested"}

Cancellable == Statuses \ {"completed", "cancelled"}

TaskTypeOK ==
  /\ status \in Statuses
  /\ claimedBy \in Workers \cup {NoWorker}
  /\ barred \subseteq Workers
  /\ qcRounds \in 0..MaxQcRounds
  /\ revisionRounds \in 0..MaxRevisionRounds
  /\ instructed \in BOOLEAN
  /\ delivered \in BOOLEAN
  /\ disputeWindow \in {"unset", "ahead", "past"}
  /\ revisionWindow \in {"unset", "ahead", "past"}
  /\ disputes \in 0..MaxDisputes
  /\ payout \in [Workers -> {"none", "owed", "released", "paid", "void"}]
  /\ release \in [Workers -> {"absent", "queued", "failed", "done"}]
  /\ picked \in BOOLEAN
  /\ funded \subseteq Workers

NotReading == [by |-> "nobody", due |-> 0, hold |-> FALSE]

CancelTypeOK ==
  /\ seen \in [by: {"nobody", "cancelTask", "decideDispute"}, due: Int, hold: BOOLEAN]
  /\ seen.due <= Price
  /\ overlooked \in BOOLEAN

TypeOK == PaymentsTypeOK /\ TaskTypeOK /\ CancelTypeOK

(* The client has just accepted the quote: acceptQuote. *)
Init ==
  /\ PaymentsInit
  /\ status = "awaiting_payment"
  /\ claimedBy = NoWorker
  /\ barred = {}
  /\ qcRounds = 0
  /\ revisionRounds = 0
  /\ instructed = FALSE
  /\ delivered = FALSE
  /\ disputeWindow = "unset"
  /\ revisionWindow = "unset"
  /\ disputes = 0
  /\ payout = [w \in Workers |-> "none"]
  /\ release = [w \in Workers |-> "absent"]
  /\ picked = FALSE
  /\ funded = {}
  /\ seen = NotReading
  /\ overlooked = FALSE

-----------------------------------------------------------------------------
(***************************************************************************)
(* Getting paid.                                                           *)
(***************************************************************************)

(* The row is created before Stripe is asked for the session, which may    *)
(* fail; the next request finds the row and asks again.                    *)
CheckoutUrlForTask ==
  /\ "card" \in Methods
  /\ status = "awaiting_payment"
  /\ pi = "none"
  /\ card \in {"absent", "pending"}
  /\ card' = "pending"
  /\ pi' \in {"none", "open"}
  /\ UNCHANGED <<wire, wireRefund, saleBooked, refundRow, queueVars, sentRefund,
                 bankDispute, escrowVars>>

Authorized == IF card = "pending" THEN "authorized" ELSE card

(* Mutant: a late payment is taken as any other. *)
FulfillCheckoutOfCancelled ==
  /\ pi \notin {"none", "open"}
  /\ card' = Authorized
  /\ \/ /\ status \in {"awaiting_payment", "expired"}
        /\ status' \in AfterPayment
        /\ UNCHANGED intent
     \/ /\ status = "cancelled"
        /\ intent' = EnqueuedOnce(intent, "capture")
        /\ UNCHANGED status
     \/ /\ status \in {"open", "claimed", "ai_processing"}
        /\ UNCHANGED <<status, intent>>
  /\ UNCHANGED <<wire, wireRefund, saleBooked, refundRow, refundDue, runner, stripeVars,
                 claimedBy, barred, qcRounds, revisionRounds, instructed, windowVars,
                 payoutVars>>

(* fulfillCheckout on a completed session, from the webhook or from        *)
(* checkout recovery, any number of times.  In a status it does not list   *)
(* it throws, and the transaction leaves nothing behind.                   *)
FulfillCheckout ==
  /\ pi \notin {"none", "open"}
  /\ card' = Authorized
  /\ \/ /\ status \in {"awaiting_payment", "expired"}
        /\ status' \in AfterPayment
        /\ UNCHANGED intent
     \/ /\ status = "cancelled"
        /\ intent' = EnqueuedOnce(intent, "late_cancel")
        /\ UNCHANGED status
     \/ /\ status \in {"open", "claimed", "ai_processing"}
        /\ UNCHANGED <<status, intent>>
  /\ UNCHANGED <<wire, wireRefund, saleBooked, refundRow, refundDue, runner, stripeVars,
                 claimedBy, barred, qcRounds, revisionRounds, instructed, windowVars,
                 payoutVars>>

RecordManualPayment ==
  /\ "wire" \in Methods
  /\ status = "awaiting_payment"
  /\ status' \in AfterPayment
  /\ wire' = "received"
  /\ UNCHANGED <<card, wireRefund, saleBooked, refundRow, queueVars, stripeVars, claimedBy,
                 barred, qcRounds, revisionRounds, instructed, windowVars, payoutVars>>

SetStatus(s) ==
  /\ status' = s
  /\ UNCHANGED <<claimedBy, barred, qcRounds, revisionRounds, instructed>>

ExpireStalePayment ==
  /\ status = "awaiting_payment"
  /\ SetStatus("expired")
  /\ UNCHANGED <<payVars, windowVars, payoutVars>>

(* finishRun or a stalled-run sweep hands the task to the pool; a trigger  *)
(* of the database refuses one whose payment has gone.                     *)
RunHandsOver ==
  /\ status = "ai_processing"
  /\ card \in {"authorized", "received"} \/ wire = "received"
  /\ SetStatus("open")
  /\ UNCHANGED <<payVars, windowVars, payoutVars>>

-----------------------------------------------------------------------------
(***************************************************************************)
(* The work.                                                               *)
(***************************************************************************)
ClaimTask(w) ==
  /\ status = "open"
  /\ claimedBy = NoWorker
  /\ w \notin barred
  /\ status' = "claimed"
  /\ claimedBy' = w
  /\ UNCHANGED <<payVars, barred, qcRounds, revisionRounds, instructed, windowVars, payoutVars>>

ReleaseTask ==
  /\ status = "claimed"
  /\ status' = "open"
  /\ claimedBy' = NoWorker
  /\ UNCHANGED <<payVars, barred, qcRounds, revisionRounds, instructed, windowVars, payoutVars>>

SubmitDeliverable ==
  /\ \/ status \in {"claimed", "qc_rejected"}
     \/ status = "revision_requested" /\ instructed
  /\ SetStatus("submitted_for_qc")
  /\ UNCHANGED <<payVars, windowVars, payoutVars>>

(* Mutant: the `not: "paid"` of the WHERE clause is gone. *)
AnyRowTo(s, row) == IF row = "none" THEN row ELSE s

(* updateMany over payouts that are not paid. *)
UnpaidTo(s, row) == IF row \in {"none", "paid"} THEN row ELSE s

(* The delivery is final only after the window: the payout is owed, and a  *)
(* row left unpaid by an earlier approval is re-armed.                     *)
ApproveDeliverable ==
  /\ status = "submitted_for_qc"
  /\ SetStatus("completed")
  /\ delivered' = TRUE
  /\ disputeWindow' = "ahead"
  /\ revisionWindow' = "ahead"
  /\ payout' = [payout EXCEPT ![claimedBy] = IF @ = "paid" THEN @ ELSE "owed"]
  /\ UNCHANGED <<payVars, disputes, release, picked, funded>>

(* Rounds exhausted: back to the pool, and the ousted worker is not paid. *)
RejectDeliverable ==
  /\ status = "submitted_for_qc"
  /\ barred' = barred \cup {claimedBy}
  /\ \/ /\ qcRounds + 1 < MaxQcRounds
        /\ status' = "qc_rejected"
        /\ qcRounds' = qcRounds + 1
        /\ UNCHANGED <<claimedBy, payout>>
     \/ /\ qcRounds + 1 >= MaxQcRounds
        /\ status' = "open"
        /\ qcRounds' = 0
        /\ claimedBy' = NoWorker
        /\ payout' = [payout EXCEPT ![claimedBy] = UnpaidTo("void", @)]
  /\ UNCHANGED <<payVars, revisionRounds, instructed, windowVars, release, picked, funded>>

(* The worker's earlier payout row, if any, is left as it is. *)
ReassignTask ==
  /\ status \in InWork
  /\ status' = "open"
  /\ claimedBy' = NoWorker
  /\ qcRounds' = 0
  /\ barred' = IF status = "submitted_for_qc" THEN barred \cup {claimedBy} ELSE barred
  /\ UNCHANGED <<payVars, revisionRounds, instructed, windowVars, payoutVars>>

-----------------------------------------------------------------------------
(***************************************************************************)
(* Revisions and disputes.                                                 *)
(***************************************************************************)
(* Mutant: the payout is voided where it should wait. *)
VoidUnpaidPayout ==
  /\ payout' = [w \in Workers |-> IF payout[w] = "released" THEN "void" ELSE payout[w]]
  /\ release' = [w \in Workers |-> IF release[w] = "queued" THEN "failed" ELSE release[w]]

PauseUnpaidPayout ==
  /\ payout' = [w \in Workers |-> IF payout[w] = "released" THEN "owed" ELSE payout[w]]
  /\ release' = [w \in Workers |-> IF release[w] = "queued" THEN "failed" ELSE release[w]]

(* Mutant: one round too many. *)
RoundLeftOffByOne == revisionRounds <= MaxRevisionRounds

RoundLeft == revisionRounds < MaxRevisionRounds

RequestRevision ==
  /\ status = "completed"
  /\ revisionWindow = "ahead"
  /\ RoundLeft
  /\ status' = "revision_requested"
  /\ revisionRounds' = revisionRounds + 1
  /\ instructed' = FALSE
  /\ PauseUnpaidPayout
  /\ UNCHANGED <<payVars, claimedBy, barred, qcRounds, windowVars, picked, funded>>

PublishRevisionInstructions ==
  /\ status = "revision_requested"
  /\ instructed' = TRUE
  /\ UNCHANGED <<payVars, status, claimedBy, barred, qcRounds, revisionRounds, windowVars,
                 payoutVars>>

OpenDispute ==
  /\ status = "completed"
  /\ revisionWindow = "ahead"
  /\ disputes < MaxDisputes
  /\ status' = "disputed"
  /\ instructed' = FALSE
  /\ disputes' = disputes + 1
  /\ PauseUnpaidPayout
  /\ UNCHANGED <<payVars, claimedBy, barred, qcRounds, revisionRounds, delivered,
                 disputeWindow, revisionWindow, picked, funded>>

(* releaseHeldFunds: no condition on the task's status.  The release order *)
(* is re-queued even when it is done; the capture is enqueued once.        *)
ReleaseHeldFunds ==
  /\ IF claimedBy \in Workers
     THEN /\ payout' = [payout EXCEPT ![claimedBy] =
                          UnpaidTo("released", @)]
          /\ release' = [release EXCEPT ![claimedBy] = "queued"]
     ELSE UNCHANGED <<payout, release>>
  /\ intent' = IF card = "authorized" THEN EnqueuedOnce(intent, "capture") ELSE intent
  /\ UNCHANGED <<booksVars, refundDue, runner, stripeVars>>

DecideRejected ==
  /\ status = "disputed"
  /\ status' = "completed"
  /\ revisionWindow' = "ahead"
  /\ instructed' = FALSE
  /\ ReleaseHeldFunds
  /\ UNCHANGED <<claimedBy, barred, qcRounds, revisionRounds, delivered, disputeWindow,
                 disputes, picked, funded>>

DecideRework ==
  /\ status = "disputed"
  /\ status' = "revision_requested"
  /\ instructed' = TRUE
  /\ UNCHANGED <<payVars, claimedBy, barred, qcRounds, revisionRounds, windowVars, payoutVars>>

(* Mutant: a hold is taken for money received. *)
RefundOwedOfAnyPayment ==
  IF wire \in Settled THEN Price - wireRefund
  ELSE IF card \in Settled \cup {"authorized"} THEN Price - Refunded(refundRow)
  ELSE 0

(* What is left to give back of the newest payment that was received. *)
RefundOwed ==
  IF wire \in Settled THEN Price - wireRefund
  ELSE IF card \in Settled THEN Price - Refunded(refundRow)
  ELSE 0

(* cancelTask and decideDispute begin by reading the newest payment that   *)
(* is held or settled; decideDispute also checks the task's status here.   *)
(* On a cancelled task there is nothing left to swap from.                 *)
ReadNewestPayment ==
  /\ seen = NotReading
  /\ status # "cancelled"
  /\ \E who \in {"cancelTask", "decideDispute"} :
       /\ who = "decideDispute" => status = "disputed"
       /\ seen' = [by   |-> who,
                   due  |-> RefundOwed,
                   hold |-> wire \notin Settled /\ card = "authorized"]
  /\ UNCHANGED <<payVars, taskVars, windowVars, payoutVars, overlooked>>

(* Mutant: the refund is ordered outside the transaction that fails. *)
CancellationFailsHalfway ==
  /\ seen # NotReading
  /\ seen' = NotReading
  /\ intent' = IF seen.due > 0 THEN EnqueuedOnce(intent, "refund") ELSE intent
  /\ refundDue' = IF seen.due > 0 THEN seen.due ELSE refundDue
  /\ UNCHANGED <<booksVars, runner, stripeVars, taskVars, windowVars, payoutVars, overlooked>>

(* The swap fails, or the commit: all is rolled back. *)
CancellationFails ==
  /\ seen # NotReading
  /\ seen' = NotReading
  /\ UNCHANGED <<payVars, taskVars, windowVars, payoutVars, overlooked>>

(* Common to both: nobody is paid, queued and failed captures are retired  *)
(* (a `processing` one is not), and the payment as it was read decides     *)
(* between a refund and the release of a hold.                             *)
UnwindMoney ==
  LET retired == [intent EXCEPT !["capture"].status =
                    IF @ \in {"queued", "failed"} THEN "done" ELSE @]
  IN
  /\ payout' = [w \in Workers |-> UnpaidTo("void", payout[w])]
  /\ release' = [w \in Workers |->
                   IF release[w] \in {"queued", "failed"} THEN "done" ELSE release[w]]
  /\ \/ /\ seen.due > 0
        /\ intent' = EnqueuedOnce(retired, "refund")
        /\ refundDue' = seen.due
     \/ /\ seen.due <= 0
        /\ seen.hold
        /\ intent' = EnqueuedOnce(retired, "end_cancel")
        /\ UNCHANGED refundDue
     \/ /\ seen.due <= 0
        /\ ~seen.hold
        /\ intent' = retired
        /\ UNCHANGED refundDue
  /\ seen' = NotReading
  /\ overlooked' = (card = "authorized" /\ ~seen.hold)
  /\ UNCHANGED <<booksVars, runner, stripeVars>>

DecideUpheld ==
  /\ seen.by = "decideDispute"
  /\ status = "disputed"
  /\ SetStatus("cancelled")
  /\ UnwindMoney
  /\ UNCHANGED <<windowVars, picked, funded>>

CancelTask ==
  /\ seen.by = "cancelTask"
  /\ status \in Cancellable
  /\ SetStatus("cancelled")
  /\ UnwindMoney
  /\ UNCHANGED <<windowVars, picked, funded>>

-----------------------------------------------------------------------------
(***************************************************************************)
(* Time, the sweep, and the operator's money actions.                      *)
(***************************************************************************)
DisputeWindowCloses ==
  /\ disputeWindow = "ahead"
  /\ disputeWindow' = "past"
  /\ UNCHANGED <<payVars, taskVars, delivered, revisionWindow, disputes, payoutVars>>

RevisionWindowCloses ==
  /\ revisionWindow = "ahead"
  /\ revisionWindow' = "past"
  /\ UNCHANGED <<payVars, taskVars, delivered, disputeWindow, disputes, payoutVars>>

(* releaseDisputeWindowFunds: the selection of up to 200 tasks ... *)
SweepSelects ==
  /\ ~picked
  /\ status = "completed"
  /\ disputeWindow = "past"
  /\ \E w \in Workers : payout[w] = "owed"
  /\ picked' = TRUE
  /\ UNCHANGED <<payVars, taskVars, windowVars, payout, release, funded>>

(* ... and the transaction this task gets when its turn comes. *)
SweepReleases ==
  /\ picked
  /\ picked' = FALSE
  /\ ReleaseHeldFunds
  /\ UNCHANGED <<taskVars, windowVars, funded>>

SweepDies ==
  /\ picked
  /\ picked' = FALSE
  /\ UNCHANGED <<payVars, taskVars, windowVars, payout, release, funded>>

PaidOut(paid) == PayoutAmount * Cardinality(paid)

HasPaid == {w \in Workers : payout[w] = "paid"}

(* markPayoutPaid reads the payments ... *)
CheckFunding(w) ==
  /\ payout[w] \in {"owed", "released"}
  /\ card # "chargeback"
  /\ Held > 0
  /\ PaidOut(HasPaid \cup {w}) <= Held
  /\ funded' = funded \cup {w}
  /\ UNCHANGED <<payVars, taskVars, windowVars, payout, release, picked>>

(* ... and then swaps the payout.  Every release order of the task closes. *)
MarkPayoutPaid(w) ==
  /\ w \in funded
  /\ funded' = funded \ {w}
  /\ \/ /\ payout[w] \in {"owed", "released"}
        /\ payout' = [payout EXCEPT ![w] = "paid"]
        /\ release' = [v \in Workers |->
                         IF release[v] \in {"queued", "failed"} THEN "done" ELSE release[v]]
     \/ /\ payout[w] \notin {"owed", "released"}
        /\ UNCHANGED <<payout, release>>
  /\ UNCHANGED <<payVars, taskVars, windowVars, picked>>

(* The operator has refunded a wire by hand: the intent is closed here. *)
RecordManualRefund ==
  /\ intent["refund"].status \in {"queued", "failed"}
  /\ wire \in Settled
  /\ wireRefund + refundDue <= Price
  /\ wireRefund' = wireRefund + refundDue
  /\ wire' = AfterRefund(wireRefund')
  /\ intent' = [intent EXCEPT !["refund"].status = "done", !["refund"].attempts = @ + 1]
  /\ UNCHANGED <<card, saleBooked, refundRow, refundDue, runner, stripeVars, escrowVars>>

-----------------------------------------------------------------------------
WorkNext ==
  \/ CheckoutUrlForTask \/ FulfillCheckout \/ RecordManualPayment
  \/ ExpireStalePayment \/ RunHandsOver
  \/ \E w \in Workers : ClaimTask(w) \/ CheckFunding(w) \/ MarkPayoutPaid(w)
  \/ ReleaseTask \/ SubmitDeliverable \/ ApproveDeliverable \/ RejectDeliverable
  \/ ReassignTask \/ RequestRevision \/ PublishRevisionInstructions \/ OpenDispute
  \/ DecideRejected \/ DecideRework
  \/ DisputeWindowCloses \/ RevisionWindowCloses
  \/ SweepSelects \/ SweepReleases \/ SweepDies \/ RecordManualRefund

CancelNext == ReadNewestPayment \/ CancellationFails \/ DecideUpheld \/ CancelTask

TaskNext == CancelNext \/ (WorkNext /\ UNCHANGED cancelVars)

Next == TaskNext \/ (PaymentsNext /\ UNCHANGED escrowVars)

Spec == Init /\ [][Next]_vars

(* The behaviours in which nothing comes between a cancellation's read and *)
(* its swap, which one transaction of at most five seconds makes, nor      *)
(* between the sweep's selection and its release.                          *)
Prompt ==
  /\ seen # NotReading => seen' = NotReading
  /\ picked => ~picked'

PromptSpec == Init /\ [][Next /\ Prompt]_vars

(* The cron visits the queue every hour and a runner's own steps are code  *)
(* that runs to its end or dies; a lease is five minutes long.  Nothing is *)
(* assumed of clients, workers, operators, Stripe or the bank.             *)
FairSpec ==
  /\ Spec
  /\ \A k \in IntentKeys :
       /\ WF_vars((\E r \in Runners : Claim(r, k)) /\ UNCHANGED escrowVars)
       /\ WF_vars(LeaseExpires(k) /\ UNCHANGED escrowVars)
  /\ \A r \in Runners : WF_vars((RunnerStep(r) \/ RunnerDies(r)) /\ UNCHANGED escrowVars)

-----------------------------------------------------------------------------
(***************************************************************************)
(* Properties that hold.                                                   *)
(***************************************************************************)

(* The Payment row never claims of Stripe what Stripe did not do: a        *)
(* released hold was canceled, settled money was captured, a chargeback    *)
(* has a bank behind it and every Refund row a refund.  Three writers set  *)
(* the row without looking at one another: runners that have lost their    *)
(* lease, webhooks in any order, and checkout recovery.                    *)
BooksAgreeWithStripe ==
  /\ card = "cancelled" => pi = "canceled"
  /\ card \in Settled \cup {"refunded", "chargeback"} => pi = "captured"
  /\ card = "chargeback" => bankDispute # "none"
  /\ \A id \in refundRow : sentRefund[id] > 0

(* A client's card is charged only after a delivery was approved, whatever *)
(* runner, sweep or dispute ordered the capture.                           *)
ChargedOnlyAfterApproval == pi = "captured" => delivered

(* A task that reads as delivered has a worker, and that worker a payout   *)
(* that can still be paid or was: no detour through revisions, disputes,   *)
(* rejections and reassignments leaves the deliverer unpayable.            *)
CompletedIsPayable ==
  status \in {"completed", "disputed"} =>
    /\ claimedBy \in Workers
    /\ payout[claimedBy] \in {"owed", "released", "paid"}

(* A cancelled task whose card hold is still on the books has an order to  *)
(* release it that no one has closed, unless a wire paid for the task too, *)
(* or the payment was recorded while the cancellation was under way.       *)
HoldIsBeingReleased ==
  status = "cancelled" /\ card = "authorized" /\ wire = "absent" /\ ~overlooked =>
    \E k \in CancelKeys : intent[k].status \in {"queued", "processing", "failed"}

(* A capture Stripe made and the books do not show (the runner died, or    *)
(* timed out, between the call and its commit) is never forgotten while    *)
(* the task lives: its order is still open, or visibly failed.             *)
LostCaptureStaysOpen ==
  pi = "captured" /\ card = "authorized" /\ status # "cancelled" =>
    intent["capture"].status \in {"processing", "failed"}

(* An order that is closed was carried out: money was given back for a     *)
(* refund, and the card charged for a capture that no cancellation         *)
(* retired.  Runners close rows by id, whoever has them now; an operator   *)
(* closes the refund of a wire.                                            *)
ClosedOrdersAreCarriedOut ==
  /\ intent["refund"].status = "done" => sentRefund["app"] > 0 \/ wireRefund > 0
  /\ intent["capture"].status = "done" /\ status # "cancelled" => pi = "captured"

(* What a client is promised of the money of one task: nothing is approved *)
(* unpaid, the card is charged once and for an approved delivery, and what *)
(* comes back is of a task called off, once, and no more than was paid.    *)
(* Checkouts, runners that retry, webhooks, operators and cancellations    *)
(* together do nothing else to it.                                         *)
Promise == INSTANCE EscrowPromise WITH
  deal     <- IF status = "cancelled" THEN "off" ELSE "open",
  delivery <- IF delivered THEN "approved" ELSE "awaited",
  card     <- IF pi \in {"none", "open"} THEN "away" ELSE pi,
  refunded <- sentRefund["app"],
  byHand   <- sentRefund["dashboard"],
  wire     <- IF wire = "absent" THEN "away" ELSE "paid",
  wireBack <- wireRefund

(* The task and its orders keep the client's promise (src/server/actions,  *)
(* money-intents.ts and the Stripe webhooks together).                     *)
PromiseIsKept == Promise!Spec

(* Nothing is left of a cancelled task that would charge the card: no      *)
(* capture is ordered, failed or in progress, and no sweep has the task in *)
(* hand from before.                                                       *)
NoCaptureLeft ==
  /\ status = "cancelled" /\ ~picked
  /\ intent["capture"].status \in {"absent", "done"}
  /\ \A r \in Runners : runner[r].key # "capture"

(* cancelTask tells the client their card was never charged.  It is so for *)
(* good unless a capture, or a sweep about to order one, was under way: no *)
(* late payment, retry, lease or webhook brings a capture back.            *)
CancelledStaysUncharged ==
  [][NoCaptureLeft => NoCaptureLeft' /\ (pi' = "captured" => pi = "captured")]_vars

(* A worker who was paid stays paid: no sweep, dispute, revision or        *)
(* cancellation writes over the row.                                       *)
PaidPayoutIsFinal ==
  [][\A w \in Workers : payout[w] = "paid" => payout'[w] = "paid"]_vars

(* Every order to move money is carried out or uses up its attempts, even  *)
(* when runners die with it in hand.                                       *)
IntentsResolve ==
  \A k \in IntentKeys :
    intent[k].status \in {"queued", "processing", "failed"} ~>
      intent[k].status = "done" \/ intent[k].attempts >= MaxAttempts

-----------------------------------------------------------------------------
(***************************************************************************)
(* What the properties above rest on: each conjunct says what an actor     *)
(* that acts later may count on.                                           *)
(***************************************************************************)
WorkHasWorker == status \in InWork \cup {"completed", "disputed"} => claimedBy \in Workers

(* A runner about to commit has Stripe's answer. *)
RunnerKnows ==
  \A r \in Runners :
    /\ On(r, "called", {"capture"}) => pi = "captured"
    /\ On(r, "called", CancelKeys) => pi = "canceled"
    /\ On(r, "called", {"refund"}) => pi = "captured" /\ sentRefund["app"] > 0

(* Only a charge is refunded or disputed. *)
OnlyChargesAreReversed ==
  bankDispute # "none" \/ (\E id \in RefundIds : sentRefund[id] > 0) => pi = "captured"

(* A runner holds a row that exists, and a refund is of something. *)
RowsExist ==
  /\ \A r \in Runners : runner[r] # Idle => intent[runner[r].key].status # "absent"
  /\ intent["refund"].status # "absent" => refundDue > 0

(* A capture is ordered for an approved delivery, now or by a sweep that   *)
(* selected the task when it was.                                          *)
OrderedAfterApproval ==
  /\ intent["capture"].status # "absent" => delivered
  /\ picked \/ status \in {"completed", "disputed"} => delivered

(* Which rows exist tells how far the payment and the task have come, and  *)
(* a payment is held or owed back, never both.                             *)
OrdersHaveReasons ==
  /\ seen.hold => seen.due <= 0
  /\ card = "absent" => pi = "none"
  /\ card \in {"absent", "pending"} =>
       intent["late_cancel"].status = "absent" /\ intent["capture"].status = "absent"
  /\ status # "cancelled" => \A k \in CancelKeys : intent[k].status = "absent"
  /\ pi = "captured" => intent["capture"].status # "absent"

(* A refund is ordered by a cancellation, in its transaction. *)
RefundIsOfCancelled == intent["refund"].status # "absent" => status = "cancelled"

(* Work has been paid for. *)
WorkIsPaid ==
  status \notin {"awaiting_payment", "expired", "cancelled"} =>
    wire # "absent" \/ pi \notin {"none", "open"}

(* While the hold stands and the task lives, an order that a runner has    *)
(* taken can only be in progress or failed.                                *)
CaptureInHand ==
  card = "authorized" /\ status # "cancelled" =>
    \A r \in Runners : runner[r].key = "capture" =>
      intent["capture"].status \in {"processing", "failed"}

-----------------------------------------------------------------------------
(***************************************************************************)
(* What the repository says of itself and the code does not keep.          *)
(***************************************************************************)

(* A cancellation that finds a hold tells the client "Your card was never  *)
(* charged. The hold will be released." (admin.ts) and orders its release. *)
(* When nothing is left to do on such a task, a charge must have been      *)
(* given back.                                                             *)
CancelledClientMadeWhole ==
  /\ status = "cancelled" /\ intent["end_cancel"].status # "absent"
  /\ pi = "captured"
  /\ bankDispute = "none"
  /\ \A k \in IntentKeys : intent[k].status \in {"absent", "done"}
  /\ \A r \in Runners : runner[r] = Idle
  => sentRefund["app"] + sentRefund["dashboard"] = Price
=============================================================================
