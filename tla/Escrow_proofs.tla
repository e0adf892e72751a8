--------------------------- MODULE Escrow_proofs ---------------------------
(***************************************************************************)
(* Theorems about Escrow, for every number of runners and workers, every   *)
(* price and every limit.  One inductive invariant, Inv, carries them: the *)
(* types, then four groups of facts that are inductive in that order.      *)
(*                                                                         *)
(*   PaymentsSafe   what a runner holds is backed by Stripe, hence what it *)
(*                  writes in the books is true;                           *)
(*   ChargeSafe     a capture is ordered only once a delivery is approved; *)
(*   HoldSafe       which orders exist, and that a dead hold has one;      *)
(*   LostSafe       a capture in a runner's hand is not closed behind it;  *)
(*   PayableSafe    a delivered task has a worker and a payout to pay.     *)
(*                                                                         *)
(* Beside them, RefundIsOfCancelled and WorkIsPaid make every step one of  *)
(* EscrowPromise or a stutter (EscrowKeepsPromise).                        *)
(***************************************************************************)
EXTENDS Escrow, TLAPS

-----------------------------------------------------------------------------
(***************************************************************************)
(* Types.                                                                  *)
(***************************************************************************)
(* Creating an order, closing one, and a refund's outcome. *)
LEMMA EnqueuedType ==
  ASSUME intent \in [IntentKeys -> Intent], NEW k \in IntentKeys
  PROVE  EnqueuedOnce(intent, k) \in [IntentKeys -> Intent]
BY DEF EnqueuedOnce, NoIntent, Intent

(* Closing a row leaves rows. *)
LEMMA MarkDoneType ==
  ASSUME intent \in [IntentKeys -> Intent], NEW k \in IntentKeys, MarkDone(k)
  PROVE  intent' \in [IntentKeys -> Intent]
BY DEF MarkDone, Intent

(* A refund leaves a payment settled or refunded. *)
LEMMA AfterRefundType == \A total : AfterRefund(total) \in Settled \cup {"refunded"}
BY DEF AfterRefund, Settled

(* Refund rows add up to an amount. *)
LEMMA RefundedType ==
  ASSUME sentRefund \in [RefundIds -> 0..Price], NEW rows
  PROVE  Refunded(rows) \in Nat
BY PaymentsAssumption DEF Refunded, RefundOf, RefundIds

PayoutStatuses == {"none", "owed", "released", "paid", "void"}

(* Writing over unpaid payouts leaves payouts. *)
LEMMA UnpaidToType ==
  \A s, row \in PayoutStatuses : UnpaidTo(s, row) \in PayoutStatuses
BY DEF UnpaidTo, PayoutStatuses

(* The three things a runner's step makes of it. *)
LEMMA IdleType ==
  ASSUME runner \in [Runners -> Working \cup {Idle}], NEW r \in Runners,
         runner' = [runner EXCEPT ![r] = Idle]
  PROVE runner' \in [Runners -> Working \cup {Idle}]
OBVIOUS

(* A runner that is not idle works on an order. *)
LEMMA BusyType ==
  ASSUME runner \in [Runners -> Working \cup {Idle}], NEW r \in Runners,
         runner[r] # Idle
  PROVE runner[r].pc \in {"claimed", "called"} /\ runner[r].key \in IntentKeys
BY DEF Working

(* A runner at a step is not idle. *)
LEMMA NotIdle ==
  \A r, pc, keys : pc \in {"claimed", "called"} /\ On(r, pc, keys) => runner[r] # Idle
BY DEF On, Idle

(* Having called Stripe, it goes on with the same order. *)
LEMMA CalledType ==
  ASSUME runner \in [Runners -> Working \cup {Idle}], NEW r \in Runners,
         runner[r] # Idle, runner' = [runner EXCEPT ![r].pc = "called"]
  PROVE runner' \in [Runners -> Working \cup {Idle}]
BY DEF Working

(* The steps of runners, Stripe and webhooks preserve their types. *)
LEMMA PaymentsActionType ==
  ASSUME PaymentsTypeOK, PaymentsNext
  PROVE  PaymentsTypeOK'
<1> USE PaymentsAssumption DEF PaymentsTypeOK, booksVars, queueVars, stripeVars
<1>1. CASE \E r \in Runners, k \in IntentKeys : Claim(r, k)
  BY <1>1 DEF Claim, Intent, Working
<1>2. CASE \E r \in Runners : CallCapture(r)
  BY <1>2, NotIdle, CalledType DEF CallCapture
<1>3. CASE \E r \in Runners : CommitCapture(r)
  BY <1>3, IdleType, MarkDoneType DEF CommitCapture, CardStatuses, Settled, IntentKeys
<1>4. CASE \E r \in Runners : CallCancel(r)
  BY <1>4, NotIdle, CalledType DEF CallCancel
<1>5. CASE \E r \in Runners : CommitCancel(r)
  BY <1>5, NotIdle, BusyType, IdleType, MarkDoneType DEF CommitCancel, CardStatuses
<1>6. CASE \E r \in Runners : NothingToCancel(r)
  BY <1>6, NotIdle, BusyType, IdleType, MarkDoneType DEF NothingToCancel
<1>7. CASE \E r \in Runners : CallRefund(r)
  <2> PICK r \in Runners : CallRefund(r)
    BY <1>7
  <2>1. runner' \in [Runners -> Working \cup {Idle}]
    BY NotIdle, CalledType DEF CallRefund
  <2>2. sentRefund' \in [RefundIds -> 0..Price]
    BY DEF CallRefund, RefundIds
  <2> QED
    BY <2>1, <2>2 DEF CallRefund
<1>8. CASE \E r \in Runners : CommitRefund(r)
  BY <1>8, IdleType, MarkDoneType, AfterRefundType
  DEF CommitRefund, CardStatuses, IntentKeys, RefundIds
<1>9. CASE \E r \in Runners : RunnerFails(r)
  BY <1>9, BusyType, IdleType DEF RunnerFails, Intent
<1>10. CASE \E r \in Runners : RunnerDies(r)
  BY <1>10, IdleType DEF RunnerDies
<1>11. CASE \E k \in IntentKeys : LeaseExpires(k)
  <2> PICK k \in IntentKeys : LeaseExpires(k)
    BY <1>11
  <2>1. [intent[k] EXCEPT !.leased = FALSE] \in Intent
    BY DEF Intent
  <2>2. intent' \in [IntentKeys -> Intent]
    BY <2>1 DEF LeaseExpires
  <2> QED
    BY <2>2 DEF LeaseExpires
<1>12. CASE ClientCompletesCheckout
  BY <1>12 DEF ClientCompletesCheckout
<1>13. CASE HoldLapses
  BY <1>13 DEF HoldLapses
<1>14. CASE RefundInDashboard
  BY <1>14 DEF RefundInDashboard, RefundIds
<1>15. CASE BankOpensDispute
  BY <1>15 DEF BankOpensDispute
<1>16. CASE BankRules
  BY <1>16 DEF BankRules
<1>17. CASE ReconcileRefunds
  BY <1>17, AfterRefundType DEF ReconcileRefunds, CardStatuses
<1>18. CASE ReconcileDispute
  BY <1>18 DEF ReconcileDispute, CardStatuses
<1>19. CASE ReconcileDisputeWon
  BY <1>19, AfterRefundType DEF ReconcileDisputeWon, CardStatuses, Settled
<1>20. CASE ReconcileCanceled
  BY <1>20 DEF ReconcileCanceled, CardStatuses
<1> QED
  BY <1>1, <1>2, <1>3, <1>4, <1>5, <1>6, <1>7, <1>8, <1>9, <1>10, <1>11, <1>12, <1>13,
     <1>14, <1>15, <1>16, <1>17, <1>18, <1>19, <1>20
  DEF PaymentsNext, RunnerStep

(* Unwinding a task's money leaves rows of the right types. *)
LEMMA UnwindType ==
  ASSUME TypeOK, UnwindMoney
  PROVE  PaymentsTypeOK' /\ payout' \in [Workers -> PayoutStatuses]
           /\ release' \in [Workers -> {"absent", "queued", "failed", "done"}]
<1> USE DEF TypeOK, PaymentsTypeOK, TaskTypeOK
<1> DEFINE retired == [intent EXCEPT !["capture"].status =
                         IF @ \in {"queued", "failed"} THEN "done" ELSE @]
<1>1. retired \in [IntentKeys -> Intent]
  BY DEF IntentKeys, Intent
<1>2. \A k \in IntentKeys : EnqueuedOnce(retired, k) \in [IntentKeys -> Intent]
  BY <1>1 DEF EnqueuedOnce, NoIntent, Intent
<1>3. intent' \in [IntentKeys -> Intent]
  BY <1>1, <1>2 DEF UnwindMoney, IntentKeys, CancelKeys
<1>4. refundDue' \in 0..Price
  BY PaymentsAssumption DEF UnwindMoney, CancelTypeOK
<1>5. payout' \in [Workers -> PayoutStatuses]
  BY UnpaidToType DEF UnwindMoney, PayoutStatuses
<1>6. release' \in [Workers -> {"absent", "queued", "failed", "done"}]
  BY DEF UnwindMoney
<1> QED
  BY <1>3, <1>4, <1>5, <1>6 DEF UnwindMoney, booksVars, stripeVars

(* A cancellation reads an amount no greater than the price. *)
LEMMA CancelActionType ==
  ASSUME TypeOK, TaskNext
  PROVE  CancelTypeOK'
<1> USE DEF TypeOK, CancelTypeOK
<1>1. CASE ReadNewestPayment
  <2>1. RefundOwed \in Int /\ RefundOwed <= Price
    BY RefundedType, PaymentsAssumption DEF RefundOwed, PaymentsTypeOK
  <2> QED
    BY <1>1, <2>1 DEF ReadNewestPayment
<1>2. CASE CancellationFails
  BY <1>2, PaymentsAssumption DEF CancellationFails, NotReading
<1>3. CASE UnwindMoney
  BY <1>3, PaymentsAssumption DEF UnwindMoney, NotReading
<1>4. CASE UNCHANGED cancelVars
  BY <1>4 DEF cancelVars
<1> QED
  BY <1>1, <1>2, <1>3, <1>4 DEF TaskNext, CancelNext, DecideUpheld, CancelTask

(* So does releasing it. *)
LEMMA ReleaseType ==
  ASSUME TypeOK, ReleaseHeldFunds
  PROVE  PaymentsTypeOK' /\ payout' \in [Workers -> PayoutStatuses]
           /\ release' \in [Workers -> {"absent", "queued", "failed", "done"}]
<1> USE DEF TypeOK, PaymentsTypeOK, TaskTypeOK
<1>1. intent' \in [IntentKeys -> Intent]
  BY EnqueuedType DEF ReleaseHeldFunds, IntentKeys
<1>2. payout' \in [Workers -> PayoutStatuses]
  BY UnpaidToType DEF ReleaseHeldFunds, PayoutStatuses
<1>3. release' \in [Workers -> {"absent", "queued", "failed", "done"}]
  BY DEF ReleaseHeldFunds
<1> QED
  BY <1>1, <1>2, <1>3 DEF ReleaseHeldFunds, booksVars, stripeVars

(* And pausing a payout. *)
LEMMA PauseType ==
  ASSUME TaskTypeOK, PauseUnpaidPayout
  PROVE  /\ payout' \in [Workers -> PayoutStatuses]
         /\ release' \in [Workers -> {"absent", "queued", "failed", "done"}]
BY DEF TaskTypeOK, PauseUnpaidPayout, PayoutStatuses

(* A step that leaves the money alone leaves its types. *)
LEMMA PaymentsUntouched ==
  ASSUME PaymentsTypeOK, UNCHANGED payVars
  PROVE  PaymentsTypeOK'
BY DEF PaymentsTypeOK, payVars, booksVars, queueVars, stripeVars

(* The steps of the task preserve all types; that work in progress has a   *)
(* worker is what makes `barred` a set of workers.                         *)
LEMMA TaskActionType ==
  ASSUME TypeOK, WorkHasWorker, TaskNext
  PROVE  TypeOK'
<1> SUFFICES PaymentsTypeOK' /\ TaskTypeOK'
  BY CancelActionType DEF TypeOK
<1> USE PaymentsAssumption, EscrowAssumption, PaymentsUntouched
    DEF TypeOK, TaskTypeOK, taskVars, windowVars, payoutVars
<1>1. CASE CheckoutUrlForTask
  BY <1>1 DEF CheckoutUrlForTask, PaymentsTypeOK, CardStatuses, queueVars, escrowVars
<1>2. CASE FulfillCheckout
  <2>1. intent' \in [IntentKeys -> Intent]
    BY <1>2, EnqueuedType DEF FulfillCheckout, PaymentsTypeOK, IntentKeys, CancelKeys
  <2>2. card' \in CardStatuses
    BY <1>2 DEF FulfillCheckout, PaymentsTypeOK, Authorized, CardStatuses
  <2>3. status' \in Statuses
    BY <1>2 DEF FulfillCheckout, Statuses
  <2> QED
    BY <1>2, <2>1, <2>2, <2>3 DEF FulfillCheckout, PaymentsTypeOK, stripeVars
<1>3. CASE RecordManualPayment
  <2>1. PaymentsTypeOK'
    BY <1>3 DEF RecordManualPayment, PaymentsTypeOK, WireStatuses, Settled, queueVars,
                stripeVars
  <2>2. status' \in Statuses
    BY <1>3 DEF RecordManualPayment, Statuses
  <2> QED
    BY <1>3, <2>1, <2>2 DEF RecordManualPayment
<1>4. CASE ExpireStalePayment
  BY <1>4 DEF ExpireStalePayment, SetStatus, Statuses
<1>5. CASE RunHandsOver
  BY <1>5 DEF RunHandsOver, SetStatus, Statuses
<1>6. CASE ReleaseTask
  BY <1>6 DEF ReleaseTask, Statuses
<1>7. CASE SubmitDeliverable
  BY <1>7 DEF SubmitDeliverable, SetStatus, Statuses
<1>8. CASE ReassignTask
  <2>1. barred' \subseteq Workers
    BY <1>8 DEF ReassignTask, WorkHasWorker, InWork
  <2> QED
    BY <1>8, <2>1 DEF ReassignTask, Statuses
<1>9. CASE PublishRevisionInstructions
  BY <1>9 DEF PublishRevisionInstructions, Statuses
<1>10. CASE DecideRework
  BY <1>10 DEF DecideRework, Statuses
<1>11. CASE DisputeWindowCloses
  BY <1>11 DEF DisputeWindowCloses
<1>12. CASE RevisionWindowCloses
  BY <1>12 DEF RevisionWindowCloses
<1>13. CASE SweepSelects
  BY <1>13 DEF SweepSelects
<1>14. CASE SweepDies
  BY <1>14 DEF SweepDies
<1>15. CASE \E w \in Workers : ClaimTask(w)
  BY <1>15 DEF ClaimTask, Statuses
<1>16. CASE ApproveDeliverable
  <2>1. payout' \in [Workers -> PayoutStatuses]
    BY <1>16 DEF ApproveDeliverable, PayoutStatuses
  <2>2. status' \in Statuses
    BY <1>16 DEF ApproveDeliverable, SetStatus, Statuses
  <2> QED
    BY <1>16, <2>1, <2>2 DEF ApproveDeliverable, SetStatus, PayoutStatuses
<1>17. CASE RejectDeliverable
  <2>1. payout' \in [Workers -> PayoutStatuses]
    BY <1>17, UnpaidToType DEF RejectDeliverable, PayoutStatuses
  <2>2. qcRounds' \in 0..MaxQcRounds
    BY <1>17 DEF RejectDeliverable
  <2>3. status' \in Statuses /\ claimedBy' \in Workers \cup {NoWorker}
    BY <1>17 DEF RejectDeliverable, Statuses
  <2>4. barred' \subseteq Workers
    BY <1>17 DEF RejectDeliverable, WorkHasWorker, InWork
  <2> QED
    BY <1>17, <2>1, <2>2, <2>3, <2>4 DEF RejectDeliverable, PayoutStatuses
<1>18. CASE RequestRevision
  <2>1. revisionRounds' \in 0..MaxRevisionRounds
    BY <1>18 DEF RequestRevision, RoundLeft
  <2> QED
    BY <1>18, <2>1, PauseType DEF RequestRevision, PayoutStatuses, Statuses
<1>19. CASE OpenDispute
  <2>1. disputes' \in 0..MaxDisputes
    BY <1>19 DEF OpenDispute
  <2>2. instructed' \in BOOLEAN
    BY <1>19 DEF OpenDispute
  <2>3. status' \in Statuses
    BY <1>19 DEF OpenDispute, Statuses
  <2>4. PaymentsTypeOK'
    BY <1>19 DEF OpenDispute
  <2>5. /\ payout' \in [Workers -> {"none", "owed", "released", "paid", "void"}]
        /\ release' \in [Workers -> {"absent", "queued", "failed", "done"}]
    BY <1>19, PauseType DEF OpenDispute, PayoutStatuses
  <2>6. UNCHANGED <<claimedBy, barred, qcRounds, revisionRounds, delivered, disputeWindow,
                    revisionWindow, picked, funded>>
    BY <1>19 DEF OpenDispute
  <2> QED
    BY <2>1, <2>2, <2>3, <2>4, <2>5, <2>6
<1>20. CASE DecideRejected
  BY <1>20, ReleaseType DEF DecideRejected, PayoutStatuses, Statuses
<1>21. CASE DecideUpheld
  BY <1>21, UnwindType DEF DecideUpheld, SetStatus, PayoutStatuses, Statuses
<1>22. CASE CancelTask
  BY <1>22, UnwindType DEF CancelTask, SetStatus, PayoutStatuses, Statuses
<1>23. CASE SweepReleases
  BY <1>23, ReleaseType DEF SweepReleases, PayoutStatuses
<1>24. CASE \E w \in Workers : CheckFunding(w)
  BY <1>24 DEF CheckFunding
<1>25. CASE \E w \in Workers : MarkPayoutPaid(w)
  BY <1>25 DEF MarkPayoutPaid
<1>26. CASE RecordManualRefund
  <2>1. intent' \in [IntentKeys -> Intent]
    BY <1>26 DEF RecordManualRefund, PaymentsTypeOK, Intent, IntentKeys
  <2>2. PaymentsTypeOK'
    BY <1>26, <2>1, AfterRefundType
    DEF RecordManualRefund, PaymentsTypeOK, WireStatuses, stripeVars
  <2> QED
    BY <1>26, <2>2 DEF RecordManualRefund, escrowVars
<1>27. CASE ReadNewestPayment \/ CancellationFails
  BY <1>27 DEF ReadNewestPayment, CancellationFails
<1> QED
  BY <1>1, <1>2, <1>3, <1>4, <1>5, <1>6, <1>7, <1>8, <1>9, <1>10, <1>11, <1>12, <1>13,
     <1>14, <1>15, <1>16, <1>17, <1>18, <1>19, <1>20, <1>21, <1>22, <1>23, <1>24, <1>25,
     <1>26, <1>27
  DEF TaskNext, WorkNext, CancelNext

(* The accepted quote is a state of the right type. *)
LEMMA InitType ==
  ASSUME Init
  PROVE  TypeOK
<1> USE PaymentsAssumption, EscrowAssumption DEF Init
<1>1. intent \in [IntentKeys -> Intent]
  BY DEF PaymentsInit, NoIntent, Intent
<1>2. saleBooked \in BOOLEAN
  BY DEF PaymentsInit
<1>3. runner \in [Runners -> Working \cup {Idle}]
  BY DEF PaymentsInit
<1>4. sentRefund \in [RefundIds -> 0..Price] /\ wireRefund \in 0..Price /\ refundDue \in 0..Price
  BY DEF PaymentsInit
<1>5. /\ card \in CardStatuses
      /\ wire \in WireStatuses
      /\ refundRow \subseteq RefundIds
      /\ pi \in {"none", "open", "held", "captured", "canceled"}
      /\ bankDispute \in {"none", "open", "won", "lost"}
  BY DEF PaymentsInit, CardStatuses, WireStatuses
<1>6. PaymentsTypeOK
  BY <1>1, <1>2, <1>3, <1>4, <1>5 DEF PaymentsTypeOK
<1>7. instructed \in BOOLEAN
  OBVIOUS
<1>8. delivered \in BOOLEAN
  OBVIOUS
<1>9. picked \in BOOLEAN
  OBVIOUS
<1>10. /\ status \in Statuses
       /\ claimedBy \in Workers \cup {NoWorker}
       /\ barred \subseteq Workers
       /\ qcRounds \in 0..MaxQcRounds
       /\ revisionRounds \in 0..MaxRevisionRounds
       /\ disputeWindow \in {"unset", "ahead", "past"}
       /\ revisionWindow \in {"unset", "ahead", "past"}
       /\ disputes \in 0..MaxDisputes
       /\ payout \in [Workers -> {"none", "owed", "released", "paid", "void"}]
       /\ release \in [Workers -> {"absent", "queued", "failed", "done"}]
       /\ funded \subseteq Workers
  BY DEF Statuses
<1>11. TaskTypeOK
  BY <1>7, <1>8, <1>9, <1>10 DEF TaskTypeOK
<1>12. CancelTypeOK
  <2>1. overlooked \in BOOLEAN
    OBVIOUS
  <2>2. seen \in [by: {"nobody", "cancelTask", "decideDispute"}, due: Int, hold: BOOLEAN]
    BY DEF NotReading
  <2>3. seen.due <= Price
    BY DEF NotReading
  <2> QED
    BY <2>1, <2>2, <2>3 DEF CancelTypeOK
<1> QED
  BY <1>6, <1>11, <1>12 DEF TypeOK

-----------------------------------------------------------------------------
(***************************************************************************)
(* What the task's steps do to the other half of the state.                *)
(***************************************************************************)

(* A task's step touches the money in one of six ways, and cancels the     *)
(* task only where it unwinds it.                                          *)
LEMMA TaskOnPayments ==
  ASSUME TaskNext
  PROVE  \/ UnwindMoney /\ status # "cancelled" /\ status' = "cancelled"
         \/ /\ UNCHANGED overlooked
            /\ \/ UNCHANGED payVars /\ (status' = "cancelled" <=> status = "cancelled")
               \/ CheckoutUrlForTask \/ FulfillCheckout \/ RecordManualPayment
               \/ /\ ReleaseHeldFunds
                  /\ picked \/ status = "disputed"
                  /\ status' = "cancelled" <=> status = "cancelled"
               \/ RecordManualRefund
<1> USE DEF SetStatus, taskVars
<1>1. CASE CancelNext
  <2>1. CASE ReadNewestPayment \/ CancellationFails
    BY <2>1 DEF ReadNewestPayment, CancellationFails
  <2>2. CASE DecideUpheld \/ CancelTask
    BY <2>2 DEF DecideUpheld, CancelTask, Cancellable
  <2> QED
    BY <1>1, <2>1, <2>2 DEF CancelNext
<1>2. CASE WorkNext /\ UNCHANGED cancelVars
  <2>1. UNCHANGED overlooked
    BY <1>2 DEF cancelVars
  <2>2. CASE ExpireStalePayment \/ RunHandsOver \/ ReleaseTask \/ SubmitDeliverable
               \/ ApproveDeliverable \/ RejectDeliverable \/ ReassignTask
    BY <2>1, <2>2 DEF ExpireStalePayment, RunHandsOver, ReleaseTask, SubmitDeliverable,
                      ApproveDeliverable, RejectDeliverable, ReassignTask, InWork
  <2>3. CASE \E w \in Workers : ClaimTask(w) \/ CheckFunding(w) \/ MarkPayoutPaid(w)
    BY <2>1, <2>3 DEF ClaimTask, CheckFunding, MarkPayoutPaid
  <2>4. CASE RequestRevision \/ PublishRevisionInstructions \/ OpenDispute \/ DecideRework
    BY <2>1, <2>4 DEF RequestRevision, PublishRevisionInstructions, OpenDispute, DecideRework
  <2>5. CASE DisputeWindowCloses \/ RevisionWindowCloses \/ SweepSelects \/ SweepDies
    BY <2>1, <2>5 DEF DisputeWindowCloses, RevisionWindowCloses, SweepSelects, SweepDies
  <2>6. CASE DecideRejected \/ SweepReleases
    BY <2>1, <2>6 DEF DecideRejected, SweepReleases
  <2> QED
    BY <1>2, <2>1, <2>2, <2>3, <2>4, <2>5, <2>6 DEF WorkNext
<1> QED
  BY <1>1, <1>2 DEF TaskNext

(* A delivery once approved stays so, and only an approved one is selected *)
(* by the sweep, completed or disputed.                                    *)
LEMMA TaskOnDelivery ==
  ASSUME TaskNext, TypeOK, OrderedAfterApproval
  PROVE  /\ delivered => delivered'
         /\ picked' \/ status' \in {"completed", "disputed"} => delivered'
<1> USE DEF escrowVars, taskVars, windowVars, payoutVars, OrderedAfterApproval, SetStatus,
            TypeOK, TaskTypeOK
<1>1. CASE ApproveDeliverable
  BY <1>1 DEF ApproveDeliverable
<1>2. CASE DisputeWindowCloses \/ RevisionWindowCloses \/ SweepSelects \/ SweepReleases
             \/ SweepDies \/ RecordManualRefund
  BY <1>2 DEF DisputeWindowCloses, RevisionWindowCloses, SweepSelects, SweepReleases,
              SweepDies, RecordManualRefund
<1>3. CASE \E w \in Workers : ClaimTask(w) \/ CheckFunding(w) \/ MarkPayoutPaid(w)
  BY <1>3 DEF ClaimTask, CheckFunding, MarkPayoutPaid
<1>4. CASE CheckoutUrlForTask \/ FulfillCheckout \/ RecordManualPayment
             \/ ExpireStalePayment \/ RunHandsOver
  BY <1>4, EscrowAssumption
  DEF CheckoutUrlForTask, FulfillCheckout, RecordManualPayment, ExpireStalePayment,
      RunHandsOver
<1>5. CASE ReleaseTask \/ SubmitDeliverable \/ RejectDeliverable \/ ReassignTask
             \/ RequestRevision \/ PublishRevisionInstructions
  BY <1>5 DEF ReleaseTask, SubmitDeliverable, RejectDeliverable, ReassignTask,
              RequestRevision, PublishRevisionInstructions
<1>6. CASE OpenDispute \/ DecideRejected \/ DecideRework \/ DecideUpheld \/ CancelTask
  BY <1>6 DEF OpenDispute, DecideRejected, DecideRework, DecideUpheld, CancelTask
<1>7. CASE ReadNewestPayment \/ CancellationFails
  BY <1>7 DEF ReadNewestPayment, CancellationFails
<1> QED
  BY <1>1, <1>2, <1>3, <1>4, <1>5, <1>6, <1>7 DEF TaskNext, WorkNext, CancelNext

(* Work in progress, delivered or disputed has a worker.                   *)
LEMMA TaskOnWork ==
  ASSUME TaskNext, TypeOK, WorkHasWorker
  PROVE  WorkHasWorker'
<1> USE DEF escrowVars, taskVars, WorkHasWorker, InWork, SetStatus
<1>1. CASE ApproveDeliverable
  BY <1>1 DEF ApproveDeliverable
<1>2. CASE DisputeWindowCloses \/ RevisionWindowCloses \/ SweepSelects \/ SweepReleases
             \/ SweepDies \/ RecordManualRefund
  BY <1>2 DEF DisputeWindowCloses, RevisionWindowCloses, SweepSelects, SweepReleases,
              SweepDies, RecordManualRefund
<1>3. CASE \E w \in Workers : ClaimTask(w) \/ CheckFunding(w) \/ MarkPayoutPaid(w)
  BY <1>3 DEF ClaimTask, CheckFunding, MarkPayoutPaid
<1>4. CASE CheckoutUrlForTask \/ FulfillCheckout \/ RecordManualPayment
             \/ ExpireStalePayment \/ RunHandsOver
  BY <1>4, EscrowAssumption
  DEF CheckoutUrlForTask, FulfillCheckout, RecordManualPayment, ExpireStalePayment,
      RunHandsOver
<1>5. CASE ReleaseTask \/ SubmitDeliverable \/ RejectDeliverable \/ ReassignTask
             \/ RequestRevision \/ PublishRevisionInstructions
  BY <1>5 DEF ReleaseTask, SubmitDeliverable, RejectDeliverable, ReassignTask,
              RequestRevision, PublishRevisionInstructions
<1>6. CASE OpenDispute \/ DecideRejected \/ DecideRework \/ DecideUpheld \/ CancelTask
  BY <1>6 DEF OpenDispute, DecideRejected, DecideRework, DecideUpheld, CancelTask
<1>7. CASE ReadNewestPayment \/ CancellationFails
  BY <1>7 DEF ReadNewestPayment, CancellationFails
<1> QED
  BY <1>1, <1>2, <1>3, <1>4, <1>5, <1>6, <1>7 DEF TaskNext, WorkNext, CancelNext

-----------------------------------------------------------------------------
(***************************************************************************)
(* The books.                                                              *)
(***************************************************************************)

(* What a runner holds is backed by Stripe, and so is what the books say.  *)
PaymentsSafe == BooksAgreeWithStripe /\ RunnerKnows /\ RowsExist /\ OnlyChargesAreReversed

(* The task's steps keep the books true ... *)
LEMMA PaymentsSafeTask ==
  ASSUME TypeOK, PaymentsSafe, TaskNext
  PROVE  PaymentsSafe'
<1> USE PaymentsAssumption
    DEF PaymentsSafe, BooksAgreeWithStripe, RunnerKnows, RowsExist,
        OnlyChargesAreReversed, On, TypeOK, PaymentsTypeOK, booksVars, queueVars,
        stripeVars
<1>1. CASE UNCHANGED payVars
  BY <1>1 DEF payVars
<1>2. CASE CheckoutUrlForTask
  BY <1>2 DEF CheckoutUrlForTask, Settled
<1>3. CASE FulfillCheckout
  BY <1>3 DEF FulfillCheckout, Authorized, Settled, EnqueuedOnce, NoIntent, Working, Idle,
              IntentKeys, CancelKeys
<1>4. CASE RecordManualPayment
  BY <1>4 DEF RecordManualPayment
<1>5. CASE ReleaseHeldFunds
  BY <1>5 DEF ReleaseHeldFunds, EnqueuedOnce, NoIntent, Working, Idle, IntentKeys, CancelKeys
<1>6. CASE UnwindMoney
  <2>1. /\ BooksAgreeWithStripe'
        /\ RunnerKnows'
        /\ OnlyChargesAreReversed'
    BY <1>6 DEF UnwindMoney
  <2> DEFINE retired == [intent EXCEPT !["capture"].status =
                           IF @ \in {"queued", "failed"} THEN "done" ELSE @]
  <2>2. retired \in [IntentKeys -> Intent]
          /\ \A k \in IntentKeys : retired[k].status = "absent" <=> intent[k].status = "absent"
    BY DEF IntentKeys, Intent
  <2>3. /\ \A k \in IntentKeys : intent'[k].status = "absent" => intent[k].status = "absent"
        /\ intent'["refund"].status # "absent" =>
             refundDue' > 0 \/ (refundDue' = refundDue /\ intent["refund"].status # "absent")
    <3> HIDE DEF retired
    <3>1. \A k, j \in IntentKeys :
            EnqueuedOnce(retired, k)[j] =
              IF k = j /\ retired[k].status = "absent" THEN [NoIntent EXCEPT !.status = "queued"]
              ELSE retired[j]
      BY <2>2 DEF EnqueuedOnce
    <3>2. \/ intent' = EnqueuedOnce(retired, "refund") /\ refundDue' > 0
          \/ intent' = EnqueuedOnce(retired, "end_cancel") /\ refundDue' = refundDue
          \/ intent' = retired /\ refundDue' = refundDue
      BY <1>6 DEF UnwindMoney, retired
    <3> QED
      BY <2>2, <3>1, <3>2 DEF NoIntent, IntentKeys, CancelKeys
  <2>4. RowsExist'
    BY <1>6, <2>3 DEF UnwindMoney, IntentKeys, CancelKeys, Working, Idle
  <2> QED
    BY <2>1, <2>4
<1>7. CASE RecordManualRefund
  BY <1>7 DEF RecordManualRefund, Working, Idle, IntentKeys, CancelKeys, Intent
<1> QED
  BY <1>1, <1>2, <1>3, <1>4, <1>5, <1>6, <1>7, TaskOnPayments

(* ... and so do runners, Stripe, the bank and the webhooks. *)
LEMMA PaymentsSafePayments ==
  ASSUME TypeOK, PaymentsSafe, PaymentsNext
  PROVE  PaymentsSafe'
<1> USE PaymentsAssumption
    DEF PaymentsSafe, BooksAgreeWithStripe, RunnerKnows, RowsExist,
        OnlyChargesAreReversed, On, TypeOK, PaymentsTypeOK, booksVars, queueVars,
        stripeVars, MarkDone, Working, Idle
<1>1. CASE \E r \in Runners, k \in IntentKeys : Claim(r, k)
  <2> PICK r \in Runners, k \in IntentKeys : Claim(r, k)
    BY <1>1
  <2>1. \A j \in IntentKeys : intent'[j].status = IF j = k THEN "processing" ELSE intent[j].status
    BY DEF Claim
  <2>2. \A q \in Runners : runner'[q] = IF q = r THEN [pc |-> "claimed", key |-> k] ELSE runner[q]
    BY DEF Claim
  <2>3. intent[k].status # "absent"
    BY DEF Claim, Claimable
  <2> QED
    BY <2>1, <2>2, <2>3 DEF Claim, IntentKeys, CancelKeys, RefundIds
<1>2. CASE \E r \in Runners : CallCapture(r)
  BY <1>2 DEF CallCapture, CancelKeys
<1>3. CASE \E r \in Runners : CommitCapture(r)
  BY <1>3 DEF CommitCapture, IntentKeys
<1>4. CASE \E r \in Runners : CallCancel(r)
  BY <1>4 DEF CallCancel, CancelKeys
<1>5. CASE \E r \in Runners : CommitCancel(r)
  BY <1>5 DEF CommitCancel, Settled, IntentKeys
<1>6. CASE \E r \in Runners : NothingToCancel(r)
  BY <1>6 DEF NothingToCancel, IntentKeys
<1>7. CASE \E r \in Runners : CallRefund(r)
  BY <1>7 DEF CallRefund, CancelKeys, RefundIds
<1>8. CASE \E r \in Runners : CommitRefund(r)
  BY <1>8, AfterRefundType DEF CommitRefund, Settled
<1>9. CASE \E r \in Runners : RunnerFails(r)
  BY <1>9 DEF RunnerFails, IntentKeys
<1>10. CASE \E r \in Runners : RunnerDies(r)
  BY <1>10 DEF RunnerDies
<1>11. CASE \E k \in IntentKeys : LeaseExpires(k)
  BY <1>11 DEF LeaseExpires
<1>12. CASE ClientCompletesCheckout
  BY <1>12 DEF ClientCompletesCheckout
<1>13. CASE HoldLapses
  BY <1>13 DEF HoldLapses
<1>14. CASE RefundInDashboard
  BY <1>14 DEF RefundInDashboard
<1>15. CASE BankOpensDispute
  BY <1>15 DEF BankOpensDispute
<1>16. CASE BankRules
  BY <1>16 DEF BankRules
<1>17. CASE ReconcileRefunds
  BY <1>17, AfterRefundType DEF ReconcileRefunds, Settled
<1>18. CASE ReconcileDispute
  BY <1>18 DEF ReconcileDispute
<1>19. CASE ReconcileDisputeWon
  BY <1>19, AfterRefundType DEF ReconcileDisputeWon, Settled
<1>20. CASE ReconcileCanceled
  BY <1>20 DEF ReconcileCanceled, Settled
<1> QED
  BY <1>1, <1>2, <1>3, <1>4, <1>5, <1>6, <1>7, <1>8, <1>9, <1>10, <1>11, <1>12, <1>13,
     <1>14, <1>15, <1>16, <1>17, <1>18, <1>19, <1>20
  DEF PaymentsNext, RunnerStep
-----------------------------------------------------------------------------
(***************************************************************************)
(* What becomes of the orders.                                             *)
(***************************************************************************)

(* What EnqueuedOnce does to each row's status. *)
LEMMA EnqueuedStatus ==
  ASSUME NEW queue \in [IntentKeys -> Intent], NEW k \in IntentKeys, NEW j \in IntentKeys
  PROVE  EnqueuedOnce(queue, k)[j].status =
           IF j = k /\ queue[k].status = "absent" THEN "queued" ELSE queue[j].status
BY DEF EnqueuedOnce, NoIntent, Intent

(* What unwinding does to each order. *)
LEMMA UnwindStatus ==
  ASSUME TypeOK, UnwindMoney, NEW j \in IntentKeys
  PROVE  /\ intent[j].status # "absent" =>
              intent'[j].status \in {intent[j].status, "done"}
         /\ j \in CancelKeys => intent'[j].status # "done" \/ intent'[j].status = intent[j].status
         /\ j \notin {"refund", "end_cancel"} /\ intent[j].status = "absent" =>
              intent'[j].status = "absent"
         /\ seen.hold /\ seen.due <= 0
              /\ intent["end_cancel"].status = "absent" => intent'["end_cancel"].status = "queued"
<1> DEFINE retired == [intent EXCEPT !["capture"].status =
                         IF @ \in {"queued", "failed"} THEN "done" ELSE @]
<1>1. /\ retired \in [IntentKeys -> Intent]
      /\ \A k \in IntentKeys :
           retired[k].status = IF k = "capture" /\ intent[k].status \in {"queued", "failed"}
                               THEN "done" ELSE intent[k].status
  BY DEF TypeOK, PaymentsTypeOK, IntentKeys, Intent
<1>2. intent' \in {EnqueuedOnce(retired, "refund"), EnqueuedOnce(retired, "end_cancel"), retired}
  BY DEF UnwindMoney
<1>3. seen.hold /\ seen.due <= 0 => intent' = EnqueuedOnce(retired, "end_cancel")
  BY PaymentsAssumption DEF UnwindMoney, TypeOK, CancelTypeOK
<1> HIDE DEF retired
<1> QED
  BY <1>1, <1>2, <1>3, EnqueuedStatus DEF IntentKeys, CancelKeys

(* Unwinding closes no refund. *)
LEMMA RefundUnwound ==
  ASSUME TypeOK, UnwindMoney
  PROVE  intent'["refund"].status = "done" => intent["refund"].status = "done"
<1> DEFINE retired == [intent EXCEPT !["capture"].status =
                         IF @ \in {"queued", "failed"} THEN "done" ELSE @]
<1>1. retired \in [IntentKeys -> Intent] /\ retired["refund"].status = intent["refund"].status
  BY DEF TypeOK, PaymentsTypeOK, IntentKeys, Intent
<1>2. intent' \in {EnqueuedOnce(retired, "refund"), EnqueuedOnce(retired, "end_cancel"), retired}
  BY DEF UnwindMoney
<1> HIDE DEF retired
<1> QED
  BY <1>1, <1>2, EnqueuedStatus DEF IntentKeys, CancelKeys

(* What closing a row does to each. *)
LEMMA MarkDoneStatus ==
  ASSUME intent \in [IntentKeys -> Intent], NEW k \in IntentKeys, MarkDone(k),
         NEW j \in IntentKeys
  PROVE  intent'[j].status = IF j = k THEN "done" ELSE intent[j].status
BY DEF MarkDone, Intent

(* A step of a runner or a webhook makes no order; it closes one only when *)
(* the hold it is about is gone from the books.                            *)
LEMMA PaymentsOnStatus ==
  ASSUME TypeOK, RowsExist, PaymentsNext, NEW j \in IntentKeys
  PROVE  \/ intent'[j].status = intent[j].status
         \/ /\ intent[j].status # "absent"
            /\ intent'[j].status \in {"processing", "failed"}
         \/ /\ intent[j].status # "absent"
            /\ intent'[j].status = "done"
            /\ j \in CancelKeys \cup {"capture"} => card' # "authorized"
<1> USE DEF TypeOK, PaymentsTypeOK, booksVars, queueVars, stripeVars
<1>1. CASE \E r \in Runners, k \in IntentKeys : Claim(r, k)
  BY <1>1 DEF Claim, Claimable, Intent
<1>2. CASE \E r \in Runners : CommitCapture(r)
  BY <1>2, MarkDoneStatus, NotIdle DEF CommitCapture, RowsExist, On, IntentKeys
<1>3. CASE \E r \in Runners : CommitCancel(r)
  BY <1>3, MarkDoneStatus, NotIdle, BusyType DEF CommitCancel, RowsExist
<1>4. CASE \E r \in Runners : NothingToCancel(r)
  BY <1>4, MarkDoneStatus, NotIdle, BusyType DEF NothingToCancel, RowsExist
<1>5. CASE \E r \in Runners : CommitRefund(r)
  BY <1>5, MarkDoneStatus, NotIdle DEF CommitRefund, RowsExist, On, IntentKeys, CancelKeys
<1>6. CASE \E r \in Runners : RunnerFails(r)
  BY <1>6, BusyType DEF RunnerFails, RowsExist, Intent
<1>7. CASE \E r \in Runners : CallCapture(r) \/ CallCancel(r) \/ CallRefund(r) \/ RunnerDies(r)
  BY <1>7 DEF CallCapture, CallCancel, CallRefund, RunnerDies
<1>8. CASE \E k \in IntentKeys : LeaseExpires(k)
  BY <1>8 DEF LeaseExpires, Intent
<1>9. CASE ClientCompletesCheckout \/ HoldLapses \/ RefundInDashboard \/ BankOpensDispute
             \/ BankRules
  BY <1>9 DEF ClientCompletesCheckout, HoldLapses, RefundInDashboard, BankOpensDispute,
              BankRules
<1>10. CASE ReconcileRefunds \/ ReconcileDispute \/ ReconcileDisputeWon \/ ReconcileCanceled
  BY <1>10 DEF ReconcileRefunds, ReconcileDispute, ReconcileDisputeWon, ReconcileCanceled
<1> QED
  BY <1>1, <1>2, <1>3, <1>4, <1>5, <1>6, <1>7, <1>8, <1>9, <1>10
  DEF PaymentsNext, RunnerStep
-----------------------------------------------------------------------------
(***************************************************************************)
(* Charges.                                                                *)
(***************************************************************************)

(* Only an approved delivery is charged for, or has its capture ordered.   *)
ChargeSafe == ChargedOnlyAfterApproval /\ OrderedAfterApproval

(* The task's steps charge no card; a capture is ordered by a dispute's    *)
(* end or by a sweep.                                                      *)
LEMMA TaskOnCapture ==
  ASSUME TypeOK, TaskNext
  PROVE  /\ pi' = "captured" => pi = "captured"
         /\ intent'["capture"].status # "absent" =>
              intent["capture"].status # "absent" \/ picked \/ status = "disputed"
<1> USE DEF TypeOK, PaymentsTypeOK, booksVars, queueVars, stripeVars
<1>0. "capture" \in IntentKeys /\ CancelKeys \subseteq IntentKeys
  BY DEF IntentKeys
<1>1. CASE UNCHANGED payVars
  BY <1>1 DEF payVars
<1>2. CASE CheckoutUrlForTask
  BY <1>2 DEF CheckoutUrlForTask
<1>3. CASE FulfillCheckout
  BY <1>0, <1>3, EnqueuedStatus DEF FulfillCheckout, CancelKeys
<1>4. CASE RecordManualPayment
  BY <1>4 DEF RecordManualPayment
<1>5. CASE ReleaseHeldFunds /\ (picked \/ status = "disputed")
  BY <1>5 DEF ReleaseHeldFunds
<1>6. CASE UnwindMoney
  BY <1>0, <1>6, UnwindStatus DEF UnwindMoney
<1>7. CASE RecordManualRefund
  <2>1. intent'["capture"] = intent["capture"]
    BY <1>0, <1>7 DEF RecordManualRefund
  <2> QED
    BY <1>7, <2>1 DEF RecordManualRefund
<1> QED
  BY <1>1, <1>2, <1>3, <1>4, <1>5, <1>6, <1>7, TaskOnPayments

(* So the task's steps order no early capture. *)
LEMMA ChargeSafeTask ==
  ASSUME TypeOK, ChargeSafe, TaskNext
  PROVE  ChargeSafe'
BY TaskOnCapture, TaskOnDelivery DEF ChargeSafe, ChargedOnlyAfterApproval, OrderedAfterApproval

(* A card is charged by a runner that holds the capture. *)
LEMMA ChargedBy ==
  ASSUME TypeOK, PaymentsNext, pi' = "captured", pi # "captured"
  PROVE  \E r \in Runners : runner[r] # Idle /\ runner[r].key = "capture"
<1> USE DEF stripeVars
<1>1. CASE \E r \in Runners : CallCapture(r)
  BY <1>1, NotIdle DEF CallCapture, On
<1>2. CASE \E r \in Runners : ~CallCapture(r) /\ RunnerStep(r)
  BY <1>2 DEF RunnerStep, CommitCapture, CallCancel, CommitCancel, NothingToCancel,
              CallRefund, CommitRefund, RunnerFails
<1>3. CASE \E r \in Runners : RunnerDies(r) \/ \E k \in IntentKeys : Claim(r, k)
  BY <1>3 DEF RunnerDies, Claim
<1>4. CASE (\E k \in IntentKeys : LeaseExpires(k)) \/ ClientCompletesCheckout \/ HoldLapses
             \/ RefundInDashboard \/ BankOpensDispute \/ BankRules
  BY <1>4 DEF LeaseExpires, ClientCompletesCheckout, HoldLapses, RefundInDashboard,
              BankOpensDispute, BankRules
<1>5. CASE ReconcileRefunds \/ ReconcileDispute \/ ReconcileDisputeWon \/ ReconcileCanceled
  BY <1>5 DEF ReconcileRefunds, ReconcileDispute, ReconcileDisputeWon, ReconcileCanceled
<1> QED
  BY <1>1, <1>2, <1>3, <1>4, <1>5 DEF PaymentsNext

(* And no one else's step makes one. *)
LEMMA ChargeSafePayments ==
  ASSUME TypeOK, RowsExist, ChargeSafe, PaymentsNext, UNCHANGED escrowVars
  PROVE  ChargeSafe'
<1>1. intent'["capture"].status # "absent" => intent["capture"].status # "absent"
  BY PaymentsOnStatus DEF IntentKeys
<1>2. pi' = "captured" => delivered
  BY ChargedBy DEF ChargeSafe, ChargedOnlyAfterApproval, OrderedAfterApproval, RowsExist
<1> QED
  BY <1>1, <1>2 DEF ChargeSafe, ChargedOnlyAfterApproval, OrderedAfterApproval, escrowVars,
                    windowVars, taskVars, payoutVars

-----------------------------------------------------------------------------
(***************************************************************************)
(* Holds.                                                                  *)
(***************************************************************************)

(* A cancelled task's hold has an order to release it, and every order its *)
(* reason.                                                                 *)
HoldSafe == HoldIsBeingReleased /\ OrdersHaveReasons

(* A payment is read as held or as owed back. *)
LEMMA ReadKnows ==
  ASSUME TypeOK, OrdersHaveReasons, TaskNext
  PROVE  seen'.hold => seen'.due <= 0
<1> USE DEF OrdersHaveReasons
<1>1. CASE ReadNewestPayment
  <2>1. PICK who \in {"cancelTask", "decideDispute"} :
          seen' = [by   |-> who,
                   due  |-> RefundOwed,
                   hold |-> wire \notin Settled /\ card = "authorized"]
    BY <1>1 DEF ReadNewestPayment
  <2>2. seen'.due = RefundOwed
    BY <2>1
  <2>3. seen'.hold => wire \notin Settled /\ card = "authorized"
    BY <2>1, Zenon
  <2> QED
    BY <2>2, <2>3 DEF RefundOwed, Settled
<1>2. CASE CancellationFails \/ UnwindMoney
  BY <1>2 DEF CancellationFails, UnwindMoney, NotReading
<1>3. CASE UNCHANGED cancelVars
  BY <1>3 DEF cancelVars
<1> QED
  BY <1>1, <1>2, <1>3 DEF TaskNext, CancelNext, DecideUpheld, CancelTask

(* A payment that lands after the cancellation enqueues the release of its *)
(* own hold; a cancellation enqueues that of the hold it finds.            *)
LEMMA HoldSafeTask ==
  ASSUME TypeOK, HoldSafe, TaskNext
  PROVE  HoldSafe'
<1>8. seen'.hold => seen'.due <= 0
  BY ReadKnows DEF HoldSafe
<1> USE <1>8 DEF TypeOK, PaymentsTypeOK, booksVars, queueVars, stripeVars, HoldSafe,
            HoldIsBeingReleased, OrdersHaveReasons
<1>0. "capture" \in IntentKeys /\ CancelKeys \subseteq IntentKeys /\ "capture" \notin CancelKeys
  BY DEF IntentKeys, CancelKeys
<1>1. CASE /\ UNCHANGED payVars /\ (status' = "cancelled" <=> status = "cancelled")
            /\ UNCHANGED overlooked
  BY <1>1 DEF payVars
<1>2. CASE CheckoutUrlForTask
  BY <1>2 DEF CheckoutUrlForTask, escrowVars, taskVars, cancelVars
<1>3. CASE FulfillCheckout /\ UNCHANGED overlooked
  <2>1. CASE status = "cancelled"
    <3>1. \A j \in IntentKeys :
            intent'[j].status = IF j = "late_cancel" /\ intent[j].status = "absent"
                                THEN "queued" ELSE intent[j].status
      BY <1>0, <1>3, <2>1, EnqueuedStatus, EscrowAssumption DEF FulfillCheckout, CancelKeys
    <3>2. status' = "cancelled" /\ UNCHANGED <<wire, pi, overlooked>> /\ card' = Authorized
      BY <1>3, <2>1, EscrowAssumption DEF FulfillCheckout
    <3>3. "late_cancel" \in CancelKeys /\ "late_cancel" \in IntentKeys
      BY DEF CancelKeys, IntentKeys
    <3>4. /\ intent'["late_cancel"].status # "absent"
          /\ intent'["capture"].status = intent["capture"].status
          /\ \A k \in CancelKeys :
               intent[k].status \in {"queued", "processing", "failed"} =>
                 intent'[k].status = intent[k].status
      BY <1>0, <3>1, <3>3
    <3>5. card = "pending" => intent'["late_cancel"].status = "queued"
      BY <3>1, <3>3
    <3>6. card # "absent"
      BY <1>3 DEF FulfillCheckout
    <3>7. card' \notin {"absent", "pending"}
      BY <3>2, <3>6 DEF Authorized
    <3> QED
      BY <2>1, <3>2, <3>3, <3>4, <3>5, <3>7 DEF Authorized
  <2>2. CASE status # "cancelled"
    <3>1. card # "absent"
      BY <1>3 DEF FulfillCheckout
    <3> QED
      BY <1>3, <2>2, <3>1, EscrowAssumption DEF FulfillCheckout, Authorized
  <2> QED
    BY <2>1, <2>2
<1>4. CASE RecordManualPayment
  BY <1>4, EscrowAssumption DEF RecordManualPayment
<1>5. CASE /\ ReleaseHeldFunds /\ (status' = "cancelled" <=> status = "cancelled")
            /\ UNCHANGED overlooked
  <2>1. \A j \in IntentKeys :
          intent'[j].status =
            IF j = "capture" /\ card = "authorized" /\ intent[j].status = "absent"
            THEN "queued" ELSE intent[j].status
    BY <1>0, <1>5, EnqueuedStatus DEF ReleaseHeldFunds
  <2>2. \A k \in CancelKeys : intent'[k].status = intent[k].status
    BY <1>0, <2>1
  <2>3. /\ intent'["capture"].status = "absent" => intent["capture"].status = "absent"
        /\ card \in {"absent", "pending"} =>
             intent'["capture"].status = intent["capture"].status
    BY <1>0, <2>1
  <2>4. UNCHANGED <<card, wire, pi>>
    BY <1>5 DEF ReleaseHeldFunds
  <2> QED
    BY <1>5, <2>2, <2>3, <2>4 DEF CancelKeys
<1>6. CASE UnwindMoney /\ status # "cancelled" /\ status' = "cancelled"
  <2>1. card = "authorized" /\ ~overlooked' => intent'["end_cancel"].status = "queued"
    BY <1>0, <1>6, UnwindStatus DEF UnwindMoney, CancelKeys
  <2>2. UNCHANGED <<card, wire, pi>>
    BY <1>6 DEF UnwindMoney
  <2>3. card \in {"absent", "pending"} =>
          intent'["late_cancel"].status = "absent" /\ intent'["capture"].status = "absent"
    BY <1>0, <1>6, UnwindStatus DEF CancelKeys
  <2>4. intent["capture"].status # "absent" => intent'["capture"].status # "absent"
    BY <1>0, <1>6, UnwindStatus
  <2> QED
    BY <1>6, <2>1, <2>2, <2>3, <2>4 DEF CancelKeys
<1>7. CASE RecordManualRefund
  <2>1. \A j \in IntentKeys : j # "refund" => intent'[j] = intent[j]
    BY <1>7 DEF RecordManualRefund
  <2>2. UNCHANGED <<card, pi, status>> /\ (wire' = "absent" => wire = "absent")
    BY <1>7, AfterRefundType DEF RecordManualRefund, escrowVars, taskVars, Settled
  <2>3. UNCHANGED overlooked
    BY <1>7 DEF RecordManualRefund, escrowVars, cancelVars
  <2>4. "refund" \notin CancelKeys
    BY DEF CancelKeys
  <2> QED
    BY <1>0, <2>1, <2>2, <2>3, <2>4 DEF CancelKeys
<1> QED
  BY <1>1, <1>2, <1>3, <1>4, <1>5, <1>6, <1>7, TaskOnPayments

(* Runners and webhooks take the row no way back: none makes a hold.       *)
LEMMA CardOnPayments ==
  ASSUME PaymentsSafe, PaymentsNext
  PROVE  card' \in {"absent", "pending", "authorized"} => card' = card
<1> USE DEF booksVars, PaymentsSafe, Settled
<1>1. CASE \E r \in Runners : CommitCapture(r) \/ CommitCancel(r) \/ CommitRefund(r)
  BY <1>1, AfterRefundType DEF CommitCapture, CommitCancel, CommitRefund
<1>2. CASE \E r \in Runners : \/ CallCapture(r) \/ CallCancel(r) \/ NothingToCancel(r)
                              \/ CallRefund(r) \/ RunnerFails(r) \/ RunnerDies(r)
                              \/ \E k \in IntentKeys : Claim(r, k)
  BY <1>2 DEF CallCapture, CallCancel, NothingToCancel, CallRefund, RunnerFails, RunnerDies,
              Claim
<1>3. CASE (\E k \in IntentKeys : LeaseExpires(k)) \/ ClientCompletesCheckout \/ HoldLapses
             \/ RefundInDashboard \/ BankOpensDispute \/ BankRules
  BY <1>3 DEF LeaseExpires, ClientCompletesCheckout, HoldLapses, RefundInDashboard,
              BankOpensDispute, BankRules
<1>4. CASE ReconcileRefunds
  BY <1>4, AfterRefundType DEF ReconcileRefunds
<1>5. CASE ReconcileDispute \/ ReconcileDisputeWon \/ ReconcileCanceled
  BY <1>5, AfterRefundType DEF ReconcileDispute, ReconcileDisputeWon, ReconcileCanceled
<1> QED
  BY <1>1, <1>2, <1>3, <1>4, <1>5 DEF PaymentsNext, RunnerStep

(* A runner closes the release of a hold only when the hold is gone. *)
LEMMA HoldSafePayments ==
  ASSUME TypeOK, PaymentsSafe, HoldSafe, PaymentsNext, UNCHANGED escrowVars
  PROVE  HoldSafe'
<1> USE DEF HoldSafe, HoldIsBeingReleased, OrdersHaveReasons, escrowVars, taskVars,
            cancelVars
<1>0. "capture" \in IntentKeys /\ CancelKeys \subseteq IntentKeys
  BY DEF IntentKeys
<1>1. RowsExist
  BY DEF PaymentsSafe
<1>2. \A j \in IntentKeys : intent'[j].status = "absent" <=> intent[j].status = "absent"
  BY <1>1, PaymentsOnStatus
<1>3. card' \in {"absent", "pending", "authorized"} => card' = card
  BY CardOnPayments
<1>4. HoldIsBeingReleased'
  <2>1. wire' = "absent" => wire = "absent"
    BY DEF PaymentsNext, RunnerStep, booksVars, Claim, CallCapture, CommitCapture, CallCancel,
           CommitCancel, NothingToCancel, CallRefund, CommitRefund, RunnerFails, RunnerDies,
           LeaseExpires, ClientCompletesCheckout, HoldLapses, RefundInDashboard,
           BankOpensDispute, BankRules, ReconcileRefunds, ReconcileDispute,
           ReconcileDisputeWon, ReconcileCanceled
  <2>2. \A k \in CancelKeys :
          card' = "authorized" /\ intent[k].status \in {"queued", "processing", "failed"} =>
            intent'[k].status \in {"queued", "processing", "failed"}
    BY <1>0, <1>1, PaymentsOnStatus
  <2> QED
    BY <1>3, <2>1, <2>2
<1>5. card' \in {"absent", "pending"} =>
        intent'["late_cancel"].status = "absent" /\ intent'["capture"].status = "absent"
  BY <1>0, <1>2, <1>3 DEF CancelKeys
<1>6. pi' = "captured" => intent'["capture"].status # "absent"
  <2>1. CASE pi = "captured"
    BY <1>0, <1>2, <2>1
  <2>2. CASE pi # "captured" /\ pi' = "captured"
    BY <1>0, <1>1, <1>2, <2>2, ChargedBy DEF RowsExist
  <2> QED
    BY <2>1, <2>2
<1>7. card' = "absent" => pi' = "none"
  <2>1. pi = "none" /\ card = "absent" => pi' = "none"
    BY DEF PaymentsNext, RunnerStep, stripeVars, Claim, CallCapture, CommitCapture, CallCancel,
           CommitCancel, NothingToCancel, CallRefund, CommitRefund, RunnerFails, RunnerDies,
           LeaseExpires, ClientCompletesCheckout, HoldLapses, RefundInDashboard,
           BankOpensDispute, BankRules, ReconcileRefunds, ReconcileDispute,
           ReconcileDisputeWon, ReconcileCanceled
  <2> QED
    BY <1>3, <2>1
<1> QED
  BY <1>0, <1>2, <1>4, <1>5, <1>6, <1>7

-----------------------------------------------------------------------------
(***************************************************************************)
(* Captures in progress.                                                   *)
(***************************************************************************)

(* While a hold may turn out to be captured, its order stays open.         *)
LostSafe == LostCaptureStaysOpen /\ CaptureInHand

(* The task's steps close no capture but by unwinding the task.            *)
LEMMA LostSafeTask ==
  ASSUME TypeOK, PaymentsSafe, HoldSafe, LostSafe, TaskNext
  PROVE  LostSafe'
<1> USE DEF TypeOK, PaymentsTypeOK, booksVars, queueVars, stripeVars, LostSafe,
            LostCaptureStaysOpen, CaptureInHand
<1>0. "capture" \in IntentKeys
  BY DEF IntentKeys
<1>1. \A r \in Runners : runner[r].key = "capture" => intent["capture"].status # "absent"
  BY DEF PaymentsSafe, RowsExist, Idle
<1>2. CASE UNCHANGED payVars /\ (status' = "cancelled" <=> status = "cancelled")
  BY <1>2 DEF payVars
<1>3. CASE CheckoutUrlForTask
  BY <1>3 DEF CheckoutUrlForTask
<1>4. CASE FulfillCheckout
  <2>1. UNCHANGED <<pi, runner>>
    BY <1>4 DEF FulfillCheckout
  <2>2. status' # "cancelled" =>
          UNCHANGED intent /\ status # "cancelled" /\ card' = Authorized
    BY <1>4, EscrowAssumption DEF FulfillCheckout
  <2>3. card = "pending" => pi # "captured" /\ intent["capture"].status = "absent"
    BY DEF HoldSafe, OrdersHaveReasons
  <2> QED
    BY <1>1, <2>1, <2>2, <2>3 DEF Authorized
<1>5. CASE RecordManualPayment
  BY <1>5 DEF RecordManualPayment
<1>6. CASE ReleaseHeldFunds /\ (status' = "cancelled" <=> status = "cancelled")
  <2>1. intent["capture"].status # "absent" =>
          intent'["capture"].status = intent["capture"].status
    BY <1>0, <1>6, EnqueuedStatus DEF ReleaseHeldFunds
  <2>2. UNCHANGED <<card, pi, runner>>
    BY <1>6 DEF ReleaseHeldFunds
  <2>3. pi = "captured" => intent["capture"].status # "absent"
    BY DEF HoldSafe, OrdersHaveReasons
  <2> QED
    BY <1>1, <1>6, <2>1, <2>2, <2>3
<1>7. CASE UnwindMoney /\ status # "cancelled" /\ status' = "cancelled"
  BY <1>7
<1>8. CASE RecordManualRefund
  <2>1. intent'["capture"] = intent["capture"]
    BY <1>0, <1>8 DEF RecordManualRefund
  <2> QED
    BY <1>8, <2>1 DEF RecordManualRefund, escrowVars, taskVars
<1> QED
  BY <1>2, <1>3, <1>4, <1>5, <1>6, <1>7, <1>8, TaskOnPayments

(* A runner takes the capture in hand by claiming it. *)
LEMMA TakesCapture ==
  ASSUME TypeOK, PaymentsNext, NEW r \in Runners, runner'[r].key = "capture",
         runner[r].key # "capture"
  PROVE  intent'["capture"].status = "processing"
<1> USE DEF TypeOK, PaymentsTypeOK, queueVars, Idle
<1>1. CASE \E q \in Runners, k \in IntentKeys : Claim(q, k)
  BY <1>1 DEF Claim
<1>2. CASE \E q \in Runners : CommitCapture(q) \/ CommitCancel(q) \/ NothingToCancel(q)
                                \/ CommitRefund(q) \/ RunnerFails(q) \/ RunnerDies(q)
  BY <1>2 DEF CommitCapture, CommitCancel, NothingToCancel, CommitRefund, RunnerFails,
              RunnerDies
<1>3. CASE \E q \in Runners : CallCapture(q) \/ CallCancel(q) \/ CallRefund(q)
  <2> PICK q \in Runners : CallCapture(q) \/ CallCancel(q) \/ CallRefund(q)
    BY <1>3
  <2>1. runner' = [runner EXCEPT ![q].pc = "called"] /\ runner[q] # Idle
    BY NotIdle DEF CallCapture, CallCancel, CallRefund
  <2>2. runner'[q].key = runner[q].key
    BY <2>1, BusyType DEF Working
  <2> QED
    BY <2>1, <2>2
<1>4. CASE \E k \in IntentKeys : LeaseExpires(k)
  BY <1>4 DEF LeaseExpires
<1>5. CASE ClientCompletesCheckout \/ HoldLapses \/ RefundInDashboard \/ BankOpensDispute
             \/ BankRules \/ ReconcileRefunds \/ ReconcileDispute \/ ReconcileDisputeWon
             \/ ReconcileCanceled
  BY <1>5 DEF ClientCompletesCheckout, HoldLapses, RefundInDashboard, BankOpensDispute,
              BankRules, ReconcileRefunds, ReconcileDispute, ReconcileDisputeWon,
              ReconcileCanceled
<1> QED
  BY <1>1, <1>2, <1>3, <1>4, <1>5 DEF PaymentsNext, RunnerStep

(* The runners close one only with the hold captured in the books.         *)
LEMMA LostSafePayments ==
  ASSUME TypeOK, PaymentsSafe, LostSafe, PaymentsNext, UNCHANGED escrowVars
  PROVE  LostSafe'
<1> USE DEF LostSafe, LostCaptureStaysOpen, CaptureInHand, escrowVars, taskVars
<1>1. card' = "authorized" => card = "authorized"
  BY CardOnPayments
<1>2. card' = "authorized" /\ intent["capture"].status \in {"processing", "failed"} =>
        intent'["capture"].status \in {"processing", "failed"}
  BY PaymentsOnStatus DEF PaymentsSafe, IntentKeys
<1>3. CaptureInHand'
  BY <1>1, <1>2, TakesCapture
<1>4. LostCaptureStaysOpen'
  BY <1>1, <1>2, ChargedBy
<1> QED
  BY <1>3, <1>4

-----------------------------------------------------------------------------
(***************************************************************************)
(* Payouts.                                                                *)
(***************************************************************************)

(* A delivered task has a worker and that worker something to be paid.     *)
PayableSafe == WorkHasWorker /\ CompletedIsPayable

(* Approving makes the payout payable; what follows pauses it, releases it *)
(* or pays it, and voids it only in leaving the delivered states.          *)
LEMMA PayableSafeTask ==
  ASSUME TypeOK, PayableSafe, TaskNext
  PROVE  PayableSafe'
<1> USE DEF TypeOK, TaskTypeOK, PayableSafe, CompletedIsPayable, escrowVars, taskVars,
            payoutVars, SetStatus
<1>0. WorkHasWorker'
  BY TaskOnWork
<1> SUFFICES CompletedIsPayable'
  BY <1>0
<1>1. CASE ApproveDeliverable
  BY <1>1 DEF ApproveDeliverable, WorkHasWorker, InWork
<1>2. CASE OpenDispute
  BY <1>2 DEF OpenDispute, PauseUnpaidPayout
<1>3. CASE DecideRejected \/ SweepReleases
  BY <1>3 DEF DecideRejected, SweepReleases, ReleaseHeldFunds, UnpaidTo
<1>4. CASE \E w \in Workers : MarkPayoutPaid(w)
  BY <1>4 DEF MarkPayoutPaid
<1>5. CASE \E w \in Workers : ClaimTask(w) \/ CheckFunding(w)
  BY <1>5 DEF ClaimTask, CheckFunding
<1>6. CASE CheckoutUrlForTask \/ FulfillCheckout \/ RecordManualPayment
             \/ ExpireStalePayment \/ RunHandsOver
  BY <1>6, EscrowAssumption
  DEF CheckoutUrlForTask, FulfillCheckout, RecordManualPayment, ExpireStalePayment,
      RunHandsOver
<1>7. CASE ReleaseTask \/ SubmitDeliverable \/ RejectDeliverable \/ ReassignTask
             \/ RequestRevision \/ PublishRevisionInstructions
  BY <1>7 DEF ReleaseTask, SubmitDeliverable, RejectDeliverable, ReassignTask,
              RequestRevision, PublishRevisionInstructions
<1>8. CASE DecideRework \/ DecideUpheld \/ CancelTask
  BY <1>8 DEF DecideRework, DecideUpheld, CancelTask
<1>9. CASE DisputeWindowCloses \/ RevisionWindowCloses \/ SweepSelects \/ SweepDies
             \/ RecordManualRefund
  BY <1>9 DEF DisputeWindowCloses, RevisionWindowCloses, SweepSelects, SweepDies,
              RecordManualRefund
<1>10. CASE ReadNewestPayment \/ CancellationFails
  BY <1>10 DEF ReadNewestPayment, CancellationFails
<1> QED
  BY <1>1, <1>2, <1>3, <1>4, <1>5, <1>6, <1>7, <1>8, <1>9, <1>10
  DEF TaskNext, WorkNext, CancelNext

(* No step of the task writes over a paid payout. *)
LEMMA PaidStaysPaid ==
  ASSUME TypeOK, PayableSafe, TaskNext, NEW w \in Workers, payout[w] = "paid"
  PROVE  payout'[w] = "paid"
<1> USE DEF TypeOK, TaskTypeOK, escrowVars, payoutVars
<1>1. CASE ApproveDeliverable \/ RejectDeliverable
  BY <1>1 DEF ApproveDeliverable, RejectDeliverable, UnpaidTo, PayableSafe, WorkHasWorker,
              InWork
<1>2. CASE OpenDispute \/ RequestRevision
  BY <1>2 DEF OpenDispute, RequestRevision, PauseUnpaidPayout
<1>3. CASE DecideRejected \/ SweepReleases
  BY <1>3 DEF DecideRejected, SweepReleases, ReleaseHeldFunds, UnpaidTo
<1>4. CASE DecideUpheld \/ CancelTask
  BY <1>4 DEF DecideUpheld, CancelTask, UnwindMoney, UnpaidTo
<1>5. CASE \E v \in Workers : ClaimTask(v) \/ CheckFunding(v) \/ MarkPayoutPaid(v)
  BY <1>5 DEF ClaimTask, CheckFunding, MarkPayoutPaid
<1>6. CASE CheckoutUrlForTask \/ FulfillCheckout \/ RecordManualPayment
             \/ ExpireStalePayment \/ RunHandsOver
  BY <1>6
  DEF CheckoutUrlForTask, FulfillCheckout, RecordManualPayment, ExpireStalePayment,
      RunHandsOver
<1>7. CASE ReleaseTask \/ SubmitDeliverable \/ ReassignTask \/ PublishRevisionInstructions
             \/ DecideRework
  BY <1>7 DEF ReleaseTask, SubmitDeliverable, ReassignTask, PublishRevisionInstructions,
              DecideRework
<1>8. CASE DisputeWindowCloses \/ RevisionWindowCloses \/ SweepSelects \/ SweepDies
             \/ RecordManualRefund
  BY <1>8 DEF DisputeWindowCloses, RevisionWindowCloses, SweepSelects, SweepDies,
              RecordManualRefund
<1>9. CASE ReadNewestPayment \/ CancellationFails
  BY <1>9 DEF ReadNewestPayment, CancellationFails
<1> QED
  BY <1>1, <1>2, <1>3, <1>4, <1>5, <1>6, <1>7, <1>8, <1>9 DEF TaskNext, WorkNext, CancelNext

-----------------------------------------------------------------------------
(***************************************************************************)
(* The theorems.                                                           *)
(***************************************************************************)

Inv == TypeOK /\ PaymentsSafe /\ ChargeSafe /\ HoldSafe /\ LostSafe /\ PayableSafe

(* A quote just accepted has no rows, no orders, no charge and no worker.  *)
LEMMA InitInv == Init => Inv
<1> SUFFICES ASSUME Init PROVE Inv
  OBVIOUS
<1> USE DEF Init, PaymentsInit
<1>1. TypeOK
  BY InitType
<1>2. \A k \in IntentKeys : intent[k].status = "absent"
  BY DEF NoIntent
<1>3. "capture" \in IntentKeys /\ "refund" \in IntentKeys /\ CancelKeys \subseteq IntentKeys
  BY DEF IntentKeys
<1>4. "late_cancel" \in CancelKeys
  BY DEF CancelKeys
<1>5. PaymentsSafe
  BY <1>2, <1>3
  DEF PaymentsSafe, BooksAgreeWithStripe, RunnerKnows, RowsExist, OnlyChargesAreReversed, On,
      Idle, Settled
<1>6. ChargeSafe
  BY <1>2, <1>3 DEF ChargeSafe, ChargedOnlyAfterApproval, OrderedAfterApproval
<1>7. HoldSafe
  BY <1>2, <1>3, <1>4 DEF HoldSafe, HoldIsBeingReleased, OrdersHaveReasons, NotReading
<1>8. LostSafe
  BY DEF LostSafe, LostCaptureStaysOpen, CaptureInHand
<1>9. PayableSafe
  BY DEF PayableSafe, WorkHasWorker, CompletedIsPayable, InWork
<1> QED
  BY <1>1, <1>5, <1>6, <1>7, <1>8, <1>9 DEF Inv

(* Every step keeps the invariant. *)
LEMMA NextInv ==
  ASSUME Inv, [Next]_vars
  PROVE  Inv'
<1> USE DEF Inv
<1>1. CASE TaskNext
  <2>1. TypeOK'
    BY <1>1, TaskActionType DEF PayableSafe
  <2>2. PaymentsSafe'
    BY <1>1, PaymentsSafeTask
  <2>3. ChargeSafe'
    BY <1>1, ChargeSafeTask
  <2>4. HoldSafe'
    BY <1>1, HoldSafeTask
  <2>5. LostSafe'
    BY <1>1, LostSafeTask
  <2>6. PayableSafe'
    BY <1>1, PayableSafeTask
  <2> QED
    BY <2>1, <2>2, <2>3, <2>4, <2>5, <2>6
<1>2. CASE PaymentsNext /\ UNCHANGED escrowVars
  <2>1. TypeOK'
    BY <1>2, PaymentsActionType
    DEF TypeOK, TaskTypeOK, CancelTypeOK, escrowVars, taskVars, windowVars, payoutVars,
        cancelVars
  <2>2. PaymentsSafe'
    BY <1>2, PaymentsSafePayments
  <2>3. ChargeSafe'
    BY <1>2, ChargeSafePayments DEF PaymentsSafe
  <2>4. HoldSafe'
    BY <1>2, HoldSafePayments
  <2>5. LostSafe'
    BY <1>2, LostSafePayments
  <2>6. PayableSafe'
    BY <1>2
    DEF PayableSafe, WorkHasWorker, CompletedIsPayable, escrowVars, taskVars, payoutVars
  <2> QED
    BY <2>1, <2>2, <2>3, <2>4, <2>5, <2>6
<1>3. CASE UNCHANGED vars
  <2> USE <1>3 DEF vars, escrowVars, taskVars, windowVars, payoutVars, cancelVars
  <2>1. TypeOK'
    BY PaymentsUntouched DEF TypeOK, TaskTypeOK, CancelTypeOK
  <2>2. PaymentsSafe'
    BY DEF payVars, booksVars, queueVars, stripeVars, PaymentsSafe, BooksAgreeWithStripe,
           RunnerKnows, RowsExist, OnlyChargesAreReversed, On
  <2>3. ChargeSafe'
    BY DEF payVars, queueVars, stripeVars, ChargeSafe, ChargedOnlyAfterApproval,
           OrderedAfterApproval
  <2>4. HoldSafe'
    BY DEF payVars, booksVars, queueVars, stripeVars, HoldSafe, HoldIsBeingReleased,
           OrdersHaveReasons
  <2>5. LostSafe'
    BY DEF payVars, booksVars, queueVars, stripeVars, LostSafe, LostCaptureStaysOpen,
           CaptureInHand
  <2>6. PayableSafe'
    BY DEF PayableSafe, WorkHasWorker, CompletedIsPayable
  <2> QED
    BY <2>1, <2>2, <2>3, <2>4, <2>5, <2>6
<1> QED
  BY <1>1, <1>2, <1>3 DEF Next

(* The inductive invariant. *)
THEOREM Invariance == Spec => []Inv
BY InitInv, NextInv, PTL DEF Spec

(* Every variable keeps its type: in particular no row leaves its table's  *)
(* statuses and no counter its limit.                                      *)
THEOREM TypeCorrect == Spec => []TypeOK
<1>1. Inv => TypeOK
  BY DEF Inv
<1> QED
  BY Invariance, <1>1, PTL

(* However runners, webhooks and Stripe interleave, and wherever runners   *)
(* die, the Payment row claims nothing of Stripe that is not so.           *)
THEOREM BooksAreTrue == Spec => []BooksAgreeWithStripe
<1>1. Inv => BooksAgreeWithStripe
  BY DEF Inv, PaymentsSafe
<1> QED
  BY Invariance, <1>1, PTL

(* No card is charged for work nobody approved. *)
THEOREM NoEarlyCharge == Spec => []ChargedOnlyAfterApproval
<1>1. Inv => ChargedOnlyAfterApproval
  BY DEF Inv, ChargeSafe
<1> QED
  BY Invariance, <1>1, PTL

(* A cancelled task's card hold is never left without an order to release  *)
(* it, be it placed before the cancellation or land after it.              *)
THEOREM HoldsAreReleased == Spec => []HoldIsBeingReleased
<1>1. Inv => HoldIsBeingReleased
  BY DEF Inv, HoldSafe
<1> QED
  BY Invariance, <1>1, PTL

(* A capture Stripe made and the books do not show keeps its order open    *)
(* for another runner, while the task is not cancelled.                    *)
THEOREM LostCapturesAreKept == Spec => []LostCaptureStaysOpen
<1>1. Inv => LostCaptureStaysOpen
  BY DEF Inv, LostSafe
<1> QED
  BY Invariance, <1>1, PTL

(* A delivered task can be paid for. *)
THEOREM DelivererIsPayable == Spec => []CompletedIsPayable
<1>1. Inv => CompletedIsPayable
  BY DEF Inv, PayableSafe
<1> QED
  BY Invariance, <1>1, PTL

(* A paid payout is final. *)
THEOREM PaidIsPaid == Spec => PaidPayoutIsFinal
<1>1. Inv /\ [Next]_vars =>
        [\A w \in Workers : payout[w] = "paid" => payout'[w] = "paid"]_vars
  <2> SUFFICES ASSUME Inv, Next, NEW w \in Workers, payout[w] = "paid"
               PROVE  payout'[w] = "paid"
    OBVIOUS
  <2>1. CASE TaskNext
    BY <2>1, PaidStaysPaid DEF Inv
  <2>2. CASE PaymentsNext /\ UNCHANGED escrowVars
    BY <2>2 DEF escrowVars, payoutVars
  <2> QED
    BY <2>1, <2>2 DEF Next
<1> QED
  BY Invariance, <1>1, PTL DEF Spec, PaidPayoutIsFinal
-----------------------------------------------------------------------------
(***************************************************************************)
(* The promise to the client.                                              *)
(***************************************************************************)

PromiseSafe == RefundIsOfCancelled /\ WorkIsPaid

(* Work that was not paid for is not begun.                                *)
LEMMA TaskOnPaid ==
  ASSUME TaskNext, TypeOK, WorkIsPaid
  PROVE  WorkIsPaid'
<1> USE DEF escrowVars, taskVars, payVars, booksVars, stripeVars, WorkIsPaid, InWork, SetStatus
<1>1. CASE ReleaseTask \/ SubmitDeliverable \/ ApproveDeliverable \/ RejectDeliverable
             \/ ReassignTask \/ RequestRevision \/ PublishRevisionInstructions
  BY <1>1 DEF ReleaseTask, SubmitDeliverable, ApproveDeliverable, RejectDeliverable,
              ReassignTask, RequestRevision, PublishRevisionInstructions
<1>2. CASE DisputeWindowCloses \/ RevisionWindowCloses \/ SweepSelects \/ SweepDies
  BY <1>2 DEF DisputeWindowCloses, RevisionWindowCloses, SweepSelects, SweepDies
<1>3. CASE SweepReleases \/ DecideRejected
  BY <1>3 DEF SweepReleases, DecideRejected, ReleaseHeldFunds
<1>4. CASE \E w \in Workers : ClaimTask(w) \/ CheckFunding(w) \/ MarkPayoutPaid(w)
  BY <1>4 DEF ClaimTask, CheckFunding, MarkPayoutPaid
<1>5. CASE CheckoutUrlForTask \/ FulfillCheckout
  BY <1>5 DEF CheckoutUrlForTask, FulfillCheckout
<1>6. CASE RecordManualPayment \/ RecordManualRefund
  BY <1>6 DEF RecordManualPayment, RecordManualRefund, AfterRefund
<1>7. CASE ExpireStalePayment \/ RunHandsOver \/ OpenDispute \/ DecideRework
  BY <1>7 DEF ExpireStalePayment, RunHandsOver, OpenDispute, DecideRework
<1>8. CASE DecideUpheld \/ CancelTask
  BY <1>8 DEF DecideUpheld, CancelTask
<1>9. CASE ReadNewestPayment \/ CancellationFails
  BY <1>9 DEF ReadNewestPayment, CancellationFails
<1> QED
  BY <1>1, <1>2, <1>3, <1>4, <1>5, <1>6, <1>7, <1>8, <1>9 DEF TaskNext, WorkNext, CancelNext

(* A refund is ordered only where the task is cancelled.                   *)
LEMMA TaskOnRefund ==
  ASSUME TypeOK, RefundIsOfCancelled, TaskNext
  PROVE  RefundIsOfCancelled'
<1> USE DEF TypeOK, PaymentsTypeOK, booksVars, queueVars, stripeVars, RefundIsOfCancelled
<1>0. {"refund", "capture", "late_cancel"} \subseteq IntentKeys
  BY DEF IntentKeys, CancelKeys
<1>1. CASE UNCHANGED payVars /\ (status' = "cancelled" <=> status = "cancelled")
  BY <1>1 DEF payVars
<1>2. CASE CheckoutUrlForTask
  BY <1>2 DEF CheckoutUrlForTask, escrowVars, taskVars
<1>3. CASE FulfillCheckout
  <2>1. intent'["refund"].status = intent["refund"].status
    BY <1>0, <1>3, EnqueuedStatus DEF FulfillCheckout
  <2>2. status = "cancelled" => status' = "cancelled"
    BY <1>3 DEF FulfillCheckout
  <2> QED
    BY <2>1, <2>2
<1>4. CASE RecordManualPayment
  BY <1>4 DEF RecordManualPayment
<1>5. CASE ReleaseHeldFunds /\ (status' = "cancelled" <=> status = "cancelled")
  <2>1. intent'["refund"].status = intent["refund"].status
    BY <1>0, <1>5, EnqueuedStatus DEF ReleaseHeldFunds
  <2> QED
    BY <1>5, <2>1
<1>6. CASE status' = "cancelled"
  BY <1>6
<1>7. CASE RecordManualRefund
  BY <1>7 DEF RecordManualRefund, escrowVars, taskVars
<1> QED
  BY <1>1, <1>2, <1>3, <1>4, <1>5, <1>6, <1>7, TaskOnPayments

(* Stripe's side of it moves in five ways.                                 *)
LEMMA PaymentsOnPromise ==
  ASSUME PaymentsNext
  PROVE  /\ UNCHANGED <<wire, wireRefund>>
         /\ \/ UNCHANGED <<pi, sentRefund>>
            \/ pi = "open" /\ pi' = "held" /\ UNCHANGED sentRefund
            \/ pi = "held" /\ pi' = "canceled" /\ UNCHANGED sentRefund
            \/ pi = "held" /\ pi' = "captured" /\ UNCHANGED sentRefund
            \/ UNCHANGED pi /\ \E r \in Runners : CallRefund(r) /\ sentRefund["app"] = 0
            \/ UNCHANGED pi /\ RefundInDashboard
<1> USE DEF booksVars, stripeVars
<1>1. CASE \E r \in Runners : CallCapture(r) \/ CallCancel(r) \/ CallRefund(r)
  BY <1>1 DEF CallCapture, CallCancel, CallRefund
<1>2. CASE \E r \in Runners : CommitCapture(r) \/ CommitCancel(r) \/ NothingToCancel(r)
                                \/ CommitRefund(r) \/ RunnerFails(r)
  BY <1>2 DEF CommitCapture, CommitCancel, NothingToCancel, CommitRefund, RunnerFails
<1>3. CASE \E r \in Runners : RunnerDies(r) \/ \E k \in IntentKeys : Claim(r, k)
  BY <1>3 DEF RunnerDies, Claim
<1>4. CASE (\E k \in IntentKeys : LeaseExpires(k)) \/ ClientCompletesCheckout \/ HoldLapses
             \/ RefundInDashboard \/ BankOpensDispute \/ BankRules
  BY <1>4 DEF LeaseExpires, ClientCompletesCheckout, HoldLapses, RefundInDashboard,
              BankOpensDispute, BankRules
<1>5. CASE ReconcileRefunds \/ ReconcileDispute \/ ReconcileDisputeWon \/ ReconcileCanceled
  BY <1>5 DEF ReconcileRefunds, ReconcileDispute, ReconcileDisputeWon, ReconcileCanceled
<1> QED
  BY <1>1, <1>2, <1>3, <1>4, <1>5 DEF PaymentsNext, RunnerStep

(* Both are kept by every step.                                            *)
LEMMA PromiseSafeStep ==
  ASSUME Inv, PromiseSafe, [Next]_vars
  PROVE  PromiseSafe'
<1> USE DEF PromiseSafe, Inv
<1>1. CASE TaskNext
  BY <1>1, TaskOnPaid, TaskOnRefund
<1>2. CASE PaymentsNext /\ UNCHANGED escrowVars
  <2>1. intent'["refund"].status # "absent" => intent["refund"].status # "absent"
    BY <1>2, PaymentsOnStatus DEF IntentKeys, PaymentsSafe
  <2>2. pi' \in {"none", "open"} => pi \in {"none", "open"}
    BY <1>2, PaymentsOnPromise
  <2>3. wire' = wire
    BY <1>2, PaymentsOnPromise
  <2> QED
    BY <1>2, <2>1, <2>2, <2>3 DEF RefundIsOfCancelled, WorkIsPaid, escrowVars, taskVars
<1>3. CASE UNCHANGED vars
  BY <1>3 DEF vars, payVars, booksVars, queueVars, stripeVars, escrowVars, taskVars,
              RefundIsOfCancelled, WorkIsPaid
<1> QED
  BY <1>1, <1>2, <1>3 DEF Next

(* Whatever the task does, the money the client sees moves as promised.    *)
LEMMA PromiseTask ==
  ASSUME Inv, PromiseSafe, TaskNext
  PROVE  [Promise!Next]_(Promise!vars)
<1> USE DEF payVars, booksVars, stripeVars, escrowVars, taskVars, windowVars, SetStatus, Promise!vars
<1>1. CASE ApproveDeliverable
  <2>1. /\ status = "submitted_for_qc" /\ status' = "completed" /\ delivered' = TRUE
        /\ UNCHANGED <<pi, sentRefund, wire, wireRefund>>
    BY <1>1 DEF ApproveDeliverable
  <2>2. wire # "absent" \/ pi \notin {"none", "open"}
    BY <2>1 DEF PromiseSafe, WorkIsPaid
  <2>3. CASE delivered
    BY <2>1, <2>3 DEF Inv, TypeOK, TaskTypeOK
  <2>4. CASE ~delivered
    <3>1. pi # "away"
      BY DEF Inv, TypeOK, PaymentsTypeOK
    <3>2. Promise!Approve
      BY <2>1, <2>2, <2>4, <3>1 DEF Promise!Approve
    <3> QED BY <3>2 DEF Promise!Next
  <2> QED BY <2>3, <2>4
<1>2. CASE DecideUpheld \/ CancelTask
  <2>1. /\ status # "cancelled" /\ status' = "cancelled"
        /\ UNCHANGED <<delivered, pi, sentRefund, wire, wireRefund>>
    BY <1>2 DEF DecideUpheld, CancelTask, UnwindMoney, Cancellable
  <2>2. Promise!CallOff
    BY <2>1 DEF Promise!CallOff
  <2> QED BY <2>2 DEF Promise!Next
<1>3. CASE RecordManualPayment
  <2>1. /\ status = "awaiting_payment" /\ status' # "cancelled" /\ wire' = "received"
        /\ UNCHANGED <<delivered, pi, sentRefund, wireRefund>>
    BY <1>3, EscrowAssumption DEF RecordManualPayment
  <2>2. wire = "absent" => Promise!Wire
    BY <2>1 DEF Promise!Wire
  <2>3. wire # "absent" => UNCHANGED Promise!vars
    BY <2>1
  <2> QED BY <2>2, <2>3 DEF Promise!Next
<1>4. CASE RecordManualRefund
  <2>1. /\ intent["refund"].status # "absent" /\ wire \in Settled
        /\ wireRefund' = wireRefund + refundDue /\ wireRefund + refundDue <= Price
        /\ wire' = AfterRefund(wireRefund')
        /\ UNCHANGED <<status, delivered, pi, sentRefund>>
    BY <1>4 DEF RecordManualRefund
  <2>2. wire # "absent" /\ wire' # "absent"
    BY <2>1 DEF Settled, AfterRefund
  <2>3. status = "cancelled"
    BY <2>1 DEF PromiseSafe, RefundIsOfCancelled
  <2>4. refundDue > 0 /\ refundDue \in Nat /\ wireRefund \in Nat /\ Price \in Nat
    BY <2>1, PaymentsAssumption DEF Inv, PaymentsSafe, RowsExist, TypeOK, PaymentsTypeOK
  <2>5. wireRefund' \in (wireRefund + 1)..Price
    BY <2>1, <2>4
  <2>6. Promise!RefundWire
    BY <2>1, <2>2, <2>3, <2>5 DEF Promise!RefundWire
  <2> QED BY <2>6 DEF Promise!Next
<1>5. CASE CheckoutUrlForTask \/ FulfillCheckout
  <2>1. /\ status' = "cancelled" <=> status = "cancelled"
        /\ pi' \in {"none", "open"} <=> pi \in {"none", "open"}
        /\ pi \notin {"none", "open"} => pi' = pi
        /\ UNCHANGED <<delivered, sentRefund, wire, wireRefund>>
    BY <1>5, EscrowAssumption DEF CheckoutUrlForTask, FulfillCheckout
  <2> QED BY <2>1
<1>6. ASSUME UNCHANGED <<delivered, pi, sentRefund, wire, wireRefund>>,
             status' = "cancelled" <=> status = "cancelled"
      PROVE  [Promise!Next]_(Promise!vars)
  BY <1>6
<1>7. CASE ReleaseTask \/ SubmitDeliverable \/ RejectDeliverable
             \/ ReassignTask \/ RequestRevision \/ PublishRevisionInstructions
  BY <1>6, <1>7 DEF ReleaseTask, SubmitDeliverable, RejectDeliverable, InWork,
              ReassignTask, RequestRevision, PublishRevisionInstructions
<1>8. CASE DisputeWindowCloses \/ RevisionWindowCloses \/ SweepSelects \/ SweepDies
  BY <1>6, <1>8 DEF DisputeWindowCloses, RevisionWindowCloses, SweepSelects, SweepDies
<1>9. CASE SweepReleases \/ DecideRejected
  BY <1>6, <1>9 DEF SweepReleases, DecideRejected, ReleaseHeldFunds
<1>10. CASE \E w \in Workers : ClaimTask(w) \/ CheckFunding(w) \/ MarkPayoutPaid(w)
  BY <1>6, <1>10 DEF ClaimTask, CheckFunding, MarkPayoutPaid
<1>11. CASE ExpireStalePayment \/ RunHandsOver \/ OpenDispute \/ DecideRework
  BY <1>6, <1>11 DEF ExpireStalePayment, RunHandsOver, OpenDispute, DecideRework
<1>12. CASE ReadNewestPayment \/ CancellationFails
  BY <1>6, <1>12 DEF ReadNewestPayment, CancellationFails
<1> QED
  BY <1>1, <1>2, <1>3, <1>4, <1>5, <1>7, <1>8, <1>9, <1>10, <1>11, <1>12
  DEF TaskNext, WorkNext, CancelNext

(* Whatever runners, Stripe, the bank and the webhooks do.                 *)
LEMMA PromisePayments ==
  ASSUME Inv, PromiseSafe, PaymentsNext, UNCHANGED escrowVars
  PROVE  [Promise!Next]_(Promise!vars)
<1> USE DEF Promise!vars
<1>0. UNCHANGED <<wire, wireRefund, status, delivered>>
  BY PaymentsOnPromise DEF escrowVars, taskVars, windowVars
<1>1. CASE UNCHANGED <<pi, sentRefund>>
  BY <1>0, <1>1
<1>2. CASE pi = "open" /\ pi' = "held" /\ UNCHANGED sentRefund
  <2>1. Promise!Hold
    BY <1>0, <1>2 DEF Promise!Hold
  <2> QED BY <2>1 DEF Promise!Next
<1>3. CASE pi = "held" /\ pi' = "canceled" /\ UNCHANGED sentRefund
  <2>1. Promise!LetGo
    BY <1>0, <1>3 DEF Promise!LetGo
  <2> QED BY <2>1 DEF Promise!Next
<1>4. CASE pi = "held" /\ pi' = "captured" /\ UNCHANGED sentRefund
  <2>1. delivered
    BY <1>4, ChargedBy
    DEF Inv, PaymentsSafe, ChargeSafe, ChargedOnlyAfterApproval, OrderedAfterApproval, RowsExist
  <2>2. Promise!Take
    BY <1>0, <1>4, <2>1 DEF Promise!Take
  <2> QED BY <2>2 DEF Promise!Next
<1>5. ASSUME NEW r \in Runners, CallRefund(r), sentRefund["app"] = 0
      PROVE  [Promise!Next]_(Promise!vars)
  <2>1. /\ refundDue + sentRefund["dashboard"] <= Price /\ UNCHANGED pi
        /\ sentRefund' = [sentRefund EXCEPT !["app"] = refundDue]
        /\ runner[r].key = "refund" /\ runner[r] # Idle /\ card \in Settled
    BY <1>5, NotIdle DEF CallRefund, On
  <2>2. intent["refund"].status # "absent" /\ refundDue > 0
    BY <2>1 DEF Inv, PaymentsSafe, RowsExist
  <2>3. status = "cancelled"
    BY <2>2 DEF PromiseSafe, RefundIsOfCancelled
  <2>4. pi = "captured"
    BY <2>1 DEF Inv, PaymentsSafe, BooksAgreeWithStripe
  <2>5. sentRefund \in [RefundIds -> 0..Price] /\ refundDue \in 0..Price /\ Price \in Nat
    BY PaymentsAssumption DEF Inv, TypeOK, PaymentsTypeOK
  <2>6. /\ sentRefund'["app"] = refundDue /\ sentRefund'["dashboard"] = sentRefund["dashboard"]
        /\ sentRefund["dashboard"] \in 0..Price
    BY <2>1, <2>5 DEF RefundIds
  <2>7. sentRefund'["app"] \in 1..(Price - sentRefund["dashboard"])
    BY <2>1, <2>2, <2>5, <2>6
  <2>8. Promise!Refund
    BY <1>0, <1>5, <2>1, <2>3, <2>4, <2>6, <2>7 DEF Promise!Refund
  <2> QED BY <2>8 DEF Promise!Next
<1>6. CASE RefundInDashboard
  <2>1. PICK amount \in DashboardRefunds :
          /\ pi = "captured" /\ sentRefund["dashboard"] = 0 /\ UNCHANGED pi
          /\ amount + sentRefund["app"] <= Price
          /\ sentRefund' = [sentRefund EXCEPT !["dashboard"] = amount]
    BY <1>6 DEF RefundInDashboard
  <2>2. sentRefund \in [RefundIds -> 0..Price] /\ amount \in 1..Price /\ Price \in Nat
    BY PaymentsAssumption DEF Inv, TypeOK, PaymentsTypeOK
  <2>3. /\ sentRefund'["dashboard"] = amount /\ sentRefund'["app"] = sentRefund["app"]
        /\ sentRefund["app"] \in 0..Price
    BY <2>1, <2>2 DEF RefundIds
  <2>4. sentRefund'["dashboard"] \in 1..(Price - sentRefund["app"])
    BY <2>1, <2>2, <2>3
  <2>5. Promise!RefundByHand
    BY <1>0, <2>1, <2>3, <2>4 DEF Promise!RefundByHand
  <2> QED BY <2>5 DEF Promise!Next
<1> QED
  BY <1>1, <1>2, <1>3, <1>4, <1>5, <1>6, PaymentsOnPromise

(* An accepted task, with its runners, webhooks, operators and             *)
(* cancellations, implements the promise to its client.                    *)
THEOREM EscrowKeepsPromise == Spec => PromiseIsKept
<1>1. Init => PromiseSafe /\ Promise!Init
  BY DEF Init, PaymentsInit, PromiseSafe, RefundIsOfCancelled, WorkIsPaid, NoIntent,
         IntentKeys, RefundIds, Promise!Init
<1>2. Inv /\ PromiseSafe /\ [Next]_vars => PromiseSafe'
  BY PromiseSafeStep
<1>3. Inv /\ PromiseSafe /\ [Next]_vars => [Promise!Next]_(Promise!vars)
  <2> SUFFICES ASSUME Inv, PromiseSafe, [Next]_vars PROVE [Promise!Next]_(Promise!vars)
    OBVIOUS
  <2>1. CASE UNCHANGED vars
    BY <2>1 DEF vars, payVars, booksVars, stripeVars, escrowVars, taskVars, windowVars,
                Promise!vars
  <2> QED BY <2>1, PromiseTask, PromisePayments DEF Next
<1> QED
  BY <1>1, <1>2, <1>3, Invariance, PTL DEF Spec, Promise!Spec, PromiseIsKept

(* So the client's money is square at every moment: charged only for an    *)
(* approved delivery, given back only when the task is off, and never more *)
(* than was paid, however often an order is retried.                       *)
PromiseFacts == INSTANCE EscrowPromise_proofs WITH
  deal     <- IF status = "cancelled" THEN "off" ELSE "open",
  delivery <- IF delivered THEN "approved" ELSE "awaited",
  card     <- IF pi \in {"none", "open"} THEN "away" ELSE pi,
  refunded <- sentRefund["app"],
  byHand   <- sentRefund["dashboard"],
  wire     <- IF wire = "absent" THEN "away" ELSE "paid",
  wireBack <- wireRefund

(* What comes back is of a cancelled task, and no more than its price      *)
(* (money-intents.ts, recordManualRefund, the Dashboard).                  *)
BackIsWithinPaid ==
  /\ sentRefund["app"] + sentRefund["dashboard"] <= Price /\ wireRefund <= Price
  /\ sentRefund["app"] > 0 \/ wireRefund > 0 => status = "cancelled"
  /\ delivered => wire # "absent" \/ pi \notin {"none", "open"}

(* The client of a task is square, from the promise it implements.         *)
THEOREM TaskIsSquare == Spec => []BackIsWithinPaid
<1>1. PromiseFacts!Honoured => BackIsWithinPaid
  BY DEF PromiseFacts!Honoured, BackIsWithinPaid
<1>2. PromiseFacts!Spec => []PromiseFacts!Honoured
  BY PaymentsAssumption, PromiseFacts!ClientIsSquare
<1>3. /\ Promise!Init <=> PromiseFacts!Init
      /\ [Promise!Next]_(Promise!vars) <=> [PromiseFacts!Next]_(PromiseFacts!vars)
  BY DEF Promise!Init, PromiseFacts!Init, Promise!vars, PromiseFacts!vars, Promise!Next,
         PromiseFacts!Next, Promise!Hold, PromiseFacts!Hold, Promise!Wire, PromiseFacts!Wire,
         Promise!Approve, PromiseFacts!Approve, Promise!CallOff, PromiseFacts!CallOff,
         Promise!Take, PromiseFacts!Take, Promise!LetGo, PromiseFacts!LetGo,
         Promise!Refund, PromiseFacts!Refund, Promise!RefundByHand, PromiseFacts!RefundByHand,
         Promise!RefundWire, PromiseFacts!RefundWire
<1> QED
  BY <1>1, <1>2, <1>3, EscrowKeepsPromise, PTL DEF PromiseIsKept, Promise!Spec, PromiseFacts!Spec

-----------------------------------------------------------------------------
(***************************************************************************)
(* Closed orders.                                                          *)
(***************************************************************************)

(* A runner closes a refund or a capture with Stripe's answer in hand. *)
LEMMA ClosedBy ==
  ASSUME TypeOK, PaymentsNext, NEW j \in {"refund", "capture"},
         intent[j].status # "done", intent'[j].status = "done"
  PROVE  \E r \in Runners : On(r, "called", {j})
<1> USE DEF TypeOK, PaymentsTypeOK
<1>0. j \in IntentKeys /\ j \notin CancelKeys
  BY DEF IntentKeys, CancelKeys
<1>1. CASE \E r \in Runners : CommitCapture(r)
  <2> PICK r \in Runners : CommitCapture(r)
    BY <1>1
  <2>1. intent'[j].status = IF j = "capture" THEN "done" ELSE intent[j].status
    BY <1>0, MarkDoneStatus DEF CommitCapture, IntentKeys
  <2> QED BY <2>1 DEF CommitCapture
<1>2. CASE \E r \in Runners : CommitRefund(r)
  <2> PICK r \in Runners : CommitRefund(r)
    BY <1>2
  <2>1. intent'[j].status = IF j = "refund" THEN "done" ELSE intent[j].status
    BY <1>0, MarkDoneStatus DEF CommitRefund, IntentKeys
  <2> QED BY <2>1 DEF CommitRefund
<1>3. CASE \E r \in Runners : CommitCancel(r) \/ NothingToCancel(r)
  <2> PICK r \in Runners : CommitCancel(r) \/ NothingToCancel(r)
    BY <1>3
  <2>1. runner[r].key \in CancelKeys /\ runner[r].key \in IntentKeys /\ MarkDone(runner[r].key)
    BY DEF CommitCancel, NothingToCancel, On, IntentKeys
  <2> QED BY <1>0, <2>1, MarkDoneStatus
<1>4. CASE \E r \in Runners : RunnerFails(r)
  BY <1>0, <1>4, BusyType DEF RunnerFails, Intent
<1>5. CASE \E r \in Runners, k \in IntentKeys : Claim(r, k)
  BY <1>0, <1>5 DEF Claim, Intent
<1>6. CASE \E k \in IntentKeys : LeaseExpires(k)
  BY <1>0, <1>6 DEF LeaseExpires, Intent
<1>7. CASE \E r \in Runners : CallCapture(r) \/ CallCancel(r) \/ CallRefund(r) \/ RunnerDies(r)
  BY <1>7 DEF CallCapture, CallCancel, CallRefund, RunnerDies
<1>8. CASE ClientCompletesCheckout \/ HoldLapses \/ RefundInDashboard \/ BankOpensDispute
             \/ BankRules
  BY <1>8 DEF ClientCompletesCheckout, HoldLapses, RefundInDashboard, BankOpensDispute,
              BankRules, queueVars
<1>9. CASE ReconcileRefunds \/ ReconcileDispute \/ ReconcileDisputeWon \/ ReconcileCanceled
  BY <1>9 DEF ReconcileRefunds, ReconcileDispute, ReconcileDisputeWon, ReconcileCanceled, queueVars
<1> QED
  BY <1>1, <1>2, <1>3, <1>4, <1>5, <1>6, <1>7, <1>8, <1>9 DEF PaymentsNext, RunnerStep

(* Of the task's steps, only a cancellation retires a capture, and only    *)
(* the operator who gives a wire back closes a refund.                     *)
LEMMA ClosedOrdersTask ==
  ASSUME Inv, ClosedOrdersAreCarriedOut, TaskNext
  PROVE  ClosedOrdersAreCarriedOut'
<1> USE DEF Inv, TypeOK, PaymentsTypeOK, booksVars, queueVars, stripeVars,
            ClosedOrdersAreCarriedOut
<1>0. {"refund", "capture", "late_cancel"} \subseteq IntentKeys
  BY DEF IntentKeys, CancelKeys
<1>1. CASE UNCHANGED payVars /\ (status' = "cancelled" <=> status = "cancelled")
  BY <1>1 DEF payVars
<1>2. CASE CheckoutUrlForTask
  BY <1>2 DEF CheckoutUrlForTask, escrowVars, taskVars
<1>3. CASE FulfillCheckout
  <2>1. \A j \in {"refund", "capture"} : intent'[j].status = intent[j].status
    BY <1>0, <1>3, EnqueuedStatus DEF FulfillCheckout
  <2>2. /\ status = "cancelled" => status' = "cancelled"
        /\ UNCHANGED <<pi, sentRefund, wireRefund>>
    BY <1>3 DEF FulfillCheckout
  <2> QED
    BY <2>1, <2>2
<1>4. CASE RecordManualPayment
  BY <1>4 DEF RecordManualPayment
<1>5. CASE ReleaseHeldFunds /\ (status' = "cancelled" <=> status = "cancelled")
  <2>1. \A j \in {"refund", "capture"} :
          intent'[j].status = "done" => intent[j].status = "done"
    BY <1>0, <1>5, EnqueuedStatus DEF ReleaseHeldFunds
  <2> QED
    BY <1>5, <2>1 DEF ReleaseHeldFunds
<1>6. CASE UnwindMoney /\ status' = "cancelled"
  <2>1. intent'["refund"].status = "done" => intent["refund"].status = "done"
    BY <1>6, RefundUnwound
  <2> QED
    BY <1>6, <2>1 DEF UnwindMoney
<1>7. CASE RecordManualRefund
  <2>1. intent'["capture"] = intent["capture"] /\ UNCHANGED <<pi, status>>
    BY <1>0, <1>7 DEF RecordManualRefund, escrowVars, taskVars
  <2>2. intent["refund"].status # "absent" /\ wireRefund' = wireRefund + refundDue
    BY <1>7 DEF RecordManualRefund
  <2>3. refundDue > 0 /\ refundDue \in Nat /\ wireRefund \in Nat
    BY <2>2, PaymentsAssumption DEF PaymentsSafe, RowsExist
  <2>4. wireRefund' > 0
    BY <2>2, <2>3
  <2> QED
    BY <2>1, <2>4
<1> QED
  BY <1>1, <1>2, <1>3, <1>4, <1>5, <1>6, <1>7, TaskOnPayments

(* A runner that closes an order has carried it out, and nobody undoes it. *)
LEMMA ClosedOrdersPayments ==
  ASSUME Inv, ClosedOrdersAreCarriedOut, PaymentsNext, UNCHANGED escrowVars
  PROVE  ClosedOrdersAreCarriedOut'
<1> USE DEF Inv
<1>1. /\ pi = "captured" => pi' = "captured"
      /\ UNCHANGED <<wireRefund, status>>
  BY PaymentsOnPromise DEF escrowVars, taskVars
<1>2. sentRefund["app"] > 0 => sentRefund'["app"] = sentRefund["app"]
  <2>1. CASE UNCHANGED sentRefund
    BY <2>1
  <2>2. CASE RefundInDashboard
    BY <2>2 DEF RefundInDashboard, TypeOK, PaymentsTypeOK, RefundIds
  <2>3. CASE sentRefund["app"] = 0
    BY <2>3
  <2> QED BY <2>1, <2>2, <2>3, PaymentsOnPromise
<1>3. intent'["refund"].status = "done" => sentRefund["app"] > 0 \/ wireRefund > 0
  <2>1. CASE intent["refund"].status = "done"
    BY <2>1 DEF ClosedOrdersAreCarriedOut
  <2>2. (\E r \in Runners : On(r, "called", {"refund"})) => sentRefund["app"] > 0
    BY DEF PaymentsSafe, RunnerKnows
  <2> QED BY <2>1, <2>2, ClosedBy
<1>4. intent'["capture"].status = "done" /\ status # "cancelled" => pi = "captured"
  <2>1. CASE intent["capture"].status = "done"
    BY <2>1 DEF ClosedOrdersAreCarriedOut
  <2>2. (\E r \in Runners : On(r, "called", {"capture"})) => pi = "captured"
    BY DEF PaymentsSafe, RunnerKnows
  <2> QED BY <2>1, <2>2, ClosedBy
<1> QED BY <1>1, <1>2, <1>3, <1>4 DEF ClosedOrdersAreCarriedOut

(* No order is closed that was not carried out (processMoneyIntents writes *)
(* `done` by id; cancelTask, recordManualRefund).                          *)
THEOREM ClosedIsCarriedOut == Spec => []ClosedOrdersAreCarriedOut
<1>1. Init => ClosedOrdersAreCarriedOut
  BY DEF Init, PaymentsInit, ClosedOrdersAreCarriedOut, NoIntent, IntentKeys
<1>2. Inv /\ ClosedOrdersAreCarriedOut /\ [Next]_vars => ClosedOrdersAreCarriedOut'
  <2> SUFFICES ASSUME Inv, ClosedOrdersAreCarriedOut, [Next]_vars
               PROVE  ClosedOrdersAreCarriedOut'
    OBVIOUS
  <2>1. CASE UNCHANGED vars
    BY <2>1 DEF vars, payVars, booksVars, queueVars, stripeVars, escrowVars, taskVars,
                ClosedOrdersAreCarriedOut
  <2> QED BY <2>1, ClosedOrdersTask, ClosedOrdersPayments DEF Next
<1> QED
  BY <1>1, <1>2, Invariance, PTL DEF Spec

-----------------------------------------------------------------------------
(***************************************************************************)
(* A cancelled task with no capture under way.                             *)
(***************************************************************************)

(* On it, the task's side can only enqueue the release of a late hold and  *)
(* record a refund by hand.                                                *)
LEMMA CancelledTaskIsOver ==
  ASSUME TaskNext, status = "cancelled", ~picked
  PROVE  /\ status' = "cancelled" /\ ~picked'
         /\ UNCHANGED payVars \/ FulfillCheckout \/ RecordManualRefund
<1> USE DEF SetStatus, taskVars, payoutVars, cancelVars, escrowVars
<1>1. CASE CancelNext
  BY <1>1 DEF CancelNext, ReadNewestPayment, CancellationFails, DecideUpheld, CancelTask,
              Cancellable
<1>2. CASE FulfillCheckout \/ RecordManualRefund
  BY <1>2 DEF FulfillCheckout, RecordManualRefund
<1>3. CASE \E w \in Workers : ClaimTask(w) \/ CheckFunding(w) \/ MarkPayoutPaid(w)
  BY <1>3 DEF ClaimTask, CheckFunding, MarkPayoutPaid
<1>4. CASE CheckoutUrlForTask \/ RecordManualPayment \/ ExpireStalePayment \/ RunHandsOver
             \/ ReleaseTask \/ SubmitDeliverable \/ ApproveDeliverable \/ RejectDeliverable
             \/ ReassignTask \/ RequestRevision \/ PublishRevisionInstructions \/ OpenDispute
             \/ DecideRejected \/ DecideRework \/ SweepSelects \/ SweepReleases \/ SweepDies
  BY <1>4 DEF CheckoutUrlForTask, RecordManualPayment, ExpireStalePayment, RunHandsOver,
              ReleaseTask, SubmitDeliverable, ApproveDeliverable, RejectDeliverable,
              ReassignTask, InWork, RequestRevision, PublishRevisionInstructions, OpenDispute,
              DecideRejected, DecideRework, SweepSelects, SweepReleases, SweepDies
<1>5. CASE DisputeWindowCloses \/ RevisionWindowCloses
  BY <1>5 DEF DisputeWindowCloses, RevisionWindowCloses
<1> QED
  BY <1>1, <1>2, <1>3, <1>4, <1>5 DEF TaskNext, WorkNext

LEMMA NoCaptureLeftTask ==
  ASSUME TypeOK, NoCaptureLeft, TaskNext
  PROVE  NoCaptureLeft' /\ (pi' = "captured" => pi = "captured")
<1>1. intent \in [IntentKeys -> Intent] /\ "capture" \in IntentKeys
  BY DEF TypeOK, PaymentsTypeOK, IntentKeys
<1>2. status' = "cancelled" /\ ~picked'
  BY CancelledTaskIsOver DEF NoCaptureLeft
<1>3. CASE UNCHANGED payVars
  BY <1>2, <1>3 DEF NoCaptureLeft, payVars, queueVars, stripeVars
<1>4. CASE FulfillCheckout
  <2>1. intent'["capture"].status = intent["capture"].status
    BY <1>1, <1>4, EnqueuedStatus DEF FulfillCheckout, IntentKeys, CancelKeys
  <2> QED
    BY <1>2, <1>4, <2>1 DEF NoCaptureLeft, FulfillCheckout, stripeVars
<1>5. CASE RecordManualRefund
  <2>1. intent'["capture"].status = intent["capture"].status
    BY <1>1, <1>5 DEF RecordManualRefund
  <2> QED
    BY <1>2, <1>5, <2>1 DEF NoCaptureLeft, RecordManualRefund, stripeVars
<1> QED
  BY <1>3, <1>4, <1>5, CancelledTaskIsOver DEF NoCaptureLeft

(* Runners find no capture to claim, and write to rows of their own.       *)
LEMMA NoCaptureLeftPayments ==
  ASSUME TypeOK, NoCaptureLeft, PaymentsNext, UNCHANGED escrowVars
  PROVE  NoCaptureLeft' /\ (pi' = "captured" => pi = "captured")
<1> USE DEF NoCaptureLeft, booksVars, queueVars, stripeVars, On
<1>0. /\ intent \in [IntentKeys -> Intent] /\ "capture" \in IntentKeys
      /\ runner \in [Runners -> Working \cup {Idle}]
  BY DEF TypeOK, PaymentsTypeOK, IntentKeys
<1>1. status' = "cancelled" /\ ~picked'
  BY DEF escrowVars, taskVars, payoutVars
<1>2. pi' = "captured" => pi = "captured"
  BY ChargedBy
<1>3. ASSUME NEW r \in Runners, NEW k \in IntentKeys, Claim(r, k) PROVE NoCaptureLeft'
  <2>1. k # "capture"
    BY <1>3 DEF Claim, Claimable
  <2> QED
    BY <1>0, <1>1, <1>3, <2>1 DEF Claim
<1>4. ASSUME NEW r \in Runners, RunnerStep(r) \/ RunnerDies(r) PROVE NoCaptureLeft'
  <2>0. runner[r].key # "capture" /\ Idle.key = "none"
    BY DEF Idle
  <2>1. CASE CallCancel(r) \/ CallRefund(r)
    BY <1>0, <1>1, <2>0, <2>1 DEF CallCancel, CallRefund, Working, Idle
  <2>2. CASE CommitCancel(r) \/ NothingToCancel(r) \/ CommitRefund(r)
    <3>1. \E k \in IntentKeys : k # "capture" /\ MarkDone(k)
      BY <2>0, <2>2 DEF CommitCancel, NothingToCancel, CommitRefund, CancelKeys, IntentKeys
    <3>2. intent'["capture"].status = intent["capture"].status
      BY <1>0, <3>1, MarkDoneStatus
    <3> QED
      BY <1>0, <1>1, <2>0, <2>2, <3>2 DEF CommitCancel, NothingToCancel, CommitRefund
  <2>3. CASE RunnerFails(r)
    BY <1>0, <1>1, <2>0, <2>3 DEF RunnerFails
  <2>4. CASE RunnerDies(r)
    BY <1>0, <1>1, <2>0, <2>4 DEF RunnerDies
  <2>5. CASE CallCapture(r) \/ CommitCapture(r)
    BY <2>0, <2>5 DEF CallCapture, CommitCapture
  <2> QED
    BY <1>4, <2>1, <2>2, <2>3, <2>4, <2>5 DEF RunnerStep
<1>5. CASE \E k \in IntentKeys : LeaseExpires(k)
  BY <1>0, <1>1, <1>5 DEF LeaseExpires, Intent
<1>6. CASE ClientCompletesCheckout \/ HoldLapses \/ RefundInDashboard \/ BankOpensDispute
             \/ BankRules
  BY <1>1, <1>6 DEF ClientCompletesCheckout, HoldLapses, RefundInDashboard, BankOpensDispute,
                    BankRules
<1>7. CASE ReconcileRefunds \/ ReconcileDispute \/ ReconcileDisputeWon \/ ReconcileCanceled
  BY <1>1, <1>7 DEF ReconcileRefunds, ReconcileDispute, ReconcileDisputeWon, ReconcileCanceled
<1> QED
  BY <1>2, <1>3, <1>4, <1>5, <1>6, <1>7 DEF PaymentsNext

LEMMA NoCaptureLeftStep ==
  TypeOK /\ NoCaptureLeft /\ [Next]_vars => NoCaptureLeft' /\ (pi' = "captured" => pi = "captured")
<1> SUFFICES ASSUME TypeOK, NoCaptureLeft, [Next]_vars
             PROVE  NoCaptureLeft' /\ (pi' = "captured" => pi = "captured")
  OBVIOUS
<1>1. CASE UNCHANGED vars
  BY <1>1 DEF vars, payVars, queueVars, stripeVars, escrowVars, taskVars, payoutVars,
              NoCaptureLeft
<1> QED
  BY <1>1, NoCaptureLeftTask, NoCaptureLeftPayments DEF Next

(* No step charges a card, or puts a capture under way, on a cancelled     *)
(* task that has none (admin.ts: "Your card was never charged").           *)
THEOREM UnchargedStays == Spec => CancelledStaysUncharged
<1>1. TypeOK /\ [Next]_vars =>
        [NoCaptureLeft => NoCaptureLeft' /\ (pi' = "captured" => pi = "captured")]_vars
  BY NoCaptureLeftStep
<1> QED
  BY <1>1, TypeCorrect, PTL DEF Spec, CancelledStaysUncharged

(* So what cancelTask tells the client stays true for good.                *)
THEOREM NeverChargedLater ==
  Spec => [](NoCaptureLeft /\ pi # "captured" => [](pi # "captured"))
<1> DEFINE Quiet == NoCaptureLeft /\ pi # "captured"
<1>1. TypeOK /\ Quiet /\ [Next]_vars => Quiet'
  BY NoCaptureLeftStep
<1>2. Quiet => pi # "captured"
  OBVIOUS
<1> QED
  <2> HIDE DEF Quiet
  <2>1. Spec => [](Quiet => [](pi # "captured"))
    BY <1>1, <1>2, TypeCorrect, PTL DEF Spec
  <2> QED BY <2>1 DEF Quiet
=============================================================================
