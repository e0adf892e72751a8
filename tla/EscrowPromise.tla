---------------------------- MODULE EscrowPromise ----------------------------
(***************************************************************************)
(* What a client is promised about the money of one task, whoever runs,    *)
(* retries, dies or is told twice in between.  Nothing is approved that    *)
(* was not paid for; a card is charged only for what was approved, once;   *)
(* what the platform gives back is of a task called off, once, and no more *)
(* than the payment.  Escrow implements this.                              *)
(***************************************************************************)
EXTENDS Integers

CONSTANT Price

VARIABLES
  deal,       \* "open", or "off" for good
  delivery,   \* "awaited", or "approved" for good
  card,       \* the client's money on the card: away, held, captured, canceled
  refunded,   \* given back of it by the platform
  byHand,     \* and by an operator in Stripe's own Dashboard
  wire,       \* their money by wire: away or paid
  wireBack    \* given back of that

vars == <<deal, delivery, card, refunded, byHand, wire, wireBack>>

Init ==
  /\ deal = "open" /\ delivery = "awaited"
  /\ card = "away" /\ refunded = 0 /\ byHand = 0
  /\ wire = "away" /\ wireBack = 0

(* A client who is late may still have a hold placed on a task called off. *)
Hold ==
  /\ card = "away"
  /\ card' = "held"
  /\ UNCHANGED <<deal, delivery, refunded, byHand, wire, wireBack>>

Wire ==
  /\ deal = "open" /\ wire = "away"
  /\ wire' = "paid"
  /\ UNCHANGED <<deal, delivery, card, refunded, byHand, wireBack>>

Approve ==
  /\ deal = "open" /\ delivery = "awaited"
  /\ wire # "away" \/ card # "away"
  /\ delivery' = "approved"
  /\ UNCHANGED <<deal, card, refunded, byHand, wire, wireBack>>

CallOff ==
  /\ deal = "open"
  /\ deal' = "off"
  /\ UNCHANGED <<delivery, card, refunded, byHand, wire, wireBack>>

(* Not promised: that a task called off is not charged any more. *)
Take ==
  /\ card = "held" /\ delivery = "approved"
  /\ card' = "captured"
  /\ UNCHANGED <<deal, delivery, refunded, byHand, wire, wireBack>>

LetGo ==
  /\ card = "held"
  /\ card' = "canceled"
  /\ UNCHANGED <<deal, delivery, refunded, byHand, wire, wireBack>>

Refund ==
  /\ deal = "off" /\ card = "captured" /\ refunded = 0
  /\ refunded' \in 1..(Price - byHand)
  /\ UNCHANGED <<deal, delivery, card, byHand, wire, wireBack>>

RefundByHand ==
  /\ card = "captured" /\ byHand = 0
  /\ byHand' \in 1..(Price - refunded)
  /\ UNCHANGED <<deal, delivery, card, refunded, wire, wireBack>>

RefundWire ==
  /\ deal = "off" /\ wire = "paid"
  /\ wireBack' \in (wireBack + 1)..Price
  /\ UNCHANGED <<deal, delivery, card, refunded, byHand, wire>>

Next ==
  \/ Hold \/ Wire \/ Approve \/ CallOff \/ Take \/ LetGo
  \/ Refund \/ RefundByHand \/ RefundWire

Spec == Init /\ [][Next]_vars

(* The client gets back nothing that was not paid, nor more than it; what  *)
(* the platform gives back is of a task called off, and what it keeps of   *)
(* the card is for a delivery that was approved.                           *)
Honoured ==
  /\ delivery = "approved" => wire # "away" \/ card # "away"
  /\ card = "captured" => delivery = "approved"
  /\ refunded + byHand > 0 => card = "captured"
  /\ refunded + byHand <= Price
  /\ refunded > 0 \/ wireBack > 0 => deal = "off"
  /\ wireBack > 0 => wire = "paid"
  /\ wireBack <= Price
=============================================================================
