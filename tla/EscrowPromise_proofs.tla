------------------------ MODULE EscrowPromise_proofs -------------------------
(***************************************************************************)
(* What a client can count on, from the promise alone: any system that     *)
(* implements EscrowPromise gives them this, for every price.              *)
(***************************************************************************)
EXTENDS EscrowPromise, TLAPS

PromiseTypeOK ==
  /\ deal \in {"open", "off"}
  /\ delivery \in {"awaited", "approved"} /\ wire \in {"away", "paid"}
  /\ card \in {"away", "held", "captured", "canceled"}
  /\ refunded \in Nat /\ byHand \in Nat /\ wireBack \in Nat

LEMMA WithinRest ==
  ASSUME NEW p \in Nat, NEW b \in Nat, NEW x \in 1..(p - b)
  PROVE  x \in Nat /\ x + b <= p /\ b + x <= p
OBVIOUS

(* No client gets back what was not paid, or more, or anything from the    *)
(* platform while the deal is on; and no card is charged for nothing       *)
(* (the intents, webhooks and cancellations of src/server).                *)
THEOREM ClientIsSquare ==
  ASSUME Price \in Nat
  PROVE  Spec => []Honoured
<1> DEFINE Inv == PromiseTypeOK /\ Honoured
<1> USE DEF PromiseTypeOK, Honoured
<1>1. Init => Inv
  BY DEF Init
<1>2. Inv /\ [Next]_vars => Inv'
  <2> SUFFICES ASSUME Inv, [Next]_vars PROVE Inv'
    OBVIOUS
  <2>1. CASE Hold \/ LetGo
    BY <2>1 DEF Hold, LetGo
  <2>2. CASE Wire
    BY <2>2 DEF Wire
  <2>3. CASE Approve
    BY <2>3 DEF Approve
  <2>4. CASE CallOff
    BY <2>4 DEF CallOff
  <2>5. CASE Take
    BY <2>5 DEF Take
  <2>6. CASE Refund
    <3>0. refunded' \in 1..(Price - byHand) /\ byHand \in Nat
      BY <2>6 DEF Refund
    <3>1. refunded' \in Nat /\ refunded' + byHand <= Price
      BY <3>0, WithinRest
    <3> QED BY <2>6, <3>1 DEF Refund
  <2>7. CASE RefundByHand
    <3>0. byHand' \in 1..(Price - refunded) /\ refunded \in Nat
      BY <2>7 DEF RefundByHand
    <3>1. byHand' \in Nat /\ refunded + byHand' <= Price
      BY <3>0, WithinRest
    <3> QED BY <2>7, <3>1 DEF RefundByHand
  <2>8. CASE RefundWire
    BY <2>8 DEF RefundWire
  <2>9. CASE UNCHANGED vars
    BY <2>9 DEF vars
  <2> QED
    BY <2>1, <2>2, <2>3, <2>4, <2>5, <2>6, <2>7, <2>8, <2>9 DEF Next
<1>3. Inv => Honoured
  OBVIOUS
<1> QED
  BY <1>1, <1>2, <1>3, PTL DEF Spec
=============================================================================
