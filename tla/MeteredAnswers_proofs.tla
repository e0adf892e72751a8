------------------------ MODULE MeteredAnswers_proofs ------------------------
(***************************************************************************)
(* What holds of any system that implements MeteredAnswers, for all        *)
(* questions, tries and orders.                                            *)
(***************************************************************************)
EXTENDS MeteredAnswers, TLAPS

KeptIsFunction == kept \in [Questions -> Tries \cup {0}]

(* An answer that is used has been paid for, and rests on answers that     *)
(* were there first (succeedAiOperation, runWorkEngine).                   *)
THEOREM AnswersAreAccounted == Spec => []Accounted
<1> DEFINE Inv == KeptIsFunction /\ Accounted
<1>1. Init => Inv
  BY DEF Init, KeptIsFunction, Accounted
<1>2. Inv /\ [Next]_vars => Inv'
  <2> SUFFICES ASSUME Inv, [Next]_vars PROVE Inv'
    OBVIOUS
  <2> USE DEF KeptIsFunction, Accounted
  <2>1. ASSUME NEW q \in Questions, NEW n \in Tries, Ask(q, n) PROVE Inv'
    BY <2>1 DEF Ask
  <2>2. ASSUME NEW q \in Questions, NEW n \in Tries, Answer(q, n) PROVE Inv'
    BY <2>2 DEF Answer
  <2>3. ASSUME NEW q \in Questions, NEW n \in Tries, Bill(q, n) PROVE Inv'
    <3>1. CASE kept' = kept
      BY <2>3, <3>1 DEF Bill
    <3>2. CASE kept[q] = 0 /\ kept' = [kept EXCEPT ![q] = n]
      <4>1. kept' \in [Questions -> Tries \cup {0}] /\ kept'[q] = n
        BY <3>2
      <4>2. \A p \in Questions : p # q => kept'[p] = kept[p]
        BY <3>2
      <4>3. \A p \in Questions : kept[p] # 0 => kept'[p] # 0
        BY <3>2, <4>2
      <4> QED BY <2>3, <4>1, <4>2, <4>3 DEF Bill
    <3> QED BY <2>3, <3>1, <3>2 DEF Bill
  <2>4. CASE UNCHANGED vars
    BY <2>4 DEF vars
  <2> QED
    BY <2>1, <2>2, <2>3, <2>4 DEF Next
<1>3. Inv => Accounted
  OBVIOUS
<1> QED
  BY <1>1, <1>2, <1>3, PTL DEF Spec
=============================================================================
