----------------------------- MODULE SpendLedger -----------------------------
(***************************************************************************)
(* What a spend ceiling promises, whoever keeps it.  Every attempt takes   *)
(* the worst case it could cost before it is made, and gives it back only  *)
(* by saying what it did cost, or that it cost nothing.  The budget of a   *)
(* workflow run (src/server/workflow-budget.ts) implements this.           *)
(***************************************************************************)
EXTENDS Integers

CONSTANTS
  Keys,        \* what identifies an attempt
  WorstCase,   \* the most one attempt can cost
  Ceiling      \* the most all of them may cost

\* What an implementation owes of the constants.
LedgerConstants == WorstCase \in Nat /\ Ceiling \in Nat

VARIABLES
  held,      \* attempts whose worst case is still taken
  promised,  \* what is taken for them
  spent      \* what the settled ones cost

vars == <<held, promised, spent>>

Init == held = {} /\ promised = 0 /\ spent = 0

Reserve(k) ==
  /\ k \notin held
  /\ spent + promised + WorstCase <= Ceiling
  /\ held' = held \cup {k}
  /\ promised' = promised + WorstCase
  /\ UNCHANGED spent

GivesBack(k) ==
  /\ k \in held
  /\ held' = held \ {k}
  /\ promised' = promised - WorstCase

Settle(k) ==
  /\ GivesBack(k)
  /\ \E c \in 0..WorstCase : spent' = spent + c

Release(k) == GivesBack(k) /\ UNCHANGED spent

Next == \E k \in Keys : Reserve(k) \/ Settle(k) \/ Release(k)

Spec == Init /\ [][Next]_vars

TypeOK == held \subseteq Keys /\ promised \in Int /\ spent \in Nat

\* Money gone and money promised never exceed the ceiling.
WithinCeiling == spent + promised <= Ceiling
=============================================================================
