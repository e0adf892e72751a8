------------------------- MODULE SpendLedger_proofs --------------------------
(***************************************************************************)
(* The ceiling holds whatever is attempted, settled or given back at once. *)
(***************************************************************************)
EXTENDS SpendLedger, TLAPS

\* The sum of what was spent and of the worst of what is not known yet stays
\* under the ceiling, whatever the order of reservations and settlements
\* (reserveSpend and reserveAccountProviderSpend promise this).
THEOREM CeilingHolds ==
  ASSUME LedgerConstants
  PROVE  Spec => []WithinCeiling
<1> DEFINE Inv == TypeOK /\ WithinCeiling
<1> USE DEF LedgerConstants, TypeOK, WithinCeiling
<1>1. Init => Inv
  BY DEF Init
<1>2. Inv /\ [Next]_vars => Inv'
  <2> SUFFICES ASSUME Inv, [Next]_vars PROVE Inv'
    OBVIOUS
  <2>1. ASSUME NEW k \in Keys, Reserve(k) PROVE Inv'
    BY <2>1 DEF Reserve
  <2>2. ASSUME NEW k \in Keys, Settle(k) PROVE Inv'
    BY <2>2 DEF Settle, GivesBack
  <2>3. ASSUME NEW k \in Keys, Release(k) PROVE Inv'
    BY <2>3 DEF Release, GivesBack
  <2>4. CASE UNCHANGED vars
    BY <2>4 DEF vars
  <2> QED
    BY <2>1, <2>2, <2>3, <2>4 DEF Next
<1>3. Inv => WithinCeiling
  OBVIOUS
<1> QED
  BY <1>1, <1>2, <1>3, PTL DEF Spec
=============================================================================
