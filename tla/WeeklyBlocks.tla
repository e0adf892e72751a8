---------------------------- MODULE WeeklyBlocks -----------------------------
(***************************************************************************)
(* What a standing client gets: a block of minutes every week, sold in the *)
(* week it is.  What is withdrawn comes back to the week it is, and a week *)
(* that is over is not written again; but once a week, a withdrawal of     *)
(* what an earlier week was sold for frees as many minutes of this one.    *)
(* The account of src/server/actions/standing-capacity.ts implements this. *)
(***************************************************************************)
EXTENDS Integers

CONSTANTS
  Weeks,   \* starts of weeks
  Block    \* minutes a week

VARIABLES
  week,    \* the one minutes are sold from
  sold,    \* minutes of each week sold and not withdrawn
  extra    \* minutes each week may sell beyond its block

vars == <<week, sold, extra>>

Init ==
  /\ week = 0
  /\ sold = [w \in Weeks |-> 0]
  /\ extra = [w \in Weeks |-> 0]

OnlyTouches(w) == \A v \in Weeks \ {w} : sold'[v] = sold[v]

\* The first sale of a week may be what opens it.
Sell ==
  /\ week' \in {w \in Weeks : w >= week}
  /\ sold'[week'] \in (sold[week'] + 1)..(Block + extra[week'])
  /\ OnlyTouches(week')
  /\ UNCHANGED extra

Credit ==
  /\ sold'[week] \in 0..(sold[week] - 1)
  /\ OnlyTouches(week)
  /\ UNCHANGED <<week, extra>>

\* A task whose submission ran from an earlier week into this one.
LateCredit ==
  /\ extra[week] = 0
  /\ \E w \in {w \in Weeks : w < week} :
       /\ sold'[w] \in 0..(sold[w] - 1)
       /\ OnlyTouches(w)
       /\ extra' = [extra EXCEPT ![week] = sold[w] - sold'[w]]
  /\ UNCHANGED week

MovesOn ==
  /\ week' \in {w \in Weeks : w > week}
  /\ UNCHANGED <<sold, extra>>

Next == Sell \/ Credit \/ LateCredit \/ MovesOn

Spec == Init /\ [][Next]_vars
=============================================================================
