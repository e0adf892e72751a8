--------------------------- MODULE MeteredAnswers ---------------------------
(***************************************************************************)
(* Questions put to a provider that bills each answer.  A question is      *)
(* asked while it has no answer and all it depends on has one; it may be   *)
(* asked again, since nobody knows what became of the last call.  Each     *)
(* answer is billed once, and one answer of each question is kept.  Quote  *)
(* implements this with operations, leases and fences.                     *)
(***************************************************************************)
EXTENDS Integers

CONSTANTS
  Questions,
  Tries,      \* how often a question may be asked; 0 is no try
  Order       \* pairs: the first is answered before the second is asked

VARIABLES
  asked,      \* calls, each a question and a try
  answered,   \* of those, the ones the provider answered
  billed,     \* of those, the ones on the books
  kept        \* the try whose answer is kept, 0 without one

vars == <<asked, answered, billed, kept>>

Init ==
  /\ asked = {} /\ answered = {} /\ billed = {}
  /\ kept = [q \in Questions |-> 0]

Ask(q, n) ==
  /\ kept[q] = 0
  /\ \A p \in Questions : <<p, q>> \in Order => kept[p] # 0
  /\ <<q, n>> \notin asked
  /\ asked' = asked \cup {<<q, n>>}
  /\ UNCHANGED <<answered, billed, kept>>

Answer(q, n) ==
  /\ <<q, n>> \in asked \ answered
  /\ answered' = answered \cup {<<q, n>>}
  /\ UNCHANGED <<asked, billed, kept>>

Bill(q, n) ==
  /\ <<q, n>> \in answered \ billed
  /\ billed' = billed \cup {<<q, n>>}
  /\ \/ UNCHANGED kept
     \/ kept[q] = 0 /\ kept' = [kept EXCEPT ![q] = n]
  /\ UNCHANGED <<asked, answered>>

Next == \E q \in Questions, n \in Tries : Ask(q, n) \/ Answer(q, n) \/ Bill(q, n)

Spec == Init /\ [][Next]_vars

(* What is kept was answered and is on the books, and nothing was asked    *)
(* before what it depends on was answered.                                 *)
Accounted ==
  /\ billed \subseteq answered /\ answered \subseteq asked
  /\ \A q \in Questions : kept[q] # 0 => <<q, kept[q]>> \in billed
  /\ \A p, q \in Questions, n \in Tries :
       <<p, q>> \in Order /\ <<q, n>> \in asked => kept[p] # 0
=============================================================================
