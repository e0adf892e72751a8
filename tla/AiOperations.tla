---------------------------- MODULE AiOperations ----------------------------
(***************************************************************************)
(* The durable operations in front of the model calls of the quote         *)
(* pipeline: reserve, claim under a lease, close fenced on the claim       *)
(* (src/server/ai-operations.ts).  One operation per stage of the          *)
(* pipeline: its key is made of the task, the run and the stage.           *)
(*                                                                         *)
(* Time is not modelled: five minutes of lease, or a backoff, may pass     *)
(* between any two steps, so a claim may find any unfinished operation     *)
(* free.  Whether it was free is all the claimer learns.                   *)
(***************************************************************************)
EXTENDS Integers

CONSTANTS
  Stages,
  MaxAttempts   \* MAX_ATTEMPTS

ASSUME OperationsAssumption == MaxAttempts \in Nat \ {0}

VARIABLES
  op,        \* the AiOperation row of each stage
  answered,  \* calls the provider answered, and bills
  usage,     \* calls with an AiUsage row
  result     \* the attempt whose result is stored, 0 without one

opVars == <<op, answered, usage, result>>

Attempts == 1..MaxAttempts
Calls    == Stages \X Attempts

\* The row; lockedBy is the attempt its random token was drawn for, 0 is null.
Operation ==
  [status   : {"none", "reserved", "running", "failed", "succeeded"},
   attempts : 0..MaxAttempts,
   lockedBy : 0..MaxAttempts]

OperationsTypeOK ==
  /\ op \in [Stages -> Operation]
  /\ answered \subseteq Calls
  /\ usage \subseteq Calls
  /\ result \in [Stages -> 0..MaxAttempts]

OperationsInit ==
  /\ op = [s \in Stages |-> [status |-> "none", attempts |-> 0, lockedBy |-> 0]]
  /\ answered = {} /\ usage = {}
  /\ result = [s \in Stages |-> 0]

-----------------------------------------------------------------------------
\* reserveAiOperation: an upsert that never updates.
ReserveAiOperation(s) ==
  op' = IF op[s].status = "none" THEN [op EXCEPT ![s].status = "reserved"] ELSE op

\* Mutant: the limit off by one.
ClaimableOnceMore(s) ==
  /\ op[s].attempts <= MaxAttempts
  /\ op[s].status \in {"reserved", "failed", "running"}

\* Mutant: the limit is all that is asked.
ClaimableWhenDone(s) ==
  /\ op[s].attempts < MaxAttempts
  /\ op[s].status # "none"

\* A claim may succeed: reserved, failed and backed off, or its lease ran out.
Claimable(s) ==
  /\ op[s].attempts < MaxAttempts
  /\ op[s].status \in {"reserved", "failed", "running"}

\* claimAiOperation, and the row it reads back.
ClaimAiOperation(s) ==
  /\ Claimable(s)
  /\ op' = [op EXCEPT ![s] = [status   |-> "running",
                              attempts |-> @.attempts + 1,
                              lockedBy |-> @.attempts + 1]]

\* It is refused: finished, exhausted, leased, or waiting for its backoff.
\* Only a reserved operation is never refused.
ClaimRefused(s) == op[s].status # "reserved"

\* Mutant: a late invocation closes the operation over its successor.
OwnsByKey(c) == op[c[1]].status # "none"

\* The fence of every closing write.
Owns(c) == op[c[1]].lockedBy = c[2]

Closed(s, to) == [op EXCEPT ![s].status = to, ![s].lockedBy = 0]

\* succeedAiOperation: status, usage and result commit together.
SucceedAiOperation(c) ==
  /\ Owns(c)
  /\ op' = Closed(c[1], "succeeded")
  /\ usage' = usage \cup {c}
  /\ result' = [result EXCEPT ![c[1]] = c[2]]
  /\ UNCHANGED answered

\* failAiOperation; a call that threw has no usage to write.
FailAiOperation(c, billed) ==
  /\ Owns(c)
  /\ op' = Closed(c[1], "failed")
  /\ usage' = IF billed THEN usage \cup {c} ELSE usage
  /\ UNCHANGED <<answered, result>>

\* Mutant: losing the lease loses the bill too.
ForgetsUsage(c) == UNCHANGED opVars

\* recordSupersededUsage: the money, and nothing else.
RecordSupersededUsage(c) ==
  /\ usage' = usage \cup {c}
  /\ UNCHANGED <<op, answered, result>>
=============================================================================
