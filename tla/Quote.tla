-------------------------------- MODULE Quote --------------------------------
(***************************************************************************)
(* One task from its submission to the client's answer: the pipeline that  *)
(* classifies, plans and criticises it (runWorkEngine of                   *)
(* src/lib/ai-work-engine/index.ts, on the operations of AiOperations),    *)
(* the operators who edit its plan (server/actions/admin-plan.ts) and      *)
(* approve its price (admin.ts), and the client (client-tasks.ts).         *)
(*                                                                         *)
(* The pipeline runs after the response to submitTask.  ai-operations.ts   *)
(* is written for a trigger delivered twice and a process that dies, so    *)
(* there are several invocations, of which any may die anywhere.  A plan   *)
(* version is its number, a suggestion the version it was computed from.   *)
(***************************************************************************)
EXTENDS AiOperations

CONSTANTS
  Invocations,   \* of runWorkEngine for this task
  MaxVersions,   \* bound on the plan's versions
  Prices

ASSUME QuoteAssumption ==
  /\ Stages = {"classify", "plan", "critique"}
  /\ MaxVersions \in Nat \ {0}

VARIABLES
  engine,      \* where each invocation is
  head,        \* the latest TaskExecutionPlanVersion, 0 without one
  suggestion,  \* the version the task's aiXxx columns describe, 0 if empty
  editing,     \* versions that an edit in flight was read against
  status,      \* of the task; submitted and pricing_review are "pricing"
  quote,       \* clientPriceCents and quotedPlanVersionId
  shown,       \* the quote as the client last saw it
  contract     \* TaskAcceptanceSnapshot

planVars  == <<head, suggestion>>
quoteVars == <<status, quote, shown, contract>>
vars == <<opVars, engine, planVars, editing, quoteVars>>

Versions == 0..MaxVersions
NoQuote  == [plan |-> 0, price |-> 0]
Quotes   == [plan : Versions, price : Prices \cup {0}]

\* An invocation whose call has been answered and not yet recorded.
Holding == {"usable", "unusable", "superseded"}
Over    == {"done", "lost"}

Engine ==
  [at : Holding \cup Over \cup {"idle", "enter", "claim", "calling", "silent", "publish"},
   stage : Stages, attempt : 0..MaxAttempts]

TypeOK ==
  /\ OperationsTypeOK
  /\ engine \in [Invocations -> Engine]
  /\ head \in Versions /\ suggestion \in Versions
  /\ editing \subseteq Versions
  /\ status \in {"pricing", "quoted", "accepted", "declined", "expired", "cancelled"}
  /\ {quote, shown, contract} \subseteq Quotes

\* submitTask.
Init ==
  /\ OperationsInit
  /\ engine = [i \in Invocations |-> [at |-> "idle", stage |-> "classify", attempt |-> 0]]
  /\ head = 0 /\ suggestion = 0
  /\ editing = {}
  /\ status = "pricing"
  /\ quote = NoQuote /\ shown = NoQuote /\ contract = NoQuote

-----------------------------------------------------------------------------
(* The pipeline.                                                           *)

CallOf(i) == <<engine[i].stage, engine[i].attempt>>

Goes(i, to) == engine' = [engine EXCEPT ![i].at = to]
Enters(i, s) == engine' = [engine EXCEPT ![i].at = "enter", ![i].stage = s]

\* A stage that gave nothing ends the invocation; the critique is optional.
GoesOn(i) == Goes(i, IF engine[i].stage = "critique" THEN "publish" ELSE "done")

\* "A plan on record means the pipeline finished."
Start(i) ==
  /\ engine[i].at = "idle"
  /\ Goes(i, IF head = 0 THEN "enter" ELSE "done")
  /\ UNCHANGED <<opVars, planVars, editing, quoteVars>>

\* It reserves the stage.  A classification on record is used again.
EnterStage(i) ==
  LET s == engine[i].stage IN
  /\ engine[i].at = "enter"
  /\ ReserveAiOperation(s)
  /\ IF s = "classify" /\ op[s].status = "succeeded"
       THEN Enters(i, "plan")
       ELSE Goes(i, "claim")
  /\ UNCHANGED <<answered, usage, result, planVars, editing, quoteVars>>

Claim(i) ==
  LET s == engine[i].stage IN
  /\ engine[i].at = "claim"
  /\ ClaimAiOperation(s)
  /\ engine' = [engine EXCEPT ![i].at = "calling", ![i].attempt = op[s].attempts + 1]
  /\ UNCHANGED <<answered, usage, result, planVars, editing, quoteVars>>

TurnedAway(i) ==
  /\ engine[i].at = "claim"
  /\ ClaimRefused(engine[i].stage)
  /\ GoesOn(i)
  /\ UNCHANGED <<opVars, planVars, editing, quoteVars>>

\* The model answers, usefully or not, and bills.
Answers(i) ==
  /\ engine[i].at = "calling"
  /\ answered' = answered \cup {CallOf(i)}
  /\ \E out \in {"usable", "unusable"} : Goes(i, out)
  /\ UNCHANGED <<op, usage, result, planVars, editing, quoteVars>>

\* The call throws.  Whether it was billed, nobody can tell.
CallThrows(i) ==
  /\ engine[i].at = "calling"
  /\ Goes(i, "silent")
  /\ UNCHANGED <<opVars, planVars, editing, quoteVars>>

\* The plan is created as version 1 in the transaction that succeeds.  Only a
\* plan that looks risky is criticised (shouldCritique).
Succeeds(i) ==
  LET s == engine[i].stage IN
  /\ engine[i].at = "usable"
  /\ SucceedAiOperation(CallOf(i))
  /\ head' = IF s = "plan" THEN 1 ELSE head
  /\ CASE s = "classify" -> Enters(i, "plan")
       [] s = "plan"     -> Enters(i, "critique") \/ Goes(i, "publish")
       [] s = "critique" -> Goes(i, "publish")
  /\ UNCHANGED <<suggestion, editing, quoteVars>>

Fails(i) ==
  /\ engine[i].at \in {"unusable", "silent"}
  /\ FailAiOperation(CallOf(i), engine[i].at = "unusable")
  /\ GoesOn(i)
  /\ UNCHANGED <<planVars, editing, quoteVars>>

\* The fence refused: SupersededOperationError rolls everything back.
IsSuperseded(i) ==
  /\ engine[i].at \in {"usable", "unusable", "silent"}
  /\ ~Owns(CallOf(i))
  /\ IF engine[i].at = "silent" THEN GoesOn(i) ELSE Goes(i, "superseded")
  /\ UNCHANGED <<opVars, planVars, editing, quoteVars>>

RecordsItsCall(i) ==
  /\ engine[i].at = "superseded"
  /\ RecordSupersededUsage(CallOf(i))
  /\ GoesOn(i)
  /\ UNCHANGED <<planVars, editing, quoteVars>>

\* The last write: the suggestion of version 1, whatever the task is by now.
Publish(i) ==
  /\ engine[i].at = "publish"
  /\ suggestion' = 1
  /\ Goes(i, "done")
  /\ UNCHANGED <<opVars, head, editing, quoteVars>>

Dies(i) ==
  /\ engine[i].at \notin Over \cup {"idle"}
  /\ Goes(i, IF engine[i].at \in Holding THEN "lost" ELSE "done")
  /\ UNCHANGED <<opVars, planVars, editing, quoteVars>>

-----------------------------------------------------------------------------
(* Operators.                                                              *)

\* editPlanVersion: the task is still unpriced and the form's version is the head.
EditReads(v) ==
  /\ status = "pricing" /\ v = head /\ v # 0 /\ head < MaxVersions
  /\ editing' = editing \cup {v}
  /\ UNCHANGED <<opVars, engine, planVars, quoteVars>>

\* Mutant: the read is trusted when the edit is written.
EditCommitsUnasked(v) ==
  /\ v \in editing /\ head = v
  /\ head' = v + 1 /\ suggestion' = v + 1
  /\ editing' = editing \ {v}
  /\ UNCHANGED <<opVars, engine, quoteVars>>

\* It writes: version v + 1 is new, and the task is asked again.
EditCommits(v) ==
  /\ v \in editing /\ head = v /\ status = "pricing"
  /\ head' = v + 1 /\ suggestion' = v + 1
  /\ editing' = editing \ {v}
  /\ UNCHANGED <<opVars, engine, quoteVars>>

EditRollsBack(v) ==
  /\ v \in editing /\ (head # v \/ status # "pricing")
  /\ editing' = editing \ {v}
  /\ UNCHANGED <<opVars, engine, planVars, quoteVars>>

\* Mutant: an approval sent twice replaces the price.
ApproveAgain(v, price) ==
  /\ status \in {"pricing", "quoted"}
  /\ status' = "quoted"
  /\ quote' = [plan |-> v, price |-> price]
  /\ UNCHANGED <<opVars, engine, planVars, editing, shown, contract>>

\* approvePricing, from a form that may be older than the plan.
ApprovePricing(v, price) ==
  /\ status = "pricing"
  /\ status' = "quoted"
  /\ quote' = [plan |-> v, price |-> price]
  /\ UNCHANGED <<opVars, engine, planVars, editing, shown, contract>>

CancelTask ==
  /\ status \in {"pricing", "quoted", "accepted", "expired"}
  /\ status' = "cancelled"
  /\ UNCHANGED <<opVars, engine, planVars, editing, quote, shown, contract>>

-----------------------------------------------------------------------------
(* The client.                                                             *)

ClientLooks ==
  /\ status = "quoted"
  /\ shown' = quote
  /\ UNCHANGED <<opVars, engine, planVars, editing, status, quote, contract>>

\* acceptQuote copies the task as it is in the transaction, not as it was seen.
AcceptQuote ==
  /\ status = "quoted" /\ shown # NoQuote
  /\ status' = "accepted"
  /\ contract' = quote
  /\ UNCHANGED <<opVars, engine, planVars, editing, quote, shown>>

DeclineQuote ==
  /\ status = "quoted" /\ shown # NoQuote
  /\ status' = "declined"
  /\ UNCHANGED <<opVars, engine, planVars, editing, quote, shown, contract>>

\* expireStaleQuotes: the sweep, or the client's own request.
ExpireQuote ==
  /\ status = "quoted"
  /\ status' = "expired"
  /\ UNCHANGED <<opVars, engine, planVars, editing, quote, shown, contract>>

-----------------------------------------------------------------------------
Invocation(i) ==
  \/ Start(i) \/ EnterStage(i) \/ Claim(i) \/ TurnedAway(i)
  \/ Answers(i) \/ CallThrows(i) \/ Succeeds(i) \/ Fails(i)
  \/ IsSuperseded(i) \/ RecordsItsCall(i) \/ Publish(i) \/ Dies(i)

Edit(v) == EditReads(v) \/ EditCommits(v) \/ EditRollsBack(v)

Next ==
  \/ \E i \in Invocations : Invocation(i)
  \/ \E v \in Versions : Edit(v)
  \/ \E v \in 0..head, price \in Prices : ApprovePricing(v, price)
  \/ CancelTask \/ ClientLooks \/ AcceptQuote \/ DeclineQuote \/ ExpireQuote

Spec == Init /\ [][Next]_vars

-----------------------------------------------------------------------------
(* Properties.                                                             *)

Unrecorded == {CallOf(i) : i \in {i \in Invocations : engine[i].at \in Holding \cup {"lost"}}}

\* Every call the provider answered is on the books once; the only ones that
\* are not are still in somebody's hands, or died with them
\* (succeedAiOperation, failAiOperation, recordSupersededUsage).
BilledOnce == usage \subseteq answered /\ answered \ usage = Unrecorded

\* A stage's answer is stored once.  What the plan was made from, the price was
\* computed from and the critique was written about is never replaced by an
\* invocation that lost its lease (the fence of succeedAiOperation).
ResultStays == [][\A s \in Stages : result[s] # 0 => result'[s] = result[s]]_result

\* A plan is asked of a classification, a critique of a plan.
StageOrder == {<<"classify", "plan">>, <<"plan", "critique">>}

\* The pipeline as a client of the provider: a stage is asked only while it has
\* no answer and the stage before it has one, at most MaxAttempts times; no
\* answer is billed twice, and the one that is kept is billed as it is kept
\* (claimAiOperation, succeedAiOperation, runWorkEngine).
Provider == INSTANCE MeteredAnswers WITH
  Questions <- Stages,
  Tries     <- Attempts,
  Order     <- StageOrder,
  asked     <- {c \in Calls : c[2] <= op[c[1]].attempts},
  billed    <- usage,
  kept      <- result

\* Whatever is claimed twice, superseded or dead, the pipeline asks, bills and
\* keeps answers as MeteredAnswers says (ai-operations.ts).
AnswersAreMetered == Provider!Spec

\* "The plan behind a live quote is locked": once the task has left pricing,
\* no version is put on top of the plan it left with (editPlanVersion).
PlanLockedUnderQuote == [][status # "pricing" /\ head # 0 => head' = head]_vars

\* A client who accepts is bound to the price and plan the page showed
\* (approvePricing, acceptQuote).
ContractIsTheQuote == status = "accepted" => contract = shown
=============================================================================
