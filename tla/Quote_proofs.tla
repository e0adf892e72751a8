----------------------------- MODULE Quote_proofs -----------------------------
(***************************************************************************)
(* What Quote's run checks on three invocations, for any number of them,   *)
(* any attempt limit and any prices.  Inv is the inductive invariant: two  *)
(* invocations never share a call (CallsInv), an operation that can be     *)
(* closed has no result yet (ClosingInv), a plan has only one engine       *)
(* version (PlanInv), and what the client saw is the quote (AnswerInv).    *)
(***************************************************************************)
EXTENDS Quote, TLAPS

\* Where an invocation has made a call.
Called     == Holding \cup {"calling", "silent", "lost"}
Unanswered == {"calling", "silent"}

CallsInv ==
  /\ \A i \in Invocations :
       engine[i].at \in Called => engine[i].attempt \in 1..op[engine[i].stage].attempts
  /\ \A i, j \in Invocations :
       engine[i].at \in Called /\ engine[j].at \in Called /\ i # j => CallOf(i) # CallOf(j)
  /\ \A c \in answered : c[2] <= op[c[1]].attempts
  /\ \A i \in Invocations : engine[i].at \in Unanswered => CallOf(i) \notin answered

ClosingInv ==
  \A s \in Stages :
    /\ op[s].lockedBy # 0 => op[s].status = "running"
    /\ result[s] # 0 => op[s].status = "succeeded"

PlanInv ==
  /\ head # 0 => result["plan"] # 0
  /\ editing \subseteq 1..(MaxVersions - 1)

AnswerInv ==
  /\ ContractIsTheQuote
  /\ status = "quoted" /\ shown # NoQuote => shown = quote
  /\ status = "pricing" => shown = NoQuote

Inv == TypeOK /\ CallsInv /\ ClosingInv /\ PlanInv /\ AnswerInv /\ BilledOnce

\* The people: operators and the client.
Desk ==
  \/ \E v \in Versions : Edit(v)
  \/ \E v \in 0..head, price \in Prices : ApprovePricing(v, price)
  \/ CancelTask \/ ClientLooks \/ AcceptQuote \/ DeclineQuote \/ ExpireQuote

\* The pipeline and the people write different things.
LEMMA DeskFrame == Desk => UNCHANGED <<opVars, engine>>
  BY DEF Desk, Edit, EditReads, EditCommits, EditRollsBack, ApprovePricing, CancelTask,
     ClientLooks, AcceptQuote, DeclineQuote, ExpireQuote

LEMMA PipelineFrame ==
  ASSUME NEW i \in Invocations, Invocation(i)
  PROVE  UNCHANGED <<editing, quoteVars>>
  BY DEF Invocation, Start, EnterStage, Claim, TurnedAway, Answers, CallThrows, Succeeds, Fails,
     IsSuperseded, RecordsItsCall, Publish, Dies

-----------------------------------------------------------------------------
(* Types.                                                                  *)

LEMMA InitInv == Init => Inv
<1> SUFFICES ASSUME Init PROVE Inv
  OBVIOUS
<1> USE DEF Init, OperationsInit
<1>1. TypeOK
  BY QuoteAssumption, OperationsAssumption
     DEF TypeOK, OperationsTypeOK, Operation, Engine, Versions, Quotes, NoQuote, Holding, Over
<1>2. CallsInv /\ BilledOnce
  BY DEF CallsInv, BilledOnce, Called, Unanswered, Unrecorded, Holding
<1>3. ClosingInv /\ PlanInv /\ AnswerInv
  BY DEF ClosingInv, PlanInv, AnswerInv, ContractIsTheQuote
<1> QED
  BY <1>1, <1>2, <1>3 DEF Inv

\* One invocation moves at a time, to a place there is.
LEMMA Moves ==
  ASSUME Inv, NEW i \in Invocations, Invocation(i)
  PROVE  \E e \in Engine : engine' = [engine EXCEPT ![i] = e]
<1>. DEFINE At == Holding \cup Over \cup {"idle", "enter", "claim", "calling", "silent", "publish"}
<1>1. engine \in [Invocations -> Engine] /\ op[engine[i].stage] \in Operation
  BY DEF Inv, TypeOK, OperationsTypeOK, Engine
<1>2. ASSUME NEW to \in At, Goes(i, to)
      PROVE  \E e \in Engine : engine' = [engine EXCEPT ![i] = e]
  <2>1. [engine[i] EXCEPT !.at = to] \in Engine
    BY <1>1 DEF Engine
  <2> QED
    BY <1>1, <1>2, <2>1 DEF Goes
<1>3. ASSUME NEW t \in Stages, Enters(i, t)
      PROVE  \E e \in Engine : engine' = [engine EXCEPT ![i] = e]
  <2>1. [engine[i] EXCEPT !.at = "enter", !.stage = t] \in Engine
    BY <1>1 DEF Engine
  <2> QED
    BY <1>1, <1>3, <2>1 DEF Enters
<1>4. CASE Claim(i)
  <2>. DEFINE e == [engine[i] EXCEPT !.at = "calling", !.attempt = op[engine[i].stage].attempts + 1]
  <2>1. e \in Engine
    <3>1. op[engine[i].stage].attempts + 1 \in 0..MaxAttempts
      BY <1>1, <1>4, OperationsAssumption DEF Claim, ClaimAiOperation, Claimable, Operation
    <3>2. engine[i] \in Engine
      BY <1>1
    <3> QED
      BY <3>1, <3>2 DEF Engine
  <2>2. engine' = [engine EXCEPT ![i] = e]
    BY <1>1, <1>4 DEF Claim
  <2> QED
    BY <2>1, <2>2
<1>5. CASE Start(i) \/ EnterStage(i) \/ TurnedAway(i) \/ Answers(i) \/ CallThrows(i) \/ Fails(i)
  BY <1>2, <1>3, <1>5, QuoteAssumption
     DEF Start, EnterStage, TurnedAway, Answers, CallThrows, Fails, GoesOn, Holding, Over
<1>6. CASE Succeeds(i)
  <2>1. engine[i].stage \in Stages
    BY <1>1 DEF Engine
  <2> QED
    BY <1>2, <1>3, <1>6, <2>1, QuoteAssumption DEF Succeeds
<1>7. CASE IsSuperseded(i) \/ RecordsItsCall(i) \/ Publish(i) \/ Dies(i)
  BY <1>2, <1>7 DEF IsSuperseded, RecordsItsCall, Publish, Dies, GoesOn, Holding, Over
<1> QED
  BY <1>4, <1>5, <1>6, <1>7 DEF Invocation

\* Who has made a call has one to speak of.
LEMMA CallOfCalled ==
  ASSUME Inv, NEW i \in Invocations, engine[i].at \in Called
  PROVE  /\ engine[i].stage \in Stages /\ engine[i].attempt \in Attempts
         /\ CallOf(i) \in Calls
<1>1. engine[i].stage \in Stages
  BY DEF Inv, TypeOK, Engine
<1>2. op[engine[i].stage].attempts \in 0..MaxAttempts
  BY <1>1 DEF Inv, TypeOK, OperationsTypeOK, Operation
<1>3. engine[i].attempt \in 1..op[engine[i].stage].attempts
  BY DEF Inv, CallsInv
<1>4. engine[i].attempt \in Attempts
  BY <1>2, <1>3, OperationsAssumption DEF Attempts
<1> QED
  BY <1>1, <1>4 DEF CallOf, Calls

LEMMA PipelineTypeStep ==
  ASSUME Inv, NEW i \in Invocations, Invocation(i)
  PROVE  TypeOK'
<1>. DEFINE s == engine[i].stage
           c == CallOf(i)
<1>1. TypeOK /\ CallsInv
  BY DEF Inv
<1>2. s \in Stages /\ engine[i] \in Engine /\ op[s] \in Operation
  BY <1>1 DEF TypeOK, OperationsTypeOK, Engine
<1>3. UNCHANGED <<editing, quoteVars>>
  BY PipelineFrame
<1>4. OperationsTypeOK'
  <2>1. engine[i].at \in Called => c \in Calls
    BY CallOfCalled
  <2>2. ASSUME UNCHANGED opVars PROVE OperationsTypeOK'
    BY <2>2, <1>1 DEF TypeOK, OperationsTypeOK, opVars
  <2>3. CASE EnterStage(i)
    <3>1. [op[s] EXCEPT !.status = "reserved"] \in Operation
      BY <1>2 DEF Operation
    <3>2. op' = op \/ op' = [op EXCEPT ![s] = [op[s] EXCEPT !.status = "reserved"]]
      BY <2>3, <1>1 DEF EnterStage, ReserveAiOperation, TypeOK, OperationsTypeOK
    <3> QED
      BY <2>3, <1>1, <3>1, <3>2 DEF EnterStage, TypeOK, OperationsTypeOK
  <2>4. CASE Claim(i)
    <3>. DEFINE n == op[s].attempts + 1
    <3>1. n \in 0..MaxAttempts
      BY <2>4, <1>2, OperationsAssumption DEF Claim, ClaimAiOperation, Claimable, Operation
    <3>2. [status |-> "running", attempts |-> n, lockedBy |-> n] \in Operation
      BY <3>1 DEF Operation
    <3>3. op' = [op EXCEPT ![s] = [status |-> "running", attempts |-> n, lockedBy |-> n]]
      BY <2>4, <1>1 DEF Claim, ClaimAiOperation, TypeOK, OperationsTypeOK
    <3> QED
      BY <2>4, <1>1, <3>2, <3>3 DEF Claim, TypeOK, OperationsTypeOK
  <2>5. CASE Answers(i)
    BY <2>5, <2>1, <1>1 DEF Answers, TypeOK, OperationsTypeOK, Called
  <2>6. CASE Succeeds(i)
    BY <2>6, <2>1, <1>1, <1>2
       DEF Succeeds, SucceedAiOperation, Closed, TypeOK, OperationsTypeOK, Operation, Called,
           Holding, Calls, Attempts, CallOf, Engine
  <2>7. CASE Fails(i)
    BY <2>7, <2>1, <1>1, <1>2
       DEF Fails, FailAiOperation, Closed, TypeOK, OperationsTypeOK, Operation, Called,
           Holding, CallOf
  <2>8. CASE RecordsItsCall(i)
    BY <2>8, <2>1, <1>1
       DEF RecordsItsCall, RecordSupersededUsage, TypeOK, OperationsTypeOK, Called, Holding
  <2> QED
    BY <2>2, <2>3, <2>4, <2>5, <2>6, <2>7, <2>8
       DEF Invocation, Start, TurnedAway, CallThrows, IsSuperseded, Publish, Dies
<1>5. engine' \in [Invocations -> Engine]
  BY Moves, <1>1 DEF TypeOK
<1>6. head' \in Versions /\ suggestion' \in Versions
  <2>1. 1 \in Versions /\ head \in Versions /\ suggestion \in Versions
    BY <1>1, QuoteAssumption DEF Versions, TypeOK
  <2>2. CASE Succeeds(i)
    BY <2>1, <2>2 DEF Succeeds
  <2>3. CASE Publish(i)
    BY <2>1, <2>3 DEF Publish
  <2>4. CASE UNCHANGED planVars
    BY <2>1, <2>4 DEF planVars
  <2> QED
    BY <2>2, <2>3, <2>4
       DEF Invocation, Start, EnterStage, Claim, TurnedAway, Answers, CallThrows, Fails,
           IsSuperseded, RecordsItsCall, Dies
<1> QED
  BY <1>1, <1>3, <1>4, <1>5, <1>6 DEF TypeOK, quoteVars

LEMMA DeskTypeStep == Inv /\ Desk => TypeOK'
<1> SUFFICES ASSUME Inv, Desk PROVE TypeOK'
  OBVIOUS
<1>1. OperationsTypeOK' /\ engine' \in [Invocations -> Engine]
  BY DeskFrame DEF Inv, TypeOK, OperationsTypeOK, opVars
<1>2. \A v \in editing : v + 1 \in Versions
  BY QuoteAssumption DEF Inv, PlanInv, Versions
<1>3. TypeOK
  BY DEF Inv
<1>4. CASE \E v \in Versions : Edit(v)
  BY <1>1, <1>2, <1>3, <1>4
     DEF Edit, EditReads, EditCommits, EditRollsBack, TypeOK, planVars, quoteVars
<1>5. CASE \E v \in 0..head, price \in Prices : ApprovePricing(v, price)
  <2>1. PICK v \in 0..head, price \in Prices : ApprovePricing(v, price)
    BY <1>5
  <2>2. [plan |-> v, price |-> price] \in Quotes
    BY <1>3, QuoteAssumption DEF Quotes, Versions, TypeOK
  <2> QED
    BY <1>1, <1>3, <2>1, <2>2 DEF ApprovePricing, TypeOK, planVars
<1>6. CASE CancelTask \/ ClientLooks \/ AcceptQuote \/ DeclineQuote \/ ExpireQuote
  BY <1>1, <1>3, <1>6
     DEF CancelTask, ClientLooks, AcceptQuote, DeclineQuote, ExpireQuote, TypeOK, planVars
<1> QED
  BY <1>4, <1>5, <1>6 DEF Desk

-----------------------------------------------------------------------------
(* Calls.                                                                  *)

\* Attempts are only added.
LEMMA AttemptsGrow ==
  ASSUME Inv, NEW i \in Invocations, Invocation(i), NEW s \in Stages
  PROVE  /\ op[s].attempts \in Nat /\ op'[s].attempts \in Nat
         /\ op'[s].attempts = op[s].attempts \/ (Claim(i) /\ op'[s].attempts = op[s].attempts + 1)
<1>1. op \in [Stages -> Operation] /\ \A t \in Stages : op[t].attempts \in Nat
  BY OperationsAssumption DEF Inv, TypeOK, OperationsTypeOK, Operation
<1>2. CASE Claim(i)
  BY <1>1, <1>2 DEF Claim, ClaimAiOperation
<1>3. CASE EnterStage(i)
  BY <1>1, <1>3 DEF EnterStage, ReserveAiOperation
<1>4. CASE Succeeds(i) \/ Fails(i)
  <2>1. ASSUME NEW t, NEW to PROVE Closed(t, to)[s].attempts = op[s].attempts
    BY <1>1 DEF Closed, Operation
  <2>2. \E t, to : op' = Closed(t, to)
    BY <1>4, Zenon DEF Succeeds, Fails, SucceedAiOperation, FailAiOperation
  <2>3. op'[s].attempts = op[s].attempts
    BY <2>1, <2>2
  <2> QED
    BY <1>1, <2>3
<1>5. CASE op' = op
  BY <1>1, <1>5
<1> QED
  BY <1>2, <1>3, <1>4, <1>5
     DEF Invocation, Start, TurnedAway, Answers, CallThrows, IsSuperseded, RecordsItsCall,
         RecordSupersededUsage, Publish, Dies, opVars

\* What each step of an invocation does to its own call.
CallStays(i) == engine'[i].at \in Called =>
  engine[i].at \in Called /\ CallOf(i)' = CallOf(i)

LEMMA CallStep ==
  ASSUME Inv, NEW i \in Invocations, Invocation(i)
  PROVE  Claim(i) \/ CallStays(i)
<1>1. engine \in [Invocations -> Engine]
  BY DEF Inv, TypeOK
<1>2. ASSUME NEW to, Goes(i, to), to \in Called => engine[i].at \in Called PROVE CallStays(i)
  BY <1>1, <1>2 DEF CallStays, CallOf, Goes
<1>3. ASSUME NEW t, Enters(i, t) PROVE CallStays(i)
  BY <1>1, <1>3 DEF CallStays, Enters, Called, Holding
<1>4. CASE Start(i) \/ TurnedAway(i) \/ Fails(i) \/ RecordsItsCall(i) \/ Publish(i)
  BY <1>2, <1>4 DEF Start, TurnedAway, Fails, RecordsItsCall, Publish, GoesOn, Called, Holding
<1>5. CASE EnterStage(i) \/ Succeeds(i)
  <2>1. engine[i].stage \in {"classify", "plan", "critique"}
    BY QuoteAssumption DEF Inv, TypeOK, Engine
  <2>2. Goes(i, "claim") \/ Goes(i, "publish") \/ Enters(i, "plan") \/ Enters(i, "critique")
    BY <1>5, <2>1 DEF EnterStage, Succeeds
  <2> QED
    BY <1>2, <1>3, <2>2 DEF Called, Holding
<1>6. CASE Answers(i) \/ CallThrows(i)
  BY <1>2, <1>6 DEF Answers, CallThrows, Called
<1>7. CASE IsSuperseded(i) \/ Dies(i)
  BY <1>2, <1>7 DEF IsSuperseded, Dies, GoesOn, Called, Holding
<1> QED
  BY <1>4, <1>5, <1>6, <1>7 DEF Invocation

LEMMA OthersStay ==
  ASSUME Inv, NEW i \in Invocations, Invocation(i), NEW j \in Invocations, j # i
  PROVE  engine'[j] = engine[j] /\ CallOf(j)' = CallOf(j)
<1>1. PICK e \in Engine : engine' = [engine EXCEPT ![i] = e]
  BY Moves
<1>2. engine'[j] = engine[j]
  BY <1>1 DEF Inv, TypeOK
<1> QED
  BY <1>2 DEF CallOf

\* A claim is for an attempt nobody has made.
LEMMA ClaimIsNew ==
  ASSUME Inv, NEW i \in Invocations, Claim(i)
  PROVE  /\ CallOf(i)' = <<engine[i].stage, op[engine[i].stage].attempts + 1>>
         /\ engine'[i].at = "calling" /\ engine'[i].stage = engine[i].stage
         /\ engine'[i].attempt = op[engine[i].stage].attempts + 1
         /\ op'[engine[i].stage].attempts = op[engine[i].stage].attempts + 1
         /\ UNCHANGED <<answered, usage, result>>
<1>1. engine \in [Invocations -> Engine] /\ op \in [Stages -> Operation] /\ engine[i].stage \in Stages
  BY DEF Inv, TypeOK, OperationsTypeOK, Engine
<1>2. engine[i] \in Engine
  BY <1>1
<1>3. engine'[i] = [engine[i] EXCEPT !.at = "calling", !.attempt = op[engine[i].stage].attempts + 1]
  BY <1>1 DEF Claim
<1>4. /\ engine'[i].at = "calling" /\ engine'[i].stage = engine[i].stage
      /\ engine'[i].attempt = op[engine[i].stage].attempts + 1
  BY <1>2, <1>3 DEF Engine
<1>5. op'[engine[i].stage].attempts = op[engine[i].stage].attempts + 1
  BY <1>1 DEF Claim, ClaimAiOperation
<1> QED
  BY <1>4, <1>5 DEF Claim, CallOf

\* What a step does to the calls and their rows.
LEMMA AnswersOrNot ==
  ASSUME Inv, NEW i \in Invocations, Invocation(i)
  PROVE  /\ answered' = answered \/ Answers(i)
         /\ engine'[i].at \in Unanswered => Claim(i) \/ CallThrows(i)
<1>1. engine \in [Invocations -> Engine]
  BY DEF Inv, TypeOK
<1>2. answered' = answered \/ Answers(i)
  BY DEF Invocation, Start, EnterStage, Claim, TurnedAway, CallThrows, Succeeds, Fails,
         IsSuperseded, RecordsItsCall, Publish, Dies, opVars, SucceedAiOperation, FailAiOperation,
         RecordSupersededUsage
<1>3. ASSUME NEW to, Goes(i, to), to \notin Unanswered PROVE engine'[i].at \notin Unanswered
  BY <1>1, <1>3 DEF Goes
<1>4. ASSUME NEW t, Enters(i, t) PROVE engine'[i].at \notin Unanswered
  BY <1>1, <1>4 DEF Enters, Unanswered
<1>5. CASE Start(i) \/ TurnedAway(i) \/ Fails(i) \/ RecordsItsCall(i) \/ Publish(i)
  BY <1>2, <1>3, <1>5 DEF Start, TurnedAway, Fails, RecordsItsCall, Publish, GoesOn, Unanswered
<1>6. CASE EnterStage(i) \/ Succeeds(i)
  <2>1. engine[i].stage \in {"classify", "plan", "critique"}
    BY QuoteAssumption DEF Inv, TypeOK, Engine
  <2>2. Goes(i, "claim") \/ Goes(i, "publish") \/ Enters(i, "plan") \/ Enters(i, "critique")
    BY <1>6, <2>1 DEF EnterStage, Succeeds
  <2> QED
    BY <1>2, <1>3, <1>4, <2>2 DEF Unanswered
<1>7. CASE Answers(i) \/ IsSuperseded(i) \/ Dies(i)
  BY <1>2, <1>3, <1>7 DEF Answers, IsSuperseded, Dies, GoesOn, Unanswered
<1> QED
  BY <1>2, <1>5, <1>6, <1>7 DEF Invocation

LEMMA CallsStep ==
  ASSUME Inv, NEW i \in Invocations, Invocation(i)
  PROVE  CallsInv'
<1>1. CallsInv /\ engine \in [Invocations -> Engine]
  BY DEF Inv, TypeOK
<1>2. \A j \in Invocations : engine[j].stage \in Stages /\ engine[j].attempt \in Nat
  BY <1>1, OperationsAssumption DEF Engine
<1>3. \A s \in Stages : op[s].attempts \in Nat /\ op'[s].attempts \in Nat /\ op[s].attempts <= op'[s].attempts
  BY AttemptsGrow
<1>4. \A c \in answered : c[1] \in Stages /\ c[2] \in Nat
  BY OperationsAssumption DEF Inv, TypeOK, OperationsTypeOK, Calls, Attempts
<1>5. ASSUME NEW j \in Invocations, engine'[j].at \in Called
      PROVE  engine'[j].attempt \in 1..op'[engine'[j].stage].attempts
  <2>1. CASE j # i
    BY <1>1, <1>2, <1>3, <1>5, <2>1, OthersStay DEF CallsInv
  <2>2. CASE j = i /\ Claim(i)
    BY <1>2, <1>3, <2>2, ClaimIsNew
  <2>3. CASE j = i /\ CallStays(i)
    <3>1. engine[i].at \in Called /\ engine'[i].stage = engine[i].stage /\ engine'[i].attempt = engine[i].attempt
      BY <1>5, <2>3 DEF CallStays, CallOf
    <3> QED
      BY <1>1, <1>2, <1>3, <2>3, <3>1 DEF CallsInv
  <2> QED
    BY <2>1, <2>2, <2>3, CallStep
<1>6. ASSUME NEW j \in Invocations, j # i, engine'[j].at \in Called, engine'[i].at \in Called
      PROVE  CallOf(j)' # CallOf(i)'
  <2>1. engine[j].at \in Called /\ CallOf(j)' = CallOf(j)
    BY <1>6, OthersStay
  <2>2. CASE Claim(i)
    <3>1. engine[j].attempt <= op[engine[j].stage].attempts
      BY <1>1, <2>1 DEF CallsInv
    <3>2. CallOf(j) = <<engine[j].stage, engine[j].attempt>>
      BY DEF CallOf
    <3> QED
      BY <1>2, <1>3, <2>1, <2>2, <3>1, <3>2, ClaimIsNew
  <2>3. CASE CallStays(i)
    BY <1>1, <1>6, <2>1, <2>3 DEF CallStays, CallsInv
  <2> QED
    BY <2>2, <2>3, CallStep
<1>7. ASSUME NEW j \in Invocations, NEW k \in Invocations, j # k,
             engine'[j].at \in Called, engine'[k].at \in Called
      PROVE  CallOf(j)' # CallOf(k)'
  <2>1. CASE j = i \/ k = i
    BY <1>6, <1>7, <2>1
  <2>2. CASE j # i /\ k # i
    BY <1>1, <1>7, <2>2, OthersStay DEF CallsInv
  <2> QED
    BY <2>1, <2>2
<1>8. ASSUME NEW c \in answered' PROVE c[2] <= op'[c[1]].attempts
  <2>1. CASE c \in answered
    BY <1>1, <1>3, <1>4, <2>1 DEF CallsInv
  <2>2. CASE c = CallOf(i) /\ Answers(i)
    <3>1. engine[i].attempt <= op[engine[i].stage].attempts
      BY <1>1, <2>2 DEF CallsInv, Answers, Called
    <3> QED
      BY <1>2, <1>3, <2>2, <3>1 DEF CallOf
  <2> QED
    BY <1>8, <2>1, <2>2, AnswersOrNot DEF Answers
<1>9. ASSUME NEW j \in Invocations, engine'[j].at \in Unanswered
      PROVE  CallOf(j)' \notin answered'
  <2>1. CASE j = i /\ Claim(i)
    <3>1. CallOf(i)'[1] = engine[i].stage /\ CallOf(i)'[2] = op[engine[i].stage].attempts + 1
      BY <2>1, ClaimIsNew
    <3>2. CallOf(i)' \notin answered
      BY <1>1, <1>2, <1>3, <3>1 DEF CallsInv
    <3> QED
      BY <2>1, <3>2, ClaimIsNew
  <2>2. CASE j = i /\ CallThrows(i)
    <3>1. engine[i].at \in Unanswered /\ answered' = answered
      BY <2>2 DEF CallThrows, Unanswered, opVars
    <3>2. CallOf(i)' = CallOf(i)
      BY <1>1, <2>2 DEF CallThrows, Goes, CallOf
    <3> QED
      BY <1>1, <2>2, <3>1, <3>2 DEF CallsInv
  <2>3. CASE j # i
    <3>1. engine[j].at \in Unanswered /\ CallOf(j)' = CallOf(j)
      BY <1>9, <2>3, OthersStay
    <3>2. CallOf(j) \notin answered
      BY <1>1, <3>1 DEF CallsInv
    <3>3. Answers(i) => CallOf(j) # CallOf(i)
      BY <1>1, <2>3, <3>1 DEF Answers, CallsInv, Called, Unanswered
    <3> QED
      BY <3>1, <3>2, <3>3, AnswersOrNot DEF Answers
  <2> QED
    BY <1>9, <2>1, <2>2, <2>3, AnswersOrNot
<1> QED
  BY <1>5, <1>7, <1>8, <1>9 DEF CallsInv

-----------------------------------------------------------------------------
(* The books.                                                              *)

Pending(i) == engine[i].at \in Holding \cup {"lost"}

LEMMA UnrecordedIs == Unrecorded = {CallOf(i) : i \in {i \in Invocations : Pending(i)}}
  BY DEF Unrecorded, Pending

\* Three things can happen to what is unrecorded.
LEMMA Kinds ==
  ASSUME Inv, NEW i \in Invocations, Invocation(i)
  PROVE  \/ /\ Answers(i) /\ Pending(i)' /\ CallOf(i)' = CallOf(i)
         \/ /\ Pending(i) /\ ~Pending(i)'
            /\ usage' = usage \cup {CallOf(i)} /\ answered' = answered
         \/ /\ Pending(i)' <=> Pending(i)
            /\ Pending(i) => CallOf(i)' = CallOf(i)
            /\ UNCHANGED <<usage, answered>>
<1>1. engine \in [Invocations -> Engine]
  BY DEF Inv, TypeOK
<1>2. ASSUME NEW to, Goes(i, to)
      PROVE  engine'[i].at = to /\ CallOf(i)' = CallOf(i)
  BY <1>1, <1>2 DEF Goes, CallOf
<1>3. ASSUME NEW t, Enters(i, t) PROVE engine'[i].at = "enter"
  BY <1>1, <1>3 DEF Enters
<1>4. CASE Start(i) \/ TurnedAway(i) \/ CallThrows(i) \/ Publish(i)
  BY <1>2, <1>4
     DEF Start, TurnedAway, CallThrows, Publish, GoesOn, Pending, Holding, opVars
<1>5. CASE EnterStage(i)
  BY <1>2, <1>3, <1>5 DEF EnterStage, Pending, Holding
<1>6. CASE Claim(i)
  BY <1>6, ClaimIsNew DEF Claim, Pending, Holding
<1>7. CASE Answers(i)
  BY <1>2, <1>7 DEF Answers, Pending, Holding
<1>8. CASE Succeeds(i)
  <2>1. engine[i].stage \in {"classify", "plan", "critique"}
    BY QuoteAssumption DEF Inv, TypeOK, Engine
  <2>2. Goes(i, "publish") \/ Enters(i, "plan") \/ Enters(i, "critique")
    BY <1>8, <2>1 DEF Succeeds
  <2> QED
    BY <1>2, <1>3, <1>8, <2>2 DEF Succeeds, SucceedAiOperation, Pending, Holding
<1>9. CASE Fails(i)
  BY <1>2, <1>9 DEF Fails, FailAiOperation, GoesOn, Pending, Holding
<1>10. CASE IsSuperseded(i)
  BY <1>2, <1>10 DEF IsSuperseded, GoesOn, Pending, Holding, opVars
<1>11. CASE RecordsItsCall(i)
  BY <1>2, <1>11 DEF RecordsItsCall, RecordSupersededUsage, GoesOn, Pending, Holding
<1>12. CASE Dies(i)
  BY <1>2, <1>12 DEF Dies, Over, Pending, Holding, opVars
<1> QED
  BY <1>4, <1>5, <1>6, <1>7, <1>8, <1>9, <1>10, <1>11, <1>12 DEF Invocation

LEMMA BilledStep ==
  ASSUME Inv, NEW i \in Invocations, Invocation(i)
  PROVE  BilledOnce'
<1>1. usage \subseteq answered /\ answered \ usage = {CallOf(j) : j \in {j \in Invocations : Pending(j)}}
  BY UnrecordedIs DEF Inv, BilledOnce
<1>2. Unrecorded' = {CallOf(j)' : j \in {j \in Invocations : Pending(j)'}}
  BY DEF Unrecorded, Pending
<1>3. \A j \in Invocations : j # i => (Pending(j)' <=> Pending(j)) /\ CallOf(j)' = CallOf(j)
  BY OthersStay DEF Pending
<1>4. CASE Answers(i) /\ Pending(i)' /\ CallOf(i)' = CallOf(i)
  <2>1. /\ answered' = answered \cup {CallOf(i)} /\ usage' = usage
        /\ CallOf(i) \notin answered /\ ~Pending(i)
    BY <1>4 DEF Answers, Inv, CallsInv, Unanswered, Pending, Holding
  <2>2. Unrecorded' = (answered \ usage) \cup {CallOf(i)}
    BY <1>1, <1>2, <1>3, <1>4, <2>1
  <2> QED
    BY <1>1, <2>1, <2>2 DEF BilledOnce
<1>5. CASE /\ Pending(i) /\ ~Pending(i)'
           /\ usage' = usage \cup {CallOf(i)} /\ answered' = answered
  <2>1. \A j \in Invocations : Pending(j) /\ j # i => CallOf(j) # CallOf(i)
    BY <1>5 DEF Inv, CallsInv, Called, Pending
  <2>2. Unrecorded' = (answered \ usage) \ {CallOf(i)}
    BY <1>1, <1>2, <1>3, <1>5, <2>1
  <2>3. CallOf(i) \in answered
    BY <1>1, <1>5
  <2> QED
    BY <1>1, <1>5, <2>2, <2>3 DEF BilledOnce
<1>6. CASE /\ Pending(i)' <=> Pending(i)
           /\ Pending(i) => CallOf(i)' = CallOf(i)
           /\ UNCHANGED <<usage, answered>>
  <2>1. Unrecorded' = answered \ usage
    BY <1>1, <1>2, <1>3, <1>6
  <2> QED
    BY <1>1, <1>6, <2>1 DEF BilledOnce
<1> QED
  BY <1>4, <1>5, <1>6, Kinds

-----------------------------------------------------------------------------
(* Results and plans.                                                      *)

\* Whoever may close an operation finds it without a result.
LEMMA OwnedHasNoResult ==
  ASSUME Inv, NEW i \in Invocations, engine[i].at \in Called, Owns(CallOf(i))
  PROVE  /\ engine[i].stage \in Stages
         /\ op[engine[i].stage].status = "running" /\ result[engine[i].stage] = 0
<1>1. engine[i].stage \in Stages /\ engine[i].attempt # 0
  BY CallOfCalled DEF Attempts
<1>2. op[engine[i].stage].lockedBy # 0
  BY <1>1 DEF Owns, CallOf
<1> QED
  BY <1>1, <1>2 DEF Inv, ClosingInv

LEMMA ResultStep ==
  ASSUME Inv, NEW i \in Invocations, Invocation(i)
  PROVE  /\ \A s \in Stages : result[s] # 0 => result'[s] = result[s]
         /\ head' # head => Succeeds(i) /\ engine[i].stage = "plan" /\ result["plan"] = 0
<1>1. CASE Succeeds(i)
  <2>1. /\ engine[i].stage \in Stages /\ result[engine[i].stage] = 0
        /\ result' = [result EXCEPT ![engine[i].stage] = engine[i].attempt]
    BY <1>1, OwnedHasNoResult DEF Succeeds, SucceedAiOperation, Called, Holding, CallOf
  <2>2. head' # head => engine[i].stage = "plan"
    BY <1>1 DEF Succeeds
  <2> QED
    BY <1>1, <2>1, <2>2 DEF Inv, TypeOK, OperationsTypeOK
<1>2. CASE ~Succeeds(i)
  BY <1>2
     DEF Invocation, Start, EnterStage, Claim, TurnedAway, Answers, CallThrows, Fails,
         IsSuperseded, RecordsItsCall, Publish, Dies, opVars, planVars, FailAiOperation,
         RecordSupersededUsage
<1> QED
  BY <1>1, <1>2

LEMMA ClosingStep ==
  ASSUME Inv, NEW i \in Invocations, Invocation(i)
  PROVE  ClosingInv'
<1>. DEFINE t == engine[i].stage
<1>1. /\ ClosingInv /\ op \in [Stages -> Operation] /\ result \in [Stages -> 0..MaxAttempts]
      /\ t \in Stages /\ op[t] \in Operation
  BY DEF Inv, TypeOK, OperationsTypeOK, Engine
<1>2. CASE EnterStage(i)
  <2>1. op' = op \/ (op[t].status = "none" /\ op' = [op EXCEPT ![t] = [op[t] EXCEPT !.status = "reserved"]])
    BY <1>1, <1>2 DEF EnterStage, ReserveAiOperation
  <2>2. /\ [op[t] EXCEPT !.status = "reserved"].status = "reserved"
        /\ [op[t] EXCEPT !.status = "reserved"].lockedBy = op[t].lockedBy
    BY <1>1 DEF Operation
  <2> QED
    BY <1>1, <1>2, <2>1, <2>2 DEF EnterStage, ClosingInv
<1>3. CASE Claim(i)
  BY <1>1, <1>3 DEF Claim, ClaimAiOperation, Claimable, ClosingInv
<1>4. CASE Succeeds(i) \/ Fails(i)
  <2>1. op[t].status = "running" /\ result[t] = 0
    BY <1>4, OwnedHasNoResult
       DEF Succeeds, Fails, SucceedAiOperation, FailAiOperation, Called, Holding
  <2>2. ASSUME NEW to
        PROVE  /\ Closed(t, to)[t].status = to /\ Closed(t, to)[t].lockedBy = 0
               /\ \A s \in Stages \ {t} : Closed(t, to)[s] = op[s]
    BY <1>1 DEF Closed, Operation
  <2>3. CASE Succeeds(i)
    <3>1. op' = Closed(t, "succeeded") /\ \A s \in Stages \ {t} : result'[s] = result[s]
      BY <1>1, <2>3 DEF Succeeds, SucceedAiOperation, CallOf
    <3> QED
      BY <1>1, <2>2, <3>1 DEF ClosingInv
  <2>4. CASE Fails(i)
    <3>1. op' = Closed(t, "failed") /\ result' = result
      BY <2>4 DEF Fails, FailAiOperation, CallOf
    <3> QED
      BY <1>1, <2>1, <2>2, <3>1 DEF ClosingInv
  <2> QED
    BY <1>4, <2>3, <2>4
<1>5. CASE UNCHANGED <<op, result>>
  BY <1>1, <1>5 DEF ClosingInv
<1> QED
  BY <1>2, <1>3, <1>4, <1>5
     DEF Invocation, Start, TurnedAway, Answers, CallThrows, IsSuperseded, RecordsItsCall,
         RecordSupersededUsage, Publish, Dies, opVars

LEMMA PlanStep ==
  ASSUME Inv, NEW i \in Invocations, Invocation(i)
  PROVE  PlanInv'
<1>1. "plan" \in Stages
  BY QuoteAssumption
<1>2. ASSUME head' # head PROVE result'["plan"] # 0
  <2>1. Succeeds(i) /\ engine[i].stage = "plan"
    BY <1>2, ResultStep
  <2>2. engine[i].attempt \in Attempts
    BY <2>1, CallOfCalled DEF Succeeds, Called, Holding
  <2>3. result' = [result EXCEPT !["plan"] = engine[i].attempt]
    BY <2>1 DEF Succeeds, SucceedAiOperation, CallOf
  <2> QED
    BY <1>1, <2>2, <2>3, OperationsAssumption DEF Attempts, Inv, TypeOK, OperationsTypeOK
<1>3. CASE head' = head
  BY <1>1, <1>3, ResultStep, PipelineFrame DEF Inv, PlanInv
<1>4. editing' = editing
  BY PipelineFrame
<1> QED
  BY <1>2, <1>3, <1>4 DEF Inv, PlanInv

-----------------------------------------------------------------------------
(* The people.                                                             *)

LEMMA DeskPlanStep == Inv /\ Desk => PlanInv'
<1> SUFFICES ASSUME Inv, Desk PROVE PlanInv'
  OBVIOUS
<1>1. result' = result /\ PlanInv /\ head \in Versions
  BY DeskFrame DEF Inv, opVars, TypeOK
<1>2. ASSUME NEW v \in Versions, Edit(v) PROVE PlanInv'
  <2>1. CASE EditReads(v)
    <3>1. v \in 1..(MaxVersions - 1) /\ editing' = editing \cup {v} /\ head' = head
      BY <1>1, <2>1, QuoteAssumption DEF EditReads, planVars, Versions
    <3> QED
      BY <1>1, <3>1 DEF PlanInv
  <2>2. CASE EditCommits(v)
    <3>1. head # 0 /\ editing' \subseteq editing
      BY <1>1, <2>2, QuoteAssumption DEF EditCommits, PlanInv
    <3> QED
      BY <1>1, <3>1 DEF PlanInv
  <2>3. CASE EditRollsBack(v)
    BY <1>1, <2>3 DEF EditRollsBack, PlanInv, planVars
  <2> QED
    BY <1>2, <2>1, <2>2, <2>3 DEF Edit
<1>3. CASE UNCHANGED <<planVars, editing>>
  BY <1>1, <1>3 DEF PlanInv, planVars
<1> QED
  BY <1>2, <1>3
     DEF Desk, ApprovePricing, CancelTask, ClientLooks, AcceptQuote, DeclineQuote, ExpireQuote,
         planVars

LEMMA DeskAnswerStep == Inv /\ Desk => AnswerInv'
  BY DEF Inv, AnswerInv, ContractIsTheQuote, Desk, Edit, EditReads, EditCommits, EditRollsBack,
     ApprovePricing, CancelTask, ClientLooks, AcceptQuote, DeclineQuote, ExpireQuote, quoteVars

LEMMA InvStep == Inv /\ [Next]_vars => Inv'
<1> SUFFICES ASSUME Inv, [Next]_vars PROVE Inv'
  OBVIOUS
<1>1. ASSUME NEW i \in Invocations, Invocation(i) PROVE Inv'
  <2>1. AnswerInv'
    BY <1>1, PipelineFrame DEF Inv, AnswerInv, ContractIsTheQuote, quoteVars
  <2> QED
    BY <1>1, <2>1, PipelineTypeStep, CallsStep, ClosingStep, PlanStep, BilledStep DEF Inv
<1>2. CASE Desk
  <2>1. CallsInv' /\ ClosingInv' /\ BilledOnce'
    BY <1>2, DeskFrame DEF Inv, CallsInv, ClosingInv, BilledOnce, Unrecorded, CallOf, opVars
  <2> QED
    BY <1>2, <2>1, DeskTypeStep, DeskPlanStep, DeskAnswerStep DEF Inv
<1>3. CASE UNCHANGED vars
  BY <1>3
     DEF vars, opVars, planVars, quoteVars, Inv, TypeOK, OperationsTypeOK, CallsInv, ClosingInv,
         PlanInv, AnswerInv, ContractIsTheQuote, BilledOnce, Unrecorded, CallOf
<1> QED
  BY <1>1, <1>2, <1>3 DEF Next, Desk

-----------------------------------------------------------------------------
THEOREM Invariance == Spec => []Inv
  BY InitInv, InvStep, PTL DEF Spec

\* Every variable of the pipeline and the quote keeps its type.
THEOREM TypeCorrect == Spec => []TypeOK
<1>1. Inv => TypeOK
  BY DEF Inv
<1> QED
  BY <1>1, Invariance, PTL

\* Whatever dies, fails or is superseded, an answered call has its usage row
\* once, or is still held by the invocation that made it.
THEOREM CallsAreBilledOnce == Spec => []BilledOnce
<1>1. Inv => BilledOnce
  BY DEF Inv
<1> QED
  BY <1>1, Invariance, PTL

\* The client signs the quote they were shown.
THEOREM SignedAsShown == Spec => []ContractIsTheQuote
<1>1. Inv => ContractIsTheQuote
  BY DEF Inv, AnswerInv
<1> QED
  BY <1>1, Invariance, PTL

\* No invocation replaces a stored result, however late it is.
THEOREM ResultsStay == Spec => ResultStays
<1>1. Inv /\ [Next]_vars => [\A s \in Stages : result[s] # 0 => result'[s] = result[s]]_result
  <2> SUFFICES ASSUME Inv, [Next]_vars
      PROVE  (\A s \in Stages : result[s] # 0 => result'[s] = result[s]) \/ result' = result
    OBVIOUS
  <2>1. ASSUME NEW i \in Invocations, Invocation(i)
        PROVE  \A s \in Stages : result[s] # 0 => result'[s] = result[s]
    BY <2>1, ResultStep
  <2>2. Desk \/ UNCHANGED vars => result' = result
    BY DeskFrame DEF vars, opVars
  <2> QED
    BY <2>1, <2>2 DEF Next, Desk
<1> QED
  BY <1>1, Invariance, PTL DEF Spec, ResultStays

\* A plan that has left pricing is the plan for good.
THEOREM LockedUnderQuote == Spec => PlanLockedUnderQuote
<1>1. Inv /\ [Next]_vars => [status # "pricing" /\ head # 0 => head' = head]_vars
  <2> SUFFICES ASSUME Inv, [Next]_vars, status # "pricing", head # 0 PROVE head' = head
    OBVIOUS
  <2>1. ASSUME NEW i \in Invocations, Invocation(i) PROVE head' = head
    BY <2>1, ResultStep DEF Inv, PlanInv
  <2>2. Desk => head' = head
    BY DEF Desk, Edit, EditReads, EditCommits, EditRollsBack, ApprovePricing, CancelTask,
           ClientLooks, AcceptQuote, DeclineQuote, ExpireQuote, planVars
  <2>3. UNCHANGED vars => head' = head
    BY DEF vars, planVars
  <2> QED
    BY <2>1, <2>2, <2>3 DEF Next, Desk
<1> QED
  BY <1>1, Invariance, PTL DEF Spec, PlanLockedUnderQuote

-----------------------------------------------------------------------------
(* The pipeline implements MeteredAnswers.                                 *)

\* A stage that succeeded has its answer, and an invocation is at a stage only
\* when the one before has.
OrderInv ==
  /\ \A s \in Stages : op[s].status = "succeeded" => result[s] # 0
  /\ \A i \in Invocations : engine[i].at \notin Over =>
       \A s \in Stages : <<s, engine[i].stage>> \in StageOrder => result[s] # 0

LEMMA OrderInit == Init => OrderInv
  BY DEF Init, OperationsInit, OrderInv, StageOrder

\* An operation succeeds with its answer.
LEMMA AnswerComesWithSuccess ==
  ASSUME Inv, NEW i \in Invocations, Succeeds(i)
  PROVE  /\ op'[engine[i].stage].status = "succeeded"
         /\ result'[engine[i].stage] = engine[i].attempt /\ engine[i].attempt \in Attempts
         /\ \A s \in Stages \ {engine[i].stage} : op'[s] = op[s] /\ result'[s] = result[s]
<1>1. /\ op \in [Stages -> Operation] /\ result \in [Stages -> 0..MaxAttempts]
      /\ engine[i].stage \in Stages /\ op[engine[i].stage] \in Operation
  BY DEF Inv, TypeOK, OperationsTypeOK, Engine
<1>2. engine[i].attempt \in Attempts
  BY CallOfCalled DEF Succeeds, Called, Holding
<1>3. /\ op' = Closed(engine[i].stage, "succeeded")
      /\ result' = [result EXCEPT ![engine[i].stage] = engine[i].attempt]
  BY DEF Succeeds, SucceedAiOperation, CallOf
<1>4. /\ Closed(engine[i].stage, "succeeded")[engine[i].stage].status = "succeeded"
      /\ \A s \in Stages \ {engine[i].stage} : Closed(engine[i].stage, "succeeded")[s] = op[s]
  BY <1>1 DEF Closed, Operation
<1> QED
  BY <1>1, <1>2, <1>3, <1>4

\* No other step makes one succeed, or stores an answer.
LEMMA OnlySuccessAnswers ==
  ASSUME Inv, NEW i \in Invocations, Invocation(i), ~Succeeds(i)
  PROVE  /\ result' = result
         /\ \A s \in Stages : op'[s].status = "succeeded" => op[s].status = "succeeded"
<1>1. /\ op \in [Stages -> Operation] /\ engine[i].stage \in Stages
      /\ op[engine[i].stage] \in Operation
  BY DEF Inv, TypeOK, OperationsTypeOK, Engine
<1>2. CASE EnterStage(i)
  BY <1>1, <1>2 DEF EnterStage, ReserveAiOperation, Operation
<1>3. CASE Claim(i)
  BY <1>1, <1>3 DEF Claim, ClaimAiOperation
<1>4. CASE Fails(i)
  <2>1. op' = Closed(engine[i].stage, "failed") /\ result' = result
    BY <1>4 DEF Fails, FailAiOperation, CallOf
  <2>2. /\ Closed(engine[i].stage, "failed")[engine[i].stage].status = "failed"
        /\ \A s \in Stages \ {engine[i].stage} : Closed(engine[i].stage, "failed")[s] = op[s]
    BY <1>1 DEF Closed, Operation
  <2> QED
    BY <2>1, <2>2
<1>5. CASE UNCHANGED <<op, result>>
  BY <1>5
<1> QED
  BY <1>2, <1>3, <1>4, <1>5
     DEF Invocation, Start, TurnedAway, Answers, CallThrows, IsSuperseded, RecordsItsCall,
         RecordSupersededUsage, Publish, Dies, opVars

\* An invocation goes on where it is, or to a stage whose predecessor succeeded.
LEMMA StageStep ==
  ASSUME Inv, NEW i \in Invocations, Invocation(i)
  PROVE  /\ engine[i].at \notin Over
         /\ \/ engine'[i].stage = engine[i].stage
            \/ /\ op'[engine[i].stage].status = "succeeded"
               /\ \A s : <<s, engine'[i].stage>> \in StageOrder => s = engine[i].stage
<1>1. engine \in [Invocations -> Engine] /\ op \in [Stages -> Operation]
      /\ engine[i].stage \in {"classify", "plan", "critique"}
  BY QuoteAssumption DEF Inv, TypeOK, OperationsTypeOK, Engine
<1>2. ASSUME NEW to, Goes(i, to) PROVE engine'[i].stage = engine[i].stage
  BY <1>1, <1>2 DEF Goes
<1>3. ASSUME NEW t, Enters(i, t) PROVE engine'[i].stage = t
  BY <1>1, <1>3 DEF Enters, Engine
<1>4. CASE Start(i) \/ TurnedAway(i) \/ Fails(i) \/ RecordsItsCall(i) \/ Publish(i)
  BY <1>2, <1>4 DEF Start, TurnedAway, Fails, RecordsItsCall, Publish, GoesOn, Over
<1>5. CASE EnterStage(i)
  <2>1. CASE Goes(i, "claim")
    BY <1>2, <1>5, <2>1 DEF EnterStage, Over
  <2>2. CASE engine[i].stage = "classify" /\ op["classify"].status = "succeeded" /\ Enters(i, "plan")
    <3>1. op' = op
      BY <1>5, <2>2 DEF EnterStage, ReserveAiOperation
    <3> QED
      BY <1>3, <1>5, <2>2, <3>1 DEF EnterStage, Over, StageOrder
  <2> QED
    BY <1>5, <2>1, <2>2 DEF EnterStage
<1>6. CASE Succeeds(i)
  <2>1. engine[i].at \notin Over
    BY <1>6 DEF Succeeds, Over
  <2>2. op'[engine[i].stage].status = "succeeded"
    BY <1>6, AnswerComesWithSuccess
  <2>3. CASE Goes(i, "publish")
    BY <1>2, <2>1, <2>3
  <2>4. CASE engine[i].stage = "classify" /\ Enters(i, "plan")
    BY <1>3, <2>1, <2>2, <2>4 DEF StageOrder
  <2>5. CASE engine[i].stage = "plan" /\ Enters(i, "critique")
    BY <1>3, <2>1, <2>2, <2>5 DEF StageOrder
  <2> QED
    BY <1>1, <1>6, <2>3, <2>4, <2>5 DEF Succeeds
<1>7. CASE Answers(i) \/ CallThrows(i)
  BY <1>2, <1>7 DEF Answers, CallThrows, Over
<1>8. CASE IsSuperseded(i) \/ Dies(i)
  BY <1>2, <1>8 DEF IsSuperseded, Dies, GoesOn, Over
<1>9. CASE Claim(i)
  BY <1>9, ClaimIsNew DEF Claim, Over
<1> QED
  BY <1>4, <1>5, <1>6, <1>7, <1>8, <1>9 DEF Invocation

LEMMA OrderStep ==
  ASSUME Inv, OrderInv, NEW i \in Invocations, Invocation(i)
  PROVE  OrderInv'
<1>1. \A s \in Stages : result[s] # 0 => result'[s] # 0
  BY ResultStep
<1>2. ASSUME NEW s \in Stages, op'[s].status = "succeeded" PROVE result'[s] # 0
  <2>1. CASE op[s].status = "succeeded"
    BY <1>1, <2>1 DEF OrderInv
  <2>2. CASE op[s].status # "succeeded"
    <3>1. Succeeds(i)
      BY <1>2, <2>2, OnlySuccessAnswers
    <3>2. s = engine[i].stage
      BY <1>2, <2>2, <3>1, AnswerComesWithSuccess
    <3>3. result'[s] \in Attempts
      BY <3>1, <3>2, AnswerComesWithSuccess
    <3> QED BY <3>3 DEF Attempts
  <2> QED BY <2>1, <2>2
<1>3. ASSUME NEW j \in Invocations, engine'[j].at \notin Over,
             NEW s \in Stages, <<s, engine'[j].stage>> \in StageOrder
      PROVE  result'[s] # 0
  <2>1. CASE j # i
    BY <1>1, <1>3, <2>1, OthersStay DEF OrderInv
  <2>2. CASE j = i /\ engine'[i].stage = engine[i].stage
    BY <1>1, <1>3, <2>2, StageStep DEF OrderInv
  <2>3. CASE j = i /\ engine'[i].stage # engine[i].stage
    BY <1>2, <1>3, <2>3, StageStep
  <2> QED BY <2>1, <2>2, <2>3
<1> QED
  BY <1>2, <1>3 DEF OrderInv

\* The calls that may have been made: every attempt that was claimed.
AskedCalls == {c \in Calls : c[2] <= op[c[1]].attempts}

LEMMA AskedStays ==
  ASSUME Inv, NEW i \in Invocations, Invocation(i), ~Claim(i)
  PROVE  AskedCalls' = AskedCalls
<1>1. \A s \in Stages : op'[s].attempts = op[s].attempts
  BY AttemptsGrow
<1>2. \A c \in Calls : c[1] \in Stages
  BY DEF Calls
<1> QED
  BY <1>1, <1>2 DEF AskedCalls, Calls

\* A claim adds one call, of a stage without an answer whose predecessor has one.
LEMMA ClaimAsks ==
  ASSUME Inv, OrderInv, NEW i \in Invocations, Claim(i)
  PROVE  \E q \in Stages, n \in Attempts : Provider!Ask(q, n)
<1> DEFINE t == engine[i].stage
           m == op[t].attempts + 1
<1>1. /\ op \in [Stages -> Operation] /\ t \in Stages /\ op[t].attempts \in Nat
      /\ op[t].attempts < MaxAttempts /\ op[t].status # "succeeded"
  BY OperationsAssumption
     DEF Inv, TypeOK, OperationsTypeOK, Engine, Operation, Claim, ClaimAiOperation, Claimable
<1>2. m \in Attempts
  BY <1>1, OperationsAssumption DEF Attempts
<1>3. result[t] = 0
  BY <1>1 DEF Inv, ClosingInv
<1>4. \A p \in Stages : <<p, t>> \in StageOrder => result[p] # 0
  BY DEF OrderInv, Claim, Over
<1>5. op'[t].attempts = m /\ \A s \in Stages \ {t} : op'[s] = op[s]
  BY <1>1, ClaimIsNew DEF Claim, ClaimAiOperation
<1>6. <<t, m>> \in Calls /\ <<t, m>> \notin AskedCalls
  BY <1>1, <1>2 DEF Calls, AskedCalls
<1>7. AskedCalls' = AskedCalls \cup {<<t, m>>}
  <2>1. ASSUME NEW c \in Calls PROVE c \in AskedCalls' <=> c \in AskedCalls \cup {<<t, m>>}
    <3>1. c[1] \in Stages /\ c[2] \in Nat /\ c = <<c[1], c[2]>>
      BY OperationsAssumption DEF Calls, Attempts
    <3>2. CASE c[1] = t
      <4>1. c[2] <= m <=> c[2] <= op[t].attempts \/ c[2] = m
        BY <1>1, <3>1
      <4> QED BY <1>5, <3>1, <3>2, <4>1 DEF AskedCalls
    <3>3. CASE c[1] # t
      BY <1>5, <3>1, <3>3 DEF AskedCalls
    <3> QED BY <3>2, <3>3
  <2> QED BY <1>6, <2>1 DEF AskedCalls
<1>8. UNCHANGED <<answered, usage, result>>
  BY ClaimIsNew
<1>9. Provider!Ask(t, m)
  <2> HIDE DEF m, t
  <2> QED
    BY <1>3, <1>4, <1>6, <1>7, <1>8 DEF Provider!Ask, AskedCalls
<1> HIDE DEF m, t
<1> QED BY <1>1, <1>2, <1>9 DEF Provider!Ask

\* What an invocation holds was answered, and is not on the books.
LEMMA HeldIsUnbilled ==
  ASSUME Inv, NEW i \in Invocations, Pending(i)
  PROVE  CallOf(i) \in answered \ usage
  BY UnrecordedIs DEF Inv, BilledOnce

\* A step of an invocation asks, is answered, bills, or is no business of the
\* provider's.
LEMMA PipelineIsMetered ==
  ASSUME Inv, OrderInv, NEW i \in Invocations, Invocation(i)
  PROVE  [Provider!Next]_(Provider!vars)
<1> DEFINE t == engine[i].stage
           n == engine[i].attempt
<1>1. CASE Claim(i)
  BY <1>1, ClaimAsks DEF Provider!Next
<1>2. CASE Answers(i)
  <2>1. engine[i].at = "calling" /\ answered' = answered \cup {<<t, n>>} /\ UNCHANGED <<usage, result>>
    BY <1>2 DEF Answers, CallOf
  <2>2. t \in Stages /\ n \in Attempts /\ <<t, n>> \in Calls
    BY <2>1, CallOfCalled DEF Called, CallOf
  <2>3. <<t, n>> \in AskedCalls /\ <<t, n>> \notin answered
    BY <2>1, <2>2 DEF Inv, CallsInv, Called, Unanswered, AskedCalls, CallOf, Attempts
  <2>4. AskedCalls' = AskedCalls
    BY <2>1, AskedStays DEF Claim
  <2>5. Provider!Answer(t, n)
    BY <2>1, <2>3, <2>4 DEF Provider!Answer, AskedCalls
  <2> QED BY <2>2, <2>5 DEF Provider!Next
<1>3. CASE ~Claim(i) /\ ~Answers(i)
  <2>1. AskedCalls' = AskedCalls /\ answered' = answered
    BY <1>3, AskedStays, AnswersOrNot
  <2>2. CASE Succeeds(i)
    <3>1. Pending(i) /\ usage' = usage \cup {<<t, n>>}
          /\ result' = [result EXCEPT ![t] = n] /\ result[t] = 0
      BY <2>2, OwnedHasNoResult
         DEF Succeeds, SucceedAiOperation, CallOf, Pending, Holding, Called
    <3>2. t \in Stages /\ n \in Attempts
      BY <2>2, CallOfCalled DEF Succeeds, Called, Holding
    <3>3. <<t, n>> \in answered \ usage
      BY <3>1, HeldIsUnbilled DEF CallOf
    <3>4. Provider!Bill(t, n)
      BY <2>1, <3>1, <3>3 DEF Provider!Bill, AskedCalls
    <3> QED BY <3>2, <3>4 DEF Provider!Next
  <2>3. CASE ~Succeeds(i)
    <3>1. result' = result
      BY <2>3, OnlySuccessAnswers
    <3>2. CASE usage' = usage
      BY <2>1, <3>1, <3>2 DEF Provider!vars, AskedCalls
    <3>3. CASE Pending(i) /\ usage' = usage \cup {CallOf(i)}
      <4>1. t \in Stages /\ n \in Attempts
        BY <3>3, CallOfCalled DEF Pending, Called
      <4>2. <<t, n>> \in answered \ usage
        BY <3>3, HeldIsUnbilled DEF CallOf
      <4>3. Provider!Bill(t, n)
        BY <2>1, <3>1, <3>3, <4>2 DEF Provider!Bill, AskedCalls, CallOf
      <4> QED BY <4>1, <4>3 DEF Provider!Next
    <3> QED BY <1>3, <3>2, <3>3, Kinds
  <2> QED BY <2>2, <2>3
<1> QED BY <1>1, <1>2, <1>3

LEMMA MeteredStep ==
  Inv /\ OrderInv /\ [Next]_vars => OrderInv' /\ [Provider!Next]_(Provider!vars)
<1> SUFFICES ASSUME Inv, OrderInv, [Next]_vars
             PROVE  OrderInv' /\ [Provider!Next]_(Provider!vars)
  OBVIOUS
<1>1. CASE \E i \in Invocations : Invocation(i)
  BY <1>1, OrderStep, PipelineIsMetered
<1>2. CASE Desk \/ UNCHANGED vars
  <2>1. UNCHANGED <<op, answered, usage, result, engine>>
    BY <1>2, DeskFrame DEF vars, opVars
  <2> QED
    BY <2>1 DEF OrderInv, Provider!vars
<1> QED
  BY <1>1, <1>2 DEF Next, Desk

\* However often stages are claimed, superseded and abandoned, the provider
\* sees a client that asks nothing it has an answer to and pays each answer once.
THEOREM PipelineIsMeteredClient == Spec => AnswersAreMetered
<1>1. Init => Provider!Init
  <2>1. ASSUME Init PROVE \A c \in Calls : ~(c[2] <= op[c[1]].attempts)
    BY <2>1, OperationsAssumption DEF Init, OperationsInit, Calls, Attempts
  <2> QED BY <2>1 DEF Init, OperationsInit, Provider!Init
<1> QED
  BY <1>1, OrderInit, MeteredStep, Invariance, PTL DEF Spec, AnswersAreMetered, Provider!Spec
=============================================================================
