-------------------------- MODULE WorkflowRun_proofs --------------------------
(***************************************************************************)
(* What WorkflowRun's runs check on two invocations, for any number of     *)
(* them, any plan and any ceiling.  Inv is the inductive invariant: it     *)
(* says what the fence of a lease protects (Fenced), that an attempt has   *)
(* one owner (Attributed) and a hold that fits its place (Reserved), and   *)
(* what a handover may rely on (Stored, Closed).                           *)
(***************************************************************************)
EXTENDS WorkflowRun, FiniteSetTheorems, TLAPS

\* A step has a holder as long as it runs; a worker that still holds its step
\* works on its last attempt.
Fenced ==
  /\ \A s \in Steps : holder[s] # Nobody <=> status[s] \in {"running", "lapsed"}
  /\ \A i \in Invocations : at[i] \in Working /\ holder[StepOf(i)] = i =>
       on[i][2] = attempts[StepOf(i)]

\* No two workers share an attempt, and no attempt of the future has a trace.
Attributed ==
  /\ \A i \in Invocations : at[i] \in Working => on[i][2] <= attempts[StepOf(i)]
  /\ \A i, j \in Invocations :
       at[i] \in Working /\ at[j] \in Working /\ i # j => on[i] # on[j]
  /\ \A k \in Attempts : hold[k] # "none" \/ k \in sent => k[2] <= attempts[k[1]]

\* What a worker's place says of its attempt's money.
Reserved ==
  \A i \in Invocations :
    /\ at[i] = "claimed" => hold[on[i]] = "none" /\ on[i] \notin sent
    /\ at[i] = "ready" =>
         on[i] \notin sent /\ (StepOf(i) \in Billable => hold[on[i]] = "held")
    /\ at[i] = "calling" => hold[on[i]] = "held"

\* Every request is the request of one attempt.
Counted == \A s \in Steps : calls[s] = Cardinality({k \in sent : k[1] = s})

\* Before there is a run there is nothing else.
Uncompiled ==
  run = "none" =>
    /\ \A s \in Steps : status[s] = "pending"
    /\ \A i \in Invocations : at[i] = "idle"

\* A finished machine step has left its payload.
Stored ==
  /\ \A s \in Steps : status[s] = "done" => payload[s] # 0
  /\ \A i \in Invocations : at[i] = "persisted" => payload[StepOf(i)] # 0

\* A machine step is worked on or done only behind finished ones.
Ordered ==
  \A s \in Steps :
    status[s] \in {"running", "lapsed", "done"} => \A r \in 1..(s - 1) : status[r] \in Finished

AllDone == \A s \in Steps : status[s] \in Finished

\* Nobody hands over a run with machine work left.
Closed == \A i \in Invocations : at[i] \in {"handover", "overBudget", "publish"} => AllDone

Earned == payout = "residual" => task = "open" /\ package /\ AllDone

\* Groups that disturb only each other.
LeaseInv == Fenced /\ Attributed
MoneyInv == Reserved /\ SentIsCovered /\ Counted
OrderInv == Uncompiled /\ Stored /\ Ordered /\ CountIsTrue
CloseInv == Closed /\ Earned

Inv == TypeOK /\ LeaseInv /\ MoneyInv /\ OrderInv /\ CloseInv

-----------------------------------------------------------------------------
(* Finite sets.                                                            *)

\* There are NSteps steps and finitely many attempts.
LEMMA Sizes ==
  /\ IsFiniteSet(Steps) /\ Cardinality(Steps) = NSteps
  /\ IsFiniteSet(Attempts)
  /\ Cardinality(1..MaxAttempts) = MaxAttempts /\ IsFiniteSet(1..MaxAttempts)
<1>1. 1 \in Int /\ NSteps \in Nat /\ MaxAttempts \in Nat
  BY RunAssumption
<1>2. IsFiniteSet(1..NSteps) /\ IsFiniteSet(1..MaxAttempts)
  BY <1>1, FS_Interval
<1>3. Cardinality(1..NSteps) = NSteps /\ Cardinality(1..MaxAttempts) = MaxAttempts
  BY <1>1, FS_Interval
<1> QED
  BY <1>2, <1>3, FS_Product DEF Steps, Attempts

\* Machine steps are counted within the plan.
LEMMA AutomatedSize ==
  ASSUME NEW S \in SUBSET Steps
  PROVE  IsFiniteSet(S) /\ Cardinality(S) \in 0..NSteps
<1>1. IsFiniteSet(S) /\ Cardinality(S) <= Cardinality(Steps)
  BY Sizes, FS_Subset
<1> QED
  BY <1>1, Sizes, FS_CardinalityType, RunAssumption

\* A step makes at most one request per attempt.
LEMMA CallsOfAStep ==
  ASSUME NEW S \in SUBSET Attempts, NEW s \in Steps
  PROVE  LET C == {k \in S : k[1] = s} IN IsFiniteSet(C) /\ Cardinality(C) <= MaxAttempts
<1> DEFINE C == {k \in S : k[1] = s}
           f == [k \in C |-> k[2]]
<1>1. IsFiniteSet(C)
  BY Sizes, FS_Subset
<1>2. f \in Injection(C, 1..MaxAttempts)
  <2>1. f \in [C -> 1..MaxAttempts]
    BY DEF Attempts
  <2>2. \A k, l \in C : f[k] = f[l] => k = l
    BY DEF Attempts
  <2> QED
    BY <2>1, <2>2 DEF Injection, IsInjective
<1>3. Cardinality(C) <= Cardinality(1..MaxAttempts)
  BY <1>2, Sizes, FS_Injection
<1> QED
  BY <1>1, <1>3, Sizes

-----------------------------------------------------------------------------
(* Steps that leave the steps and the money alone.                         *)

Places ==
  Working \cup {"idle", "walk", "again", "closing", "pausing", "handover", "overBudget", "publish"}

\* Somebody stops working, or nobody moves; the run and the task may change.
Quiet ==
  /\ UNCHANGED <<automated, stepVars, payload, budgetVars, callVars>>
  /\ at' \in [Invocations -> Places] /\ on' \in [Invocations -> Attempts \cup {<<0, 0>>}]
  /\ \A i \in Invocations : <<at[i], on[i]>>' = <<at[i], on[i]>> \/ at'[i] \notin Working
  /\ run' = "none" <=> run = "none"
  /\ run = "none" => UNCHANGED at

\* Every step is one of the listed ones or quiet.
LEMMA Kinds ==
  ASSUME TypeOK, OrderInv, Next
  PROVE  \/ Quiet
         \/ \E i \in Invocations :
              \/ StartWorkflow(i)
              \/ \E s \in Steps : Claim(i, s) \/ ExhaustedAtClaim(i, s) \/ HandOffAtClaim(i, s)
              \/ HandOffClaimed(i) \/ NeedsNoBudget(i) \/ Reserve(i) \/ Refused(i)
              \/ RunsLocally(i) \/ ThrowsBeforeCall(i) \/ Dispatch(i) \/ Settles(i)
              \/ CallIsLost(i) \/ Persist(i) \/ Done(i) \/ Fails(i)
         \/ \E s \in Steps : LeaseLapses(s) \/ BackoffElapses(s)
<1> USE DEF TypeOK, OrderInv, Uncompiled, Quiet, Working, Places, taskVars, stepVars, budgetVars,
          callVars, invVars, worldVars
<1>1. ASSUME NEW i \in Invocations, Tick(i) PROVE Quiet
  BY <1>1 DEF Tick, Goes
<1>2. ASSUME NEW i \in Invocations, EndsWalk(i) PROVE Quiet
  BY <1>2 DEF EndsWalk, Leaves
<1>3. ASSUME NEW i \in Invocations, Superseded(i) PROVE Quiet
  BY <1>3 DEF Superseded, Leaves
<1>4. ASSUME NEW i \in Invocations, PausesRun(i) PROVE Quiet
  BY <1>4 DEF PausesRun, PauseRun, Leaves, Returns
<1>5. ASSUME NEW i \in Invocations, Closes(i) PROVE Quiet
  BY <1>5 DEF Closes, Goes, Leaves, Returns
<1>6. ASSUME NEW i \in Invocations, FinishRun(i) PROVE Quiet
  BY <1>6 DEF FinishRun, Goes, Leaves, Returns
<1>7. ASSUME NEW i \in Invocations, OverBudget(i) PROVE Quiet
  BY <1>7 DEF OverBudget, Leaves, Returns
<1>8. ASSUME NEW i \in Invocations, Publish(i) PROVE Quiet
  BY <1>8 DEF Publish, Leaves, Returns
<1>9. ASSUME NEW i \in Invocations, Dies(i) PROVE Quiet
  BY <1>9 DEF Dies, Leaves, Returns
<1>10. ASSUME ReleaseUncompiled PROVE Quiet
  BY <1>10 DEF ReleaseUncompiled, ReleaseToPool
<1>11. ASSUME SweepAbandons PROVE Quiet
  BY <1>11 DEF SweepAbandons
<1>12. ASSUME SweepReleases PROVE Quiet
  BY <1>12 DEF SweepReleases, ReleaseToPool
<1>13. ASSUME Cancel PROVE Quiet
  BY <1>13 DEF Cancel
<1>14. ASSUME PaymentLapses PROVE Quiet
  BY <1>14 DEF PaymentLapses
<1> QED
  BY <1>1, <1>2, <1>3, <1>4, <1>5, <1>6, <1>7, <1>8, <1>9, <1>10, <1>11, <1>12, <1>13, <1>14
     DEF Next, Advances, Takes, Works, Ends

-----------------------------------------------------------------------------
\* Only the claim gives a step a holder, and every end of a step takes it away.
LEMMA FencedStep ==
  ASSUME TypeOK, LeaseInv, OrderInv, Next
  PROVE  Fenced'
<1> USE DEF TypeOK, LeaseInv, OrderInv, Uncompiled, Fenced, Attributed, Attempts, Finished,
          taskVars, stepVars, budgetVars, callVars, invVars, worldVars, Working, StepOf
<1>1. ASSUME NEW i \in Invocations, StartWorkflow(i) PROVE Fenced'
  BY <1>1, RunAssumption DEF StartWorkflow, Goes
<1>2. ASSUME NEW i \in Invocations, NEW s \in Steps, Claim(i, s) PROVE Fenced'
  BY <1>2, RunAssumption DEF Claim, Claimable, IsNext, AttemptLeft
<1>3. ASSUME NEW i \in Invocations, NEW s \in Steps, ExhaustedAtClaim(i, s) PROVE Fenced'
  BY <1>3, RunAssumption DEF ExhaustedAtClaim, Claimable, IsNext, AttemptLeft, PauseRun, Leaves
<1>4. ASSUME NEW i \in Invocations, NEW s \in Steps, HandOffAtClaim(i, s) PROVE Fenced'
  BY <1>4, RunAssumption DEF HandOffAtClaim, HandOff, Leaves
<1>5. ASSUME NEW i \in Invocations, HandOffClaimed(i) PROVE Fenced'
  BY <1>5, RunAssumption DEF HandOffClaimed, HandOff, StepOf, Leaves
<1>6. ASSUME NEW i \in Invocations, NeedsNoBudget(i) PROVE Fenced'
  BY <1>6, RunAssumption DEF NeedsNoBudget, Goes
<1>7. ASSUME NEW i \in Invocations, Reserve(i) PROVE Fenced'
  BY <1>7, RunAssumption DEF Reserve, Goes
<1>8. ASSUME NEW i \in Invocations, Refused(i) PROVE Fenced'
  BY <1>8, RunAssumption DEF Refused, RefundAttempt, PauseRun, Leaves, StepOf
<1>9. ASSUME NEW i \in Invocations, RunsLocally(i) PROVE Fenced'
  BY <1>9, RunAssumption DEF RunsLocally, ReleaseHold, Goes
<1>10. ASSUME NEW i \in Invocations, ThrowsBeforeCall(i) PROVE Fenced'
  BY <1>10, RunAssumption DEF ThrowsBeforeCall, ReleaseHold, Goes
<1>11. ASSUME NEW i \in Invocations, Dispatch(i) PROVE Fenced'
  BY <1>11, RunAssumption DEF Dispatch, Goes
<1>12. ASSUME NEW i \in Invocations, Settles(i) PROVE Fenced'
  BY <1>12, RunAssumption DEF Settles, Goes
<1>13. ASSUME NEW i \in Invocations, CallIsLost(i) PROVE Fenced'
  BY <1>13, RunAssumption DEF CallIsLost, Goes
<1>14. ASSUME NEW i \in Invocations, Persist(i) PROVE Fenced'
  BY <1>14, RunAssumption DEF Persist, Goes
<1>15. ASSUME NEW i \in Invocations, Done(i) PROVE Fenced'
  BY <1>15, RunAssumption DEF Done, FinishClaimedStep, Leaves
<1>16. ASSUME NEW i \in Invocations, Fails(i) PROVE Fenced'
  BY <1>16, RunAssumption DEF Fails, FinishClaimedStep, Leaves, Returns
<1>17. ASSUME NEW s \in Steps, LeaseLapses(s) PROVE Fenced'
  BY <1>17, RunAssumption DEF LeaseLapses
<1>18. ASSUME NEW s \in Steps, BackoffElapses(s) PROVE Fenced'
  BY <1>18, RunAssumption DEF BackoffElapses
<1>19. CASE Quiet
  BY <1>19, RunAssumption DEF Quiet
<1> QED
  BY Kinds, <1>1, <1>2, <1>3, <1>4, <1>5, <1>6, <1>7, <1>8, <1>9, <1>10, <1>11, <1>12, <1>13,
     <1>14, <1>15, <1>16, <1>17, <1>18, <1>19

\* A claim counts up to an attempt nobody has; only a holder that did nothing
\* counts down again.
LEMMA AttributedStep ==
  ASSUME TypeOK, LeaseInv, MoneyInv, OrderInv, Next
  PROVE  Attributed'
<1> USE DEF TypeOK, LeaseInv, MoneyInv, Reserved, Fenced, Attributed, Attempts, taskVars,
          stepVars, budgetVars, callVars, invVars, worldVars, Working, StepOf
<1>1. ASSUME NEW i \in Invocations, StartWorkflow(i) PROVE Attributed'
  BY <1>1, RunAssumption DEF StartWorkflow, Goes
<1>2. ASSUME NEW i \in Invocations, NEW s \in Steps, Claim(i, s) PROVE Attributed'
  BY <1>2, RunAssumption DEF Claim, Claimable, IsNext, AttemptLeft
<1>3. ASSUME NEW i \in Invocations, NEW s \in Steps, ExhaustedAtClaim(i, s) PROVE Attributed'
  BY <1>3, RunAssumption DEF ExhaustedAtClaim, Claimable, IsNext, AttemptLeft, PauseRun, Leaves
<1>4. ASSUME NEW i \in Invocations, NEW s \in Steps, HandOffAtClaim(i, s) PROVE Attributed'
  BY <1>4, RunAssumption DEF HandOffAtClaim, HandOff, Leaves
<1>5. ASSUME NEW i \in Invocations, HandOffClaimed(i) PROVE Attributed'
  BY <1>5, RunAssumption DEF HandOffClaimed, HandOff, StepOf, Leaves
<1>6. ASSUME NEW i \in Invocations, NeedsNoBudget(i) PROVE Attributed'
  BY <1>6, RunAssumption DEF NeedsNoBudget, Goes
<1>7. ASSUME NEW i \in Invocations, Reserve(i) PROVE Attributed'
  BY <1>7, RunAssumption DEF Reserve, Goes
<1>8. ASSUME NEW i \in Invocations, Refused(i) PROVE Attributed'
  <2> DEFINE s == StepOf(i)
  <2>1. at'[i] \notin Working /\ \A j \in Invocations \ {i} : at'[j] = at[j] /\ on'[j] = on[j]
    BY <1>8 DEF Refused, Leaves
  <2>2. UNCHANGED <<hold, sent>> /\ hold[on[i]] = "none" /\ on[i] \notin sent
    BY <1>8 DEF Refused
  <2>3. CASE holder[s] = i
    <3>1. attempts' = [attempts EXCEPT ![s] = @ - 1] /\ on[i] = <<s, attempts[s]>> /\ s \in Steps
      BY <1>8, <2>3 DEF Refused, RefundAttempt
    <3>2. \A k \in Attempts : k = <<k[1], k[2]>> /\ k[1] \in Steps /\ k[2] \in Nat
      BY RunAssumption
    <3>3. \A k \in Attempts : k[2] <= attempts[k[1]] /\ k # on[i] => k[2] <= attempts'[k[1]]
      <4> SUFFICES ASSUME NEW k \in Attempts, k[2] <= attempts[k[1]], k # on[i]
                   PROVE  k[2] <= attempts'[k[1]]
        OBVIOUS
      <4>1. CASE k[1] = s
        <5>1. k[2] # attempts[s] /\ attempts[s] \in Nat /\ attempts'[s] = attempts[s] - 1
          BY <3>1, <3>2, <4>1
        <5> QED
          BY <5>1, <4>1, <3>2
      <4>2. CASE k[1] # s
        BY <3>1, <3>2, <4>2
      <4> QED
        BY <4>1, <4>2
    <3>4. \A j \in Invocations : at'[j] \in Working => on'[j] \in Attempts /\ on'[j] # on[i]
      BY <2>1, <1>8 DEF Refused
    <3>5. \A j \in Invocations : at'[j] \in Working => on'[j][2] <= attempts'[on'[j][1]]
      BY <2>1, <3>3, <3>4
    <3> QED
      BY <2>1, <2>2, <3>3, <3>5
  <2>4. CASE holder[s] # i
    BY <1>8, <2>1, <2>2, <2>4 DEF Refused, RefundAttempt
  <2> QED
    BY <2>3, <2>4
<1>9. ASSUME NEW i \in Invocations, RunsLocally(i) PROVE Attributed'
  BY <1>9, RunAssumption DEF RunsLocally, ReleaseHold, Goes
<1>10. ASSUME NEW i \in Invocations, ThrowsBeforeCall(i) PROVE Attributed'
  BY <1>10, RunAssumption DEF ThrowsBeforeCall, ReleaseHold, Goes
<1>11. ASSUME NEW i \in Invocations, Dispatch(i) PROVE Attributed'
  BY <1>11, RunAssumption DEF Dispatch, Goes
<1>12. ASSUME NEW i \in Invocations, Settles(i) PROVE Attributed'
  BY <1>12, RunAssumption DEF Settles, Goes
<1>13. ASSUME NEW i \in Invocations, CallIsLost(i) PROVE Attributed'
  BY <1>13, RunAssumption DEF CallIsLost, Goes
<1>14. ASSUME NEW i \in Invocations, Persist(i) PROVE Attributed'
  BY <1>14, RunAssumption DEF Persist, Goes
<1>15. ASSUME NEW i \in Invocations, Done(i) PROVE Attributed'
  BY <1>15, RunAssumption DEF Done, FinishClaimedStep, Leaves
<1>16. ASSUME NEW i \in Invocations, Fails(i) PROVE Attributed'
  <2>1. UNCHANGED <<attempts, hold, sent>>
    BY <1>16 DEF Fails, FinishClaimedStep
  <2>2. at'[i] \notin Working /\ \A j \in Invocations \ {i} : at'[j] = at[j] /\ on'[j] = on[j]
    BY <1>16 DEF Fails, Leaves, Returns
  <2> QED
    BY <2>1, <2>2
<1>17. ASSUME NEW s \in Steps, LeaseLapses(s) PROVE Attributed'
  BY <1>17, RunAssumption DEF LeaseLapses
<1>18. ASSUME NEW s \in Steps, BackoffElapses(s) PROVE Attributed'
  BY <1>18, RunAssumption DEF BackoffElapses
<1>19. CASE Quiet
  BY <1>19, RunAssumption DEF Quiet
<1> QED
  BY Kinds, <1>1, <1>2, <1>3, <1>4, <1>5, <1>6, <1>7, <1>8, <1>9, <1>10, <1>11, <1>12, <1>13,
     <1>14, <1>15, <1>16, <1>17, <1>18, <1>19

\* A worker finds its attempt untouched, then holds its worst case until it is told.
LEMMA ReservedStep ==
  ASSUME TypeOK, LeaseInv, MoneyInv, OrderInv, Next
  PROVE  Reserved'
<1> USE DEF TypeOK, LeaseInv, MoneyInv, Reserved, Attributed, Attempts, taskVars, stepVars,
          budgetVars, callVars, invVars, worldVars, Working, StepOf
<1>1. ASSUME NEW i \in Invocations, StartWorkflow(i) PROVE Reserved'
  BY <1>1, RunAssumption DEF StartWorkflow, Goes
<1>2. ASSUME NEW i \in Invocations, NEW s \in Steps, Claim(i, s) PROVE Reserved'
  BY <1>2, RunAssumption DEF Claim, Claimable, IsNext, AttemptLeft
<1>3. ASSUME NEW i \in Invocations, NEW s \in Steps, ExhaustedAtClaim(i, s) PROVE Reserved'
  BY <1>3, RunAssumption DEF ExhaustedAtClaim, Claimable, IsNext, AttemptLeft, PauseRun, Leaves
<1>4. ASSUME NEW i \in Invocations, NEW s \in Steps, HandOffAtClaim(i, s) PROVE Reserved'
  BY <1>4, RunAssumption DEF HandOffAtClaim, HandOff, Leaves
<1>5. ASSUME NEW i \in Invocations, HandOffClaimed(i) PROVE Reserved'
  BY <1>5, RunAssumption DEF HandOffClaimed, HandOff, StepOf, Leaves
<1>6. ASSUME NEW i \in Invocations, NeedsNoBudget(i) PROVE Reserved'
  BY <1>6, RunAssumption DEF NeedsNoBudget, Goes
<1>7. ASSUME NEW i \in Invocations, Reserve(i) PROVE Reserved'
  BY <1>7, RunAssumption DEF Reserve, Goes
<1>8. ASSUME NEW i \in Invocations, Refused(i) PROVE Reserved'
  BY <1>8, RunAssumption DEF Refused, RefundAttempt, PauseRun, Leaves, StepOf
<1>9. ASSUME NEW i \in Invocations, RunsLocally(i) PROVE Reserved'
  BY <1>9, RunAssumption DEF RunsLocally, ReleaseHold, Goes
<1>10. ASSUME NEW i \in Invocations, ThrowsBeforeCall(i) PROVE Reserved'
  BY <1>10, RunAssumption DEF ThrowsBeforeCall, ReleaseHold, Goes
<1>11. ASSUME NEW i \in Invocations, Dispatch(i) PROVE Reserved'
  BY <1>11, RunAssumption DEF Dispatch, Goes
<1>12. ASSUME NEW i \in Invocations, Settles(i) PROVE Reserved'
  BY <1>12, RunAssumption DEF Settles, Goes
<1>13. ASSUME NEW i \in Invocations, CallIsLost(i) PROVE Reserved'
  BY <1>13, RunAssumption DEF CallIsLost, Goes
<1>14. ASSUME NEW i \in Invocations, Persist(i) PROVE Reserved'
  BY <1>14, RunAssumption DEF Persist, Goes
<1>15. ASSUME NEW i \in Invocations, Done(i) PROVE Reserved'
  BY <1>15, RunAssumption DEF Done, FinishClaimedStep, Leaves
<1>16. ASSUME NEW i \in Invocations, Fails(i) PROVE Reserved'
  BY <1>16, RunAssumption DEF Fails, FinishClaimedStep, Leaves, Returns
<1>17. ASSUME NEW s \in Steps, LeaseLapses(s) PROVE Reserved'
  BY <1>17, RunAssumption DEF LeaseLapses
<1>18. ASSUME NEW s \in Steps, BackoffElapses(s) PROVE Reserved'
  BY <1>18, RunAssumption DEF BackoffElapses
<1>19. CASE Quiet
  BY <1>19, RunAssumption DEF Quiet
<1> QED
  BY Kinds, <1>1, <1>2, <1>3, <1>4, <1>5, <1>6, <1>7, <1>8, <1>9, <1>10, <1>11, <1>12, <1>13,
     <1>14, <1>15, <1>16, <1>17, <1>18, <1>19

\* Only what was not sent is given back.
LEMMA CoveredStep ==
  ASSUME TypeOK, LeaseInv, MoneyInv, OrderInv, Next
  PROVE  SentIsCovered'
<1> USE DEF TypeOK, LeaseInv, MoneyInv, Reserved, SentIsCovered, Attributed, Attempts, taskVars,
          stepVars, budgetVars, callVars, invVars, worldVars, Working, StepOf
<1>1. ASSUME NEW i \in Invocations, StartWorkflow(i) PROVE SentIsCovered'
  BY <1>1, RunAssumption DEF StartWorkflow, Goes
<1>2. ASSUME NEW i \in Invocations, NEW s \in Steps, Claim(i, s) PROVE SentIsCovered'
  BY <1>2, RunAssumption DEF Claim, Claimable, IsNext, AttemptLeft
<1>3. ASSUME NEW i \in Invocations, NEW s \in Steps, ExhaustedAtClaim(i, s) PROVE SentIsCovered'
  BY <1>3, RunAssumption DEF ExhaustedAtClaim, Claimable, IsNext, AttemptLeft, PauseRun, Leaves
<1>4. ASSUME NEW i \in Invocations, NEW s \in Steps, HandOffAtClaim(i, s) PROVE SentIsCovered'
  BY <1>4, RunAssumption DEF HandOffAtClaim, HandOff, Leaves
<1>5. ASSUME NEW i \in Invocations, HandOffClaimed(i) PROVE SentIsCovered'
  BY <1>5, RunAssumption DEF HandOffClaimed, HandOff, StepOf, Leaves
<1>6. ASSUME NEW i \in Invocations, NeedsNoBudget(i) PROVE SentIsCovered'
  BY <1>6, RunAssumption DEF NeedsNoBudget, Goes
<1>7. ASSUME NEW i \in Invocations, Reserve(i) PROVE SentIsCovered'
  BY <1>7, RunAssumption DEF Reserve, Goes
<1>8. ASSUME NEW i \in Invocations, Refused(i) PROVE SentIsCovered'
  BY <1>8, RunAssumption DEF Refused, RefundAttempt, PauseRun, Leaves, StepOf
<1>9. ASSUME NEW i \in Invocations, RunsLocally(i) PROVE SentIsCovered'
  BY <1>9, RunAssumption DEF RunsLocally, ReleaseHold, Goes
<1>10. ASSUME NEW i \in Invocations, ThrowsBeforeCall(i) PROVE SentIsCovered'
  BY <1>10, RunAssumption DEF ThrowsBeforeCall, ReleaseHold, Goes
<1>11. ASSUME NEW i \in Invocations, Dispatch(i) PROVE SentIsCovered'
  BY <1>11, RunAssumption DEF Dispatch, Goes
<1>12. ASSUME NEW i \in Invocations, Settles(i) PROVE SentIsCovered'
  BY <1>12, RunAssumption DEF Settles, Goes
<1>13. ASSUME NEW i \in Invocations, CallIsLost(i) PROVE SentIsCovered'
  BY <1>13, RunAssumption DEF CallIsLost, Goes
<1>14. ASSUME NEW i \in Invocations, Persist(i) PROVE SentIsCovered'
  BY <1>14, RunAssumption DEF Persist, Goes
<1>15. ASSUME NEW i \in Invocations, Done(i) PROVE SentIsCovered'
  BY <1>15, RunAssumption DEF Done, FinishClaimedStep, Leaves
<1>16. ASSUME NEW i \in Invocations, Fails(i) PROVE SentIsCovered'
  BY <1>16, RunAssumption DEF Fails, FinishClaimedStep, Leaves, Returns
<1>17. ASSUME NEW s \in Steps, LeaseLapses(s) PROVE SentIsCovered'
  BY <1>17, RunAssumption DEF LeaseLapses
<1>18. ASSUME NEW s \in Steps, BackoffElapses(s) PROVE SentIsCovered'
  BY <1>18, RunAssumption DEF BackoffElapses
<1>19. CASE Quiet
  BY <1>19, RunAssumption DEF Quiet
<1> QED
  BY Kinds, <1>1, <1>2, <1>3, <1>4, <1>5, <1>6, <1>7, <1>8, <1>9, <1>10, <1>11, <1>12, <1>13,
     <1>14, <1>15, <1>16, <1>17, <1>18, <1>19

\* A request is counted once, with the attempt that made it.
LEMMA CountedStep ==
  ASSUME TypeOK, MoneyInv, OrderInv, Next
  PROVE  Counted'
<1>1. ASSUME NEW i \in Invocations, Dispatch(i) PROVE Counted'
  <2> DEFINE C(S, s) == {k \in S : k[1] = s}
  <2>1. on[i] \in Attempts /\ on[i] \notin sent /\ sent' = sent \cup {on[i]}
    BY <1>1 DEF TypeOK, Working, Dispatch, MoneyInv, Reserved
  <2>2. StepOf(i) \in Steps
    BY <2>1 DEF Attempts, StepOf
  <2>3. calls' = [calls EXCEPT ![StepOf(i)] = @ + 1] /\ calls \in [Steps -> Nat]
    BY <1>1 DEF TypeOK, Dispatch
  <2> SUFFICES ASSUME NEW s \in Steps PROVE calls'[s] = Cardinality(C(sent', s))
    BY DEF Counted
  <2>4. calls[s] = Cardinality(C(sent, s)) /\ IsFiniteSet(C(sent, s))
    BY CallsOfAStep DEF MoneyInv, Counted, TypeOK
  <2>5. CASE s = StepOf(i)
    <3>1. C(sent', s) = C(sent, s) \cup {on[i]} /\ on[i] \notin C(sent, s)
      BY <2>1, <2>5 DEF StepOf
    <3>2. Cardinality(C(sent', s)) = Cardinality(C(sent, s)) + 1
      BY <3>1, <2>4, FS_AddElement
    <3> QED
      BY <3>2, <2>3, <2>4, <2>5
  <2>6. CASE s # StepOf(i)
    <3>1. C(sent', s) = C(sent, s)
      BY <2>1, <2>6 DEF StepOf
    <3> QED
      BY <3>1, <2>3, <2>4, <2>6
  <2> QED
    BY <2>5, <2>6
<1>2. CASE UNCHANGED callVars
  BY <1>2 DEF callVars, Counted, MoneyInv
<1>3. ASSUME NEW i \in Invocations, NEW s \in Steps,
             Claim(i, s) \/ ExhaustedAtClaim(i, s) \/ HandOffAtClaim(i, s)
      PROVE  UNCHANGED callVars
  BY <1>3 DEF Claim, ExhaustedAtClaim, HandOffAtClaim
<1>4. ASSUME NEW s \in Steps, LeaseLapses(s) \/ BackoffElapses(s) PROVE UNCHANGED callVars
  BY <1>4 DEF LeaseLapses, BackoffElapses
<1>5. ASSUME NEW i \in Invocations, Works(i), ~Dispatch(i) PROVE UNCHANGED callVars
  BY <1>5 DEF Works, HandOffClaimed, NeedsNoBudget, Reserve, Refused, RunsLocally,
     ThrowsBeforeCall, Settles, CallIsLost, Persist, Done, Fails, Superseded
<1>6. CASE Quiet
  BY <1>6, <1>2 DEF Quiet
<1>7. ASSUME NEW i \in Invocations, StartWorkflow(i) PROVE UNCHANGED callVars
  BY <1>7 DEF StartWorkflow
<1> QED
  BY Kinds, <1>1, <1>2, <1>3, <1>4, <1>5, <1>6, <1>7 DEF Works

\* Only compilation leaves the initial state.
LEMMA UncompiledStep ==
  ASSUME TypeOK, OrderInv, Next
  PROVE  Uncompiled'
<1> USE DEF TypeOK, OrderInv, Uncompiled, taskVars, stepVars, budgetVars, callVars, invVars,
          worldVars,      Working, StepOf
<1>1. ASSUME NEW i \in Invocations, StartWorkflow(i) PROVE Uncompiled'
  BY <1>1 DEF StartWorkflow, Goes
<1>2. ASSUME NEW i \in Invocations, NEW s \in Steps, Claim(i, s) PROVE Uncompiled'
  BY <1>2 DEF Claim, Claimable, IsNext, AttemptLeft
<1>3. ASSUME NEW i \in Invocations, NEW s \in Steps, ExhaustedAtClaim(i, s) PROVE Uncompiled'
  BY <1>3 DEF ExhaustedAtClaim, Claimable, IsNext, AttemptLeft, PauseRun, Leaves
<1>4. ASSUME NEW i \in Invocations, NEW s \in Steps, HandOffAtClaim(i, s) PROVE Uncompiled'
  BY <1>4 DEF HandOffAtClaim, HandOff, Leaves
<1>5. ASSUME NEW i \in Invocations, HandOffClaimed(i) PROVE Uncompiled'
  BY <1>5 DEF HandOffClaimed, HandOff, StepOf, Leaves
<1>6. ASSUME NEW i \in Invocations, NeedsNoBudget(i) PROVE Uncompiled'
  BY <1>6 DEF NeedsNoBudget, Goes
<1>7. ASSUME NEW i \in Invocations, Reserve(i) PROVE Uncompiled'
  BY <1>7 DEF Reserve, Goes
<1>8. ASSUME NEW i \in Invocations, Refused(i) PROVE Uncompiled'
  BY <1>8 DEF Refused, RefundAttempt, PauseRun, Leaves, StepOf
<1>9. ASSUME NEW i \in Invocations, RunsLocally(i) PROVE Uncompiled'
  BY <1>9 DEF RunsLocally, ReleaseHold, Goes
<1>10. ASSUME NEW i \in Invocations, ThrowsBeforeCall(i) PROVE Uncompiled'
  BY <1>10 DEF ThrowsBeforeCall, ReleaseHold, Goes
<1>11. ASSUME NEW i \in Invocations, Dispatch(i) PROVE Uncompiled'
  BY <1>11 DEF Dispatch, Goes
<1>12. ASSUME NEW i \in Invocations, Settles(i) PROVE Uncompiled'
  BY <1>12 DEF Settles, Goes
<1>13. ASSUME NEW i \in Invocations, CallIsLost(i) PROVE Uncompiled'
  BY <1>13 DEF CallIsLost, Goes
<1>14. ASSUME NEW i \in Invocations, Persist(i) PROVE Uncompiled'
  BY <1>14 DEF Persist, Goes
<1>15. ASSUME NEW i \in Invocations, Done(i) PROVE Uncompiled'
  BY <1>15 DEF Done, FinishClaimedStep, Leaves
<1>16. ASSUME NEW i \in Invocations, Fails(i) PROVE Uncompiled'
  BY <1>16 DEF Fails, FinishClaimedStep, Leaves, Returns
<1>17. ASSUME NEW s \in Steps, LeaseLapses(s) PROVE Uncompiled'
  BY <1>17 DEF LeaseLapses
<1>18. ASSUME NEW s \in Steps, BackoffElapses(s) PROVE Uncompiled'
  BY <1>18 DEF BackoffElapses
<1>19. CASE Quiet
  BY <1>19 DEF Quiet
<1> QED
  BY Kinds, <1>1, <1>2, <1>3, <1>4, <1>5, <1>6, <1>7, <1>8, <1>9, <1>10, <1>11, <1>12, <1>13,
     <1>14, <1>15, <1>16, <1>17, <1>18, <1>19

\* Persisted before done, and never erased.
LEMMA StoredStep ==
  ASSUME TypeOK, LeaseInv, OrderInv, Next
  PROVE  Stored'
<1> USE DEF TypeOK, LeaseInv, OrderInv, Fenced, Attempts, Finished, taskVars, stepVars,
          budgetVars, callVars, invVars, worldVars, Working, StepOf, Stored
<1>1. ASSUME NEW i \in Invocations, StartWorkflow(i) PROVE Stored'
  BY <1>1, RunAssumption DEF StartWorkflow, Goes
<1>2. ASSUME NEW i \in Invocations, NEW s \in Steps, Claim(i, s) PROVE Stored'
  BY <1>2, RunAssumption DEF Claim, Claimable, IsNext, AttemptLeft
<1>3. ASSUME NEW i \in Invocations, NEW s \in Steps, ExhaustedAtClaim(i, s) PROVE Stored'
  BY <1>3, RunAssumption DEF ExhaustedAtClaim, Claimable, IsNext, AttemptLeft, PauseRun, Leaves
<1>4. ASSUME NEW i \in Invocations, NEW s \in Steps, HandOffAtClaim(i, s) PROVE Stored'
  BY <1>4, RunAssumption DEF HandOffAtClaim, HandOff, Leaves
<1>5. ASSUME NEW i \in Invocations, HandOffClaimed(i) PROVE Stored'
  BY <1>5, RunAssumption DEF HandOffClaimed, HandOff, StepOf, Leaves
<1>6. ASSUME NEW i \in Invocations, NeedsNoBudget(i) PROVE Stored'
  BY <1>6, RunAssumption DEF NeedsNoBudget, Goes
<1>7. ASSUME NEW i \in Invocations, Reserve(i) PROVE Stored'
  BY <1>7, RunAssumption DEF Reserve, Goes
<1>8. ASSUME NEW i \in Invocations, Refused(i) PROVE Stored'
  BY <1>8, RunAssumption DEF Refused, RefundAttempt, PauseRun, Leaves, StepOf
<1>9. ASSUME NEW i \in Invocations, RunsLocally(i) PROVE Stored'
  BY <1>9, RunAssumption DEF RunsLocally, ReleaseHold, Goes
<1>10. ASSUME NEW i \in Invocations, ThrowsBeforeCall(i) PROVE Stored'
  BY <1>10, RunAssumption DEF ThrowsBeforeCall, ReleaseHold, Goes
<1>11. ASSUME NEW i \in Invocations, Dispatch(i) PROVE Stored'
  BY <1>11, RunAssumption DEF Dispatch, Goes
<1>12. ASSUME NEW i \in Invocations, Settles(i) PROVE Stored'
  BY <1>12, RunAssumption DEF Settles, Goes
<1>13. ASSUME NEW i \in Invocations, CallIsLost(i) PROVE Stored'
  BY <1>13, RunAssumption DEF CallIsLost, Goes
<1>14. ASSUME NEW i \in Invocations, Persist(i) PROVE Stored'
  BY <1>14, RunAssumption DEF Persist, Goes
<1>15. ASSUME NEW i \in Invocations, Done(i) PROVE Stored'
  BY <1>15, RunAssumption DEF Done, FinishClaimedStep, Leaves
<1>16. ASSUME NEW i \in Invocations, Fails(i) PROVE Stored'
  BY <1>16, RunAssumption DEF Fails, FinishClaimedStep, Leaves, Returns
<1>17. ASSUME NEW s \in Steps, LeaseLapses(s) PROVE Stored'
  BY <1>17, RunAssumption DEF LeaseLapses
<1>18. ASSUME NEW s \in Steps, BackoffElapses(s) PROVE Stored'
  BY <1>18, RunAssumption DEF BackoffElapses
<1>19. CASE Quiet
  BY <1>19, RunAssumption DEF Quiet
<1> QED
  BY Kinds, <1>1, <1>2, <1>3, <1>4, <1>5, <1>6, <1>7, <1>8, <1>9, <1>10, <1>11, <1>12, <1>13,
     <1>14, <1>15, <1>16, <1>17, <1>18, <1>19

Behind == {"running", "lapsed", "done"}

\* One step that was not finished moves; into a place that needs finished steps
\* before it only from such a place, or having looked.
Advance(s, v) ==
  /\ status' = [status EXCEPT ![s] = v] /\ status[s] \notin Finished
  /\ v \in Behind => status[s] \in Behind \/ \A r \in 1..(s - 1) : status[r] \in Finished

Statuses == {"pending", "running", "lapsed", "backoff", "failed", "done", "human"}

Steady == UNCHANGED status \/ \E s \in Steps, v \in Statuses : Advance(s, v)

\* Apart from compilation, steps move one at a time and finished ones never.
LEMMA StatusMoves ==
  ASSUME TypeOK, LeaseInv, OrderInv, Next
  PROVE  Steady \/ \E i \in Invocations : StartWorkflow(i)
<1> USE DEF TypeOK, LeaseInv, Fenced, Attempts, Working, Steady, Statuses,
          StepOf, stepVars
<1>1. ASSUME NEW i \in Invocations, NEW s \in Steps, Claim(i, s) PROVE Steady
  <2>1. Advance(s, "running")
    BY <1>1 DEF Claim, Claimable, IsNext, Advance
  <2> QED
    BY <2>1
<1>2. ASSUME NEW i \in Invocations, NEW s \in Steps, ExhaustedAtClaim(i, s) PROVE Steady
  <2>1. Advance(s, "failed")
    BY <1>2 DEF ExhaustedAtClaim, Claimable, IsNext, Advance, Behind
  <2> QED
    BY <2>1
<1>3. ASSUME NEW s \in Steps, HandOff(s) PROVE Steady
  <2>1. UNCHANGED status \/ Advance(s, "human")
    BY <1>3 DEF HandOff, Advance, Behind
  <2> QED
    BY <2>1
<1>4. ASSUME NEW i \in Invocations, NEW s \in Steps, HandOffAtClaim(i, s) PROVE Steady
  BY <1>4, <1>3 DEF HandOffAtClaim
<1>5. ASSUME NEW i \in Invocations, HandOffClaimed(i) PROVE Steady
  <2>1. StepOf(i) \in Steps /\ HandOff(StepOf(i))
    BY <1>5 DEF HandOffClaimed
  <2> QED
    BY <2>1, <1>3
<1>6. ASSUME NEW i \in Invocations, Refused(i) PROVE Steady
  <2> DEFINE s == StepOf(i)
  <2>1. s \in Steps /\ RefundAttempt(i)
    BY <1>6 DEF Refused
  <2>2. UNCHANGED status \/ (status' = [status EXCEPT ![s] = "pending"] /\ holder[s] = i)
    BY <2>1, Zenon DEF RefundAttempt
  <2>3. holder[s] = i => status[s] \notin Finished
    BY <2>1, RunAssumption DEF Finished
  <2>4. UNCHANGED status \/ Advance(s, "pending")
    BY <2>2, <2>3 DEF Advance, Behind
  <2> QED
    BY <2>1, <2>4
<1>7. ASSUME NEW i \in Invocations, Done(i) \/ Fails(i) PROVE Steady
  <2> DEFINE s == StepOf(i)
  <2>1. PICK end \in {"done", "failed", "backoff"} : s \in Steps /\ FinishClaimedStep(i, end)
    BY <1>7 DEF Done, Fails
  <2>2. status[s] \notin Finished /\ status[s] \in Behind
    BY <2>1, RunAssumption DEF FinishClaimedStep, Finished, Behind
  <2>3. Advance(s, end)
    BY <2>1, <2>2 DEF FinishClaimedStep, Advance
  <2> QED
    BY <2>1, <2>3
<1>8. ASSUME NEW s \in Steps, LeaseLapses(s) \/ BackoffElapses(s) PROVE Steady
  <2>1. Advance(s, "lapsed") \/ Advance(s, "failed")
    BY <1>8 DEF LeaseLapses, BackoffElapses, Advance, Behind, Finished
  <2> QED
    BY <2>1
<1>9. ASSUME NEW i \in Invocations,
             \/ NeedsNoBudget(i) \/ Reserve(i) \/ RunsLocally(i) \/ ThrowsBeforeCall(i)
             \/ Dispatch(i) \/ Settles(i) \/ CallIsLost(i) \/ Persist(i)
      PROVE  Steady
  BY <1>9 DEF NeedsNoBudget, Reserve, RunsLocally, ThrowsBeforeCall, Dispatch, Settles,
     CallIsLost, Persist
<1>10. CASE Quiet
  BY <1>10 DEF Quiet
<1> QED
  BY Kinds, <1>1, <1>2, <1>4, <1>5, <1>6, <1>7, <1>8, <1>9, <1>10

\* A claim looks at every earlier step, and finished steps stay finished.
LEMMA OrderedStep ==
  ASSUME TypeOK, LeaseInv, OrderInv, Next
  PROVE  Ordered'
<1>1. CASE UNCHANGED status
  BY <1>1 DEF Ordered, OrderInv, Finished
<1>2. ASSUME NEW s \in Steps, NEW v \in Statuses, Advance(s, v) PROVE Ordered'
  <2> SUFFICES ASSUME NEW t \in Steps, status'[t] \in Behind, NEW r \in 1..(t - 1)
               PROVE  status'[r] \in Finished
    BY DEF Ordered, Behind, Finished
  <2>1. r \in Steps /\ r # t
    BY RunAssumption DEF Steps
  <2>2. status[r] \in Finished
    <3>1. CASE t = s
      <4>1. v \in Behind
        BY <1>2, <3>1 DEF Advance, TypeOK
      <4> QED
        BY <1>2, <3>1, <4>1 DEF Advance, Ordered, OrderInv, Behind
    <3>2. CASE t # s
      BY <1>2, <3>2 DEF Advance, Ordered, OrderInv, Behind, TypeOK
    <3> QED
      BY <3>1, <3>2
  <2> QED
    BY <1>2, <2>1, <2>2 DEF Advance, TypeOK
<1>3. ASSUME NEW i \in Invocations, StartWorkflow(i) PROVE Ordered'
  BY <1>3 DEF StartWorkflow, Ordered
<1> QED
  BY StatusMoves, <1>1, <1>2, <1>3 DEF Steady

\* The machine's steps and their count change together.
LEMMA CountStep ==
  ASSUME TypeOK, LeaseInv, OrderInv, Next
  PROVE  CountIsTrue'
<1> USE DEF TypeOK, LeaseInv, OrderInv, Fenced, CountIsTrue, Uncompiled, Attempts, Finished,
          taskVars, stepVars, budgetVars, callVars, invVars, worldVars, Working, StepOf
<1> DEFINE Same == /\ UNCHANGED automated /\ (run' # "none" => run # "none")
                   /\ \A s \in Steps : status[s] = "human" <=> status'[s] = "human"
<1>1. ASSUME Same PROVE CountIsTrue'
  <2>1. Automated' = Automated
    BY <1>1 DEF Automated
  <2> QED
    BY <1>1, <2>1
<1>2. ASSUME NEW s \in Steps, run # "none", UNCHANGED run, HandOff(s) PROVE CountIsTrue'
  <2>1. CASE status[s] \in Finished
    BY <1>2, <2>1, <1>1 DEF HandOff
  <2>2. CASE status[s] \notin Finished
    <3>1. Automated' = Automated \ {s} /\ s \in Automated
      BY <1>2, <2>2 DEF HandOff, Automated
    <3>2. Cardinality(Automated \ {s}) = Cardinality(Automated) - 1
      <4>1. Automated \in SUBSET Steps
        BY DEF Automated
      <4>2. IsFiniteSet(Automated)
        BY <4>1, AutomatedSize
      <4> QED
        BY <3>1, <4>2, FS_RemoveElement
    <3>3. automated' = automated - 1
      BY <1>2, <2>2 DEF HandOff
    <3>4. automated = Cardinality(Automated)
      BY <1>2
    <3> QED
      BY <3>1, <3>2, <3>3, <3>4
  <2> QED
    BY <2>1, <2>2
<1>3. ASSUME NEW i \in Invocations, StartWorkflow(i) PROVE CountIsTrue'
  <2>1. PICK machine \in SUBSET Steps :
          /\ automated' = Cardinality(machine)
          /\ status' = [s \in Steps |-> IF s \in machine THEN "pending" ELSE "human"]
    BY <1>3 DEF StartWorkflow
  <2>2. Automated' = machine
    BY <2>1 DEF Automated
  <2> QED
    BY <2>1, <2>2
<1>4. ASSUME NEW i \in Invocations, NEW s \in Steps, HandOffAtClaim(i, s) PROVE CountIsTrue'
  BY <1>4, <1>2 DEF HandOffAtClaim
<1>5. ASSUME NEW i \in Invocations, HandOffClaimed(i) PROVE CountIsTrue'
  <2>1. StepOf(i) \in Steps /\ HandOff(StepOf(i)) /\ run # "none" /\ UNCHANGED run
    BY <1>5 DEF HandOffClaimed
  <2> QED
    BY <2>1, <1>2
<1>6. ASSUME NEW i \in Invocations, NEW s \in Steps, Claim(i, s) \/ ExhaustedAtClaim(i, s)
      PROVE  Same
  BY <1>6 DEF Claim, ExhaustedAtClaim, Claimable, IsNext, PauseRun
<1>7. ASSUME NEW s \in Steps, LeaseLapses(s) \/ BackoffElapses(s) PROVE Same
  BY <1>7 DEF LeaseLapses, BackoffElapses
<1>8. ASSUME NEW i \in Invocations, Refused(i) PROVE Same
  <2>1. StepOf(i) \in Steps /\ UNCHANGED automated /\ RefundAttempt(i) /\ run # "none"
    BY <1>8 DEF Refused
  <2> QED
    BY <2>1, RunAssumption DEF RefundAttempt
<1>9. ASSUME NEW i \in Invocations, Done(i) \/ Fails(i) PROVE Same
  <2>1. PICK end : FinishClaimedStep(i, end) /\ end # "human"
    BY <1>9 DEF Done, Fails
  <2>2. StepOf(i) \in Steps /\ UNCHANGED <<automated, run>>
    BY <1>9 DEF Done, Fails
  <2> QED
    BY <2>1, <2>2, RunAssumption DEF FinishClaimedStep
<1>10. ASSUME NEW i \in Invocations,
              \/ NeedsNoBudget(i) \/ Reserve(i) \/ RunsLocally(i) \/ ThrowsBeforeCall(i)
              \/ Dispatch(i) \/ Settles(i) \/ CallIsLost(i) \/ Persist(i)
       PROVE  Same
  BY <1>10 DEF NeedsNoBudget, Reserve, RunsLocally, ThrowsBeforeCall, Dispatch, Settles,
     CallIsLost, Persist
<1>11. CASE Quiet
  BY <1>11, <1>1 DEF Quiet
<1> QED
  BY Kinds, <1>1, <1>3, <1>4, <1>5, <1>6, <1>7, <1>8, <1>9, <1>10, <1>11

\* Once the machine block is done it stays so.
LEMMA AllDoneStays ==
  ASSUME TypeOK, LeaseInv, OrderInv, Next, AllDone, Steady
  PROVE  AllDone'
BY DEF AllDone, Steady, Advance, Finished

\* The walk ends in a handover only with the machine block done.
LEMMA ClosedStep ==
  ASSUME TypeOK, LeaseInv, OrderInv, CloseInv, Next
  PROVE  Closed'
<1> DEFINE Ending == {"handover", "overBudget", "publish"}
<1>1. ASSUME NEW i \in Invocations, StartWorkflow(i) PROVE Closed'
  <2>1. \A j \in Invocations : at'[j] \in Ending => j = i /\ at'[i] = "handover"
    BY <1>1 DEF StartWorkflow, Goes, OrderInv, Uncompiled, TypeOK
  <2>2. at'[i] = "handover" => AllDone'
    BY <1>1 DEF StartWorkflow, Goes, TypeOK, AllDone, Finished
  <2> QED
    BY <2>1, <2>2 DEF Closed
<1>2. ASSUME Steady, \A j \in Invocations : at'[j] \in Ending => at[j] \in Ending \/ AllDone
      PROVE  Closed'
  BY <1>2, AllDoneStays DEF Closed, CloseInv
<1>3. ASSUME ~ \E i \in Invocations : StartWorkflow(i)
      PROVE  \A j \in Invocations : at'[j] \in Ending => at[j] \in Ending \/ AllDone
  <2> USE DEF TypeOK, Leaves, Goes, Returns
  <2>1. ASSUME NEW i \in Invocations, Closes(i)
        PROVE  \A j \in Invocations : at'[j] \in Ending => at[j] \in Ending \/ AllDone
    BY <2>1 DEF Closes, AllDone, Automated, Finished
  <2>2. ASSUME NEW i \in Invocations, FinishRun(i)
        PROVE  \A j \in Invocations : at'[j] \in Ending => at[j] \in Ending \/ AllDone
    BY <2>2 DEF FinishRun
  <2>3. ASSUME UNCHANGED at \/ \E i \in Invocations, p \in {"idle", "walk", "again", "closing",
                 "pausing", "claimed", "ready", "calling", "answered", "persisted", "failing",
                 "fatal"} : at' = [at EXCEPT ![i] = p]
        PROVE  \A j \in Invocations : at'[j] \in Ending => at[j] \in Ending \/ AllDone
    BY <2>3
  <2>4. ASSUME NEW i \in Invocations,
               Tick(i) \/ Takes(i) \/ Works(i) \/ EndsWalk(i) \/ PausesRun(i) \/ OverBudget(i)
                 \/ Publish(i) \/ Dies(i)
        PROVE  UNCHANGED at \/ \E p \in {"idle", "walk", "again", "closing", "pausing", "claimed",
                 "ready", "calling", "answered", "persisted", "failing", "fatal"} :
                   at' = [at EXCEPT ![i] = p]
    BY <2>4 DEF Tick, Takes, Claim, ExhaustedAtClaim, HandOffAtClaim, Works, HandOffClaimed,
       NeedsNoBudget, Reserve, Refused, RunsLocally, ThrowsBeforeCall, Dispatch, Settles,
       CallIsLost, Persist, Done, Fails, Superseded, EndsWalk, PausesRun, OverBudget, Publish,
       Dies, invVars
  <2>5. ASSUME NEW s \in Steps, LeaseLapses(s) \/ BackoffElapses(s) PROVE UNCHANGED at
    BY <2>5 DEF LeaseLapses, BackoffElapses, invVars
  <2>6. ASSUME ReleaseUncompiled \/ SweepAbandons \/ SweepReleases \/ PaymentLapses \/ Cancel
        PROVE  UNCHANGED at
    BY <2>6 DEF ReleaseUncompiled, SweepAbandons, SweepReleases, PaymentLapses, Cancel, invVars
  <2> QED
    BY <1>3, <2>1, <2>2, <2>3, <2>4, <2>5, <2>6 DEF Next, Advances, Ends
<1> QED
  BY StatusMoves, <1>1, <1>2, <1>3

\* The residual is written with the package, once, and then nothing is.
LEMMA EarnedStep ==
  ASSUME TypeOK, LeaseInv, OrderInv, CloseInv, Next
  PROVE  Earned' /\ (task = "open" => payout' = payout /\ task' = "open")
<1> DEFINE Kept == UNCHANGED <<payout, package>> /\ (task = "open" => task' = "open")
<1>1. ASSUME NEW i \in Invocations, Publish(i)
      PROVE  /\ payout' = "residual" => task' = "open" /\ package' /\ AllDone
             /\ task = "open" => payout' = payout /\ task' = "open"
  BY <1>1 DEF Publish, TypeOK, CloseInv, Closed, Earned
<1>2. ASSUME NEW i \in Invocations, ~Publish(i), StartWorkflow(i) \/ Advances(i) \/ Dies(i)
      PROVE  Kept
  BY <1>2 DEF Advances, Takes, Works, Ends, StartWorkflow, Dies, Tick, Claim, ExhaustedAtClaim,
     HandOffAtClaim, HandOffClaimed, NeedsNoBudget, Reserve, Refused, RunsLocally,
     ThrowsBeforeCall, Dispatch, Settles, CallIsLost, Persist, Done, Fails, Superseded, EndsWalk,
     PausesRun, Closes, FinishRun, OverBudget, taskVars
<1>3. ASSUME NEW s \in Steps, LeaseLapses(s) \/ BackoffElapses(s) PROVE Kept
  BY <1>3 DEF LeaseLapses, BackoffElapses, taskVars
<1>4. ASSUME ReleaseUncompiled \/ SweepAbandons \/ SweepReleases \/ PaymentLapses \/ Cancel
      PROVE  Kept
  BY <1>4 DEF ReleaseUncompiled, SweepAbandons, SweepReleases, ReleaseToPool, PaymentLapses,
     Cancel, taskVars
<1>5. /\ payout' = "residual" => task' = "open" /\ package' /\ AllDone
      /\ task = "open" => payout' = payout /\ task' = "open"
  BY <1>1, <1>2, <1>3, <1>4 DEF Next, CloseInv, Earned, TypeOK
<1>6. payout' = "residual" => AllDone'
  <2>1. ASSUME NEW i \in Invocations, StartWorkflow(i) PROVE payout' # "residual"
    BY <2>1 DEF StartWorkflow, CloseInv, Earned, TypeOK
  <2> QED
    BY <2>1, <1>5, StatusMoves, AllDoneStays
<1> QED
  BY <1>5, <1>6 DEF Earned

\* The refund of an attempt needs Fenced, the count of machine steps CountIsTrue.
LEMMA TypeStep ==
  ASSUME TypeOK, LeaseInv, OrderInv, Next
  PROVE  TypeOK'
<1> USE DEF TypeOK, LeaseInv, Fenced, Attempts, taskVars, stepVars, budgetVars, callVars,
          invVars, worldVars, Working, StepOf
<1> DEFINE Size == automated' \in 0..NSteps
<1>0. run' # "none" => Size
  <2>1. Automated' \in SUBSET Steps
    BY DEF Automated
  <2> QED
    BY <2>1, CountStep, AutomatedSize DEF CountIsTrue
<1>1. ASSUME NEW i \in Invocations, StartWorkflow(i) PROVE TypeOK'
  <2>1. Size
    BY <1>1, <1>0 DEF StartWorkflow
  <2> QED
    BY <1>1, <2>1 DEF StartWorkflow, Goes
<1>2. ASSUME NEW i \in Invocations, NEW s \in Steps, Claim(i, s) PROVE TypeOK'
  BY <1>2, RunAssumption DEF Claim, AttemptLeft
<1>3. ASSUME NEW i \in Invocations, NEW s \in Steps, ExhaustedAtClaim(i, s) PROVE TypeOK'
  BY <1>3, RunAssumption DEF ExhaustedAtClaim, AttemptLeft, PauseRun, Leaves
<1>4. ASSUME NEW i \in Invocations, NEW s \in Steps, HandOffAtClaim(i, s) PROVE TypeOK'
  <2>1. Size
    BY <1>4, <1>0 DEF HandOffAtClaim, OrderInv, Uncompiled
  <2> QED
    BY <1>4, <2>1 DEF HandOffAtClaim, HandOff, Leaves
<1>5. ASSUME NEW i \in Invocations, HandOffClaimed(i) PROVE TypeOK'
  <2>1. Size
    BY <1>5, <1>0 DEF HandOffClaimed, OrderInv, Uncompiled
  <2> QED
    BY <1>5, <2>1 DEF HandOffClaimed, HandOff, Leaves
<1>6. ASSUME NEW i \in Invocations, NeedsNoBudget(i) PROVE TypeOK'
  BY <1>6, RunAssumption DEF NeedsNoBudget, Goes
<1>7. ASSUME NEW i \in Invocations, Reserve(i) PROVE TypeOK'
  BY <1>7, RunAssumption DEF Reserve, Goes
<1>8. ASSUME NEW i \in Invocations, Refused(i) PROVE TypeOK'
  BY <1>8, RunAssumption DEF Refused, RefundAttempt, PauseRun, Leaves, StepOf
<1>9. ASSUME NEW i \in Invocations, RunsLocally(i) PROVE TypeOK'
  BY <1>9, RunAssumption DEF RunsLocally, ReleaseHold, Goes
<1>10. ASSUME NEW i \in Invocations, ThrowsBeforeCall(i) PROVE TypeOK'
  BY <1>10, RunAssumption DEF ThrowsBeforeCall, ReleaseHold, Goes
<1>11. ASSUME NEW i \in Invocations, Dispatch(i) PROVE TypeOK'
  BY <1>11, RunAssumption DEF Dispatch, Goes
<1>12. ASSUME NEW i \in Invocations, Settles(i) PROVE TypeOK'
  BY <1>12, RunAssumption DEF Settles, Goes
<1>13. ASSUME NEW i \in Invocations, CallIsLost(i) PROVE TypeOK'
  BY <1>13, RunAssumption DEF CallIsLost, Goes
<1>14. ASSUME NEW i \in Invocations, Persist(i) PROVE TypeOK'
  BY <1>14, RunAssumption DEF Persist, Goes
<1>15. ASSUME NEW i \in Invocations, Done(i) PROVE TypeOK'
  BY <1>15, RunAssumption DEF Done, FinishClaimedStep, Leaves
<1>16. ASSUME NEW i \in Invocations, Fails(i) PROVE TypeOK'
  BY <1>16, RunAssumption DEF Fails, FinishClaimedStep, Leaves, Returns
<1>17. ASSUME NEW s \in Steps, LeaseLapses(s) PROVE TypeOK'
  BY <1>17, RunAssumption DEF LeaseLapses
<1>18. ASSUME NEW s \in Steps, BackoffElapses(s) PROVE TypeOK'
  BY <1>18, RunAssumption DEF BackoffElapses
<1>19. ASSUME NEW i \in Invocations, Tick(i) PROVE TypeOK'
  BY <1>19, RunAssumption DEF Tick, Goes
<1>20. ASSUME NEW i \in Invocations, EndsWalk(i) PROVE TypeOK'
  BY <1>20, RunAssumption DEF EndsWalk, Leaves
<1>21. ASSUME NEW i \in Invocations, Superseded(i) PROVE TypeOK'
  BY <1>21, RunAssumption DEF Superseded, Leaves
<1>22. ASSUME NEW i \in Invocations, PausesRun(i) PROVE TypeOK'
  BY <1>22, RunAssumption DEF PausesRun, PauseRun, Leaves, Returns
<1>23. ASSUME NEW i \in Invocations, Closes(i) PROVE TypeOK'
  <2>1. UNCHANGED <<taskVars, stepVars, payload, budgetVars, callVars, worldVars>>
    BY <1>23 DEF Closes
  <2>2. \E p \in {"handover", "idle"} : at' = [at EXCEPT ![i] = p]
    BY <1>23 DEF Closes, Goes, Leaves, Returns
  <2>3. on' = on \/ on' = [on EXCEPT ![i] = <<0, 0>>]
    BY <1>23 DEF Closes, Goes, Leaves, Returns
  <2>4. at' \in [Invocations -> Working \cup {"idle", "walk", "again", "closing", "pausing",
                                             "handover", "overBudget", "publish"}]
    BY <2>2
  <2>5. /\ on' \in [Invocations -> Attempts \cup {<<0, 0>>}]
        /\ \A j \in Invocations : at'[j] \in Working => on'[j] \in Attempts
    BY <2>2, <2>3
  <2> QED
    BY <2>1, <2>4, <2>5
<1>24. ASSUME NEW i \in Invocations, FinishRun(i) PROVE TypeOK'
  <2>1. UNCHANGED <<taskVars, stepVars, payload, budgetVars, callVars, worldVars>>
    BY <1>24 DEF FinishRun
  <2>2. \E p \in {"publish", "overBudget", "idle"} : at' = [at EXCEPT ![i] = p]
    BY <1>24 DEF FinishRun, Goes, Leaves, Returns
  <2>3. on' = on \/ on' = [on EXCEPT ![i] = <<0, 0>>]
    BY <1>24 DEF FinishRun, Goes, Leaves, Returns
  <2>4. at' \in [Invocations -> Working \cup {"idle", "walk", "again", "closing", "pausing",
                                             "handover", "overBudget", "publish"}]
    BY <2>2
  <2>5. /\ on' \in [Invocations -> Attempts \cup {<<0, 0>>}]
        /\ \A j \in Invocations : at'[j] \in Working => on'[j] \in Attempts
    BY <2>2, <2>3
  <2> QED
    BY <2>1, <2>4, <2>5
<1>25. ASSUME NEW i \in Invocations, OverBudget(i) PROVE TypeOK'
  BY <1>25, RunAssumption DEF OverBudget, Leaves, Returns
<1>26. ASSUME NEW i \in Invocations, Publish(i) PROVE TypeOK'
  BY <1>26, RunAssumption DEF Publish, Leaves, Returns
<1>27. ASSUME NEW i \in Invocations, Dies(i) PROVE TypeOK'
  BY <1>27, RunAssumption DEF Dies, Leaves, Returns
<1>28. ASSUME ReleaseUncompiled PROVE TypeOK'
  BY <1>28, RunAssumption DEF ReleaseUncompiled, ReleaseToPool
<1>29. ASSUME SweepAbandons PROVE TypeOK'
  BY <1>29, RunAssumption DEF SweepAbandons
<1>30. ASSUME SweepReleases PROVE TypeOK'
  BY <1>30, RunAssumption DEF SweepReleases, ReleaseToPool
<1>31. ASSUME Cancel PROVE TypeOK'
  BY <1>31, RunAssumption DEF Cancel
<1>32. ASSUME PaymentLapses PROVE TypeOK'
  BY <1>32, RunAssumption DEF PaymentLapses
<1> QED
  BY <1>1, <1>2, <1>3, <1>4, <1>5, <1>6, <1>7, <1>8, <1>9, <1>10, <1>11, <1>12, <1>13, <1>14,
     <1>15, <1>16, <1>17, <1>18, <1>19, <1>20, <1>21, <1>22, <1>23, <1>24, <1>25, <1>26, <1>27,
     <1>28, <1>29, <1>30, <1>31, <1>32 DEF Next, Advances, Takes, Works, Ends

-----------------------------------------------------------------------------
(* Theorems.                                                               *)

LEMMA InitInv == Init => Inv
<1> SUFFICES ASSUME Init PROVE Inv
  OBVIOUS
<1> USE RunAssumption DEF Init, Attempts, Working
<1>1. TypeOK
  <2>1. 0 \in 0..NSteps /\ 0 \in 0..MaxAttempts /\ 0 \in 0..MaxDeaths
    OBVIOUS
  <2> QED
    BY <2>1 DEF TypeOK
<1>2. LeaseInv
  BY DEF LeaseInv, Fenced, Attributed
<1>3. MoneyInv
  <2>1. Counted
    <3>1. \A s \in Steps : {k \in sent : k[1] = s} = {}
      OBVIOUS
    <3> QED
      BY <3>1, FS_EmptySet DEF Counted
  <2> QED
    BY <2>1 DEF MoneyInv, Reserved, SentIsCovered
<1>4. OrderInv
  BY DEF OrderInv, Uncompiled, Stored, Ordered, CountIsTrue
<1>5. CloseInv
  BY DEF CloseInv, Closed, Earned
<1> QED
  BY <1>1, <1>2, <1>3, <1>4, <1>5 DEF Inv

\* The inductive invariant the other theorems follow from.
THEOREM Invariance == Spec => []Inv
<1>1. Inv /\ [Next]_vars => Inv'
  <2> SUFFICES ASSUME Inv, [Next]_vars PROVE Inv'
    OBVIOUS
  <2>1. CASE Next
    BY <2>1, TypeStep, FencedStep, AttributedStep, ReservedStep, CoveredStep, CountedStep,
       UncompiledStep, StoredStep, OrderedStep, CountStep, ClosedStep, EarnedStep
       DEF Inv, LeaseInv, MoneyInv, OrderInv, CloseInv
  <2>2. CASE UNCHANGED vars
    BY <2>2 DEF vars, taskVars, stepVars, budgetVars, callVars, invVars, worldVars, Inv, TypeOK,
       LeaseInv,
       Fenced, Attributed, StepOf, MoneyInv, Reserved, SentIsCovered, Counted, OrderInv,
       Uncompiled, Stored, Ordered, CountIsTrue, Automated, CloseInv, Closed, Earned, AllDone
  <2> QED
    BY <2>1, <2>2
<1> QED
  BY <1>1, InitInv, PTL DEF Spec

\* Rows keep to their tables' statuses and counters to the contract's limits.
THEOREM TypeCorrect == Spec => []TypeOK
<1>1. Inv => TypeOK
  BY DEF Inv
<1> QED
  BY <1>1, Invariance, PTL

\* A request that left is settled or still holds its worst case.
THEOREM NoCallIsFree == Spec => []SentIsCovered
<1>1. Inv => SentIsCovered
  BY DEF Inv, MoneyInv
<1> QED
  BY <1>1, Invariance, PTL

\* Lapsed leases, ghosts and refunds never bill a step more than was funded.
THEOREM FundedCalls == Spec => []CallsAreFunded
<1>1. Inv => CallsAreFunded
  BY CallsOfAStep DEF Inv, TypeOK, MoneyInv, Counted, CallsAreFunded
<1> QED
  BY <1>1, Invariance, PTL

\* Steps run in order and behind stored payloads.
THEOREM InOrder == Spec => []FedByPredecessor
<1>1. Inv => FedByPredecessor
  <2> SUFFICES ASSUME Inv, NEW s \in Steps, status[s] \in {"running", "lapsed", "done"},
                      NEW r \in 1..(s - 1)
               PROVE  status[r] \in Finished /\ (status[r] = "done" => payload[r] # 0)
    BY DEF FedByPredecessor
  <2>1. r \in Steps
    BY RunAssumption DEF Steps
  <2> QED
    BY <2>1 DEF Inv, OrderInv, Ordered, Stored
<1> QED
  BY <1>1, Invariance, PTL

\* The residual is computed from the machine's real share.
THEOREM HonestCount == Spec => []CountIsTrue
<1>1. Inv => CountIsTrue
  BY DEF Inv, OrderInv
<1> QED
  BY <1>1, Invariance, PTL

\* No worker is offered the residual of work that was not done.
THEOREM EarnedResidual == Spec => []ResidualIsEarned
<1>1. Inv => ResidualIsEarned
  BY DEF Inv, TypeOK, CloseInv, Earned, AllDone, Finished, Automated, ResidualIsEarned
<1> QED
  BY <1>1, Invariance, PTL

\* What the pool shows does not move.
THEOREM PayoutStays == Spec => PublishedPayoutStays
<1>1. Inv /\ [Next]_vars => [task = "open" => payout' = payout /\ task' = "open"]_vars
  BY EarnedStep DEF Inv
<1> QED
  BY <1>1, Invariance, PTL DEF Spec, PublishedPayoutStays

-----------------------------------------------------------------------------
(* The budget is a ledger.                                                 *)

\* Taking one hold, or giving one back, moves the promise by one worst case.
LEMMA OneHold ==
  ASSUME NEW H \in SUBSET Attempts, NEW k \in Attempts
  PROVE  /\ Cardinality(H) * WorstCase \in Int
         /\ k \notin H => Cardinality(H \cup {k}) * WorstCase = Cardinality(H) * WorstCase + WorstCase
         /\ k \in H => Cardinality(H \ {k}) * WorstCase = Cardinality(H) * WorstCase - WorstCase
<1>1. IsFiniteSet(H) /\ Cardinality(H) \in Nat /\ WorstCase \in Nat
  BY Sizes, FS_Subset, FS_CardinalityType, RunAssumption
<1>2. k \notin H => Cardinality(H \cup {k}) = Cardinality(H) + 1
  BY <1>1, FS_AddElement
<1>3. k \in H => Cardinality(H \ {k}) = Cardinality(H) - 1
  BY <1>1, FS_RemoveElement
<1> QED
  BY <1>1, <1>2, <1>3

\* What a step does to holds and spending is a ledger step or none.
LEMMA LedgerStep == Inv /\ [Next]_vars => [Ledger!Next]_(Ledger!vars)
<1> SUFFICES ASSUME Inv, [Next]_vars PROVE Ledger!Next \/ UNCHANGED <<Held, Promised, spent>>
  BY DEF Ledger!vars
<1> USE DEF budgetVars
<1>0. /\ Held \in SUBSET Attempts /\ hold \in [Attempts -> {"none", "held", "settled", "released"}]
      /\ \A i \in Invocations : at[i] \in Working => on[i] \in Attempts
      /\ TypeOK /\ OrderInv /\ Reserved
  BY DEF Inv, TypeOK, Held, MoneyInv
<1>1. ASSUME UNCHANGED budgetVars PROVE UNCHANGED <<Held, Promised, spent>>
  BY <1>1 DEF Held, Promised
<1>2. ASSUME NEW i \in Invocations, Reserve(i) PROVE Ledger!Next
  <2>1. on[i] \in Attempts /\ hold[on[i]] = "none" /\ Committed + WorstCase <= Ceiling
    BY <1>0, <1>2 DEF Reserve, Reserved, Working
  <2>2. hold' = [hold EXCEPT ![on[i]] = "held"] /\ spent' = spent
    BY <2>1, <1>2 DEF Reserve
  <2>3. Held' = Held \cup {on[i]} /\ on[i] \notin Held
    BY <2>1, <2>2, <1>0 DEF Held
  <2>4. Promised' = Promised + WorstCase
    BY <2>1, <2>3, <1>0, OneHold DEF Promised
  <2>5. Ledger!Reserve(on[i])
    BY <2>1, <2>2, <2>3, <2>4 DEF Ledger!Reserve, Committed
  <2> QED
    BY <2>1, <2>5, Zenon DEF Ledger!Next
<1>3. ASSUME NEW k \in Attempts, hold[k] = "held", NEW v \in {"settled", "released"},
             hold' = [hold EXCEPT ![k] = v]
      PROVE  Ledger!GivesBack(k)
  <2>1. k \in Held /\ Held' = Held \ {k}
    BY <1>0, <1>3 DEF Held
  <2>2. Promised' = Promised - WorstCase
    BY <2>1, <1>0, OneHold DEF Promised
  <2> QED
    BY <2>1, <2>2 DEF Ledger!GivesBack
<1>4. ASSUME NEW i \in Invocations, Settles(i) PROVE Ledger!Next
  <2>1. on[i] \in Attempts /\ hold[on[i]] = "held"
    BY <1>0, <1>4 DEF Settles, Reserved, Working
  <2>2. hold' = [hold EXCEPT ![on[i]] = "settled"] /\ \E c \in 0..WorstCase : spent' = spent + c
    BY <1>4, <2>1 DEF Settles
  <2>3. Ledger!Settle(on[i])
    BY <2>1, <2>2, <1>3 DEF Ledger!Settle
  <2> QED
    BY <2>1, <2>3, Zenon DEF Ledger!Next
<1>10. ASSUME NEW k \in Attempts, ReleaseHold(k), UNCHANGED spent
      PROVE  Ledger!Next \/ UNCHANGED <<Held, Promised, spent>>
  <2>1. CASE hold[k] = "held"
    <3>1. Ledger!Release(k)
      BY <1>10, <2>1, <1>3 DEF ReleaseHold, Ledger!Release
    <3> QED
      BY <3>1, Zenon DEF Ledger!Next
  <2>2. CASE hold[k] # "held"
    BY <1>10, <1>0, <1>1, <2>2 DEF ReleaseHold
  <2> QED
    BY <2>1, <2>2
<1>5. ASSUME NEW i \in Invocations, RunsLocally(i) \/ ThrowsBeforeCall(i)
      PROVE  Ledger!Next \/ UNCHANGED <<Held, Promised, spent>>
  <2>1. on[i] \in Attempts
    BY <1>0, <1>5 DEF RunsLocally, ThrowsBeforeCall, Working
  <2>2. UNCHANGED spent /\ (ReleaseHold(on[i]) \/ UNCHANGED hold)
    BY <1>5 DEF RunsLocally, ThrowsBeforeCall
  <2> QED
    BY <2>1, <2>2, <1>1, <1>10
<1>6. ASSUME NEW i \in Invocations,
             \/ StartWorkflow(i) \/ Takes(i) \/ HandOffClaimed(i) \/ NeedsNoBudget(i) \/ Refused(i)
             \/ Dispatch(i) \/ CallIsLost(i) \/ Persist(i) \/ Done(i) \/ Fails(i)
      PROVE  UNCHANGED budgetVars
  BY <1>6 DEF StartWorkflow, Takes, Claim, ExhaustedAtClaim, HandOffAtClaim, HandOffClaimed,
     NeedsNoBudget, Refused, Dispatch, CallIsLost, Persist, Done, Fails
<1>7. ASSUME NEW s \in Steps, LeaseLapses(s) \/ BackoffElapses(s) PROVE UNCHANGED budgetVars
  BY <1>7 DEF LeaseLapses, BackoffElapses
<1>8. CASE Quiet
  BY <1>8, <1>1 DEF Quiet
<1>9. CASE UNCHANGED vars
  BY <1>9, <1>1 DEF vars
<1> QED
  BY <1>0, Kinds, <1>1, <1>2, <1>4, <1>5, <1>6, <1>7, <1>8, <1>9 DEF Takes

\* The run's budget implements SpendLedger.
THEOREM BudgetImplementsLedger == Spec => BudgetIsALedger
<1>1. Init => Ledger!Init
  <2>1. Init => Held = {}
    BY DEF Init, Held
  <2>2. Cardinality({}) * WorstCase = 0
    BY FS_EmptySet, RunAssumption
  <2> QED
    BY <2>1, <2>2 DEF Init, Ledger!Init, Promised
<1> QED
  BY <1>1, LedgerStep, Invariance, PTL DEF Spec, Ledger!Spec, BudgetIsALedger

LedgerFacts == INSTANCE SpendLedger_proofs WITH
  Keys <- Attempts, held <- Held, promised <- Promised

\* So a run never spends, nor may still be charged, more than the client's
\* acceptance allowed it.
THEOREM RunStaysInBudget == Spec => [](Committed <= Ceiling)
<1>1. LedgerFacts!LedgerConstants
  BY RunAssumption DEF LedgerFacts!LedgerConstants
<1>2. LedgerFacts!WithinCeiling <=> Committed <= Ceiling
  BY DEF LedgerFacts!WithinCeiling, Committed
<1>3. LedgerFacts!Spec => []LedgerFacts!WithinCeiling
  BY <1>1, LedgerFacts!CeilingHolds
<1>4. /\ Ledger!Init <=> LedgerFacts!Init
      /\ [Ledger!Next]_(Ledger!vars) <=> [LedgerFacts!Next]_(LedgerFacts!vars)
  BY DEF Ledger!Init, LedgerFacts!Init, Ledger!vars, LedgerFacts!vars, Ledger!Next,
     LedgerFacts!Next, Ledger!Reserve, LedgerFacts!Reserve, Ledger!Settle, LedgerFacts!Settle,
     Ledger!Release, LedgerFacts!Release, Ledger!GivesBack, LedgerFacts!GivesBack
<1> QED
  BY <1>2, <1>3, <1>4, BudgetImplementsLedger, PTL DEF BudgetIsALedger, Ledger!Spec, LedgerFacts!Spec
=============================================================================
