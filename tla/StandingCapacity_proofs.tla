------------------------ MODULE StandingCapacity_proofs ------------------------
(***************************************************************************)
(* What the standing run checks on two tasks, two workers and two weeks,   *)
(* for any number of them, any block and any clock.  Weeks start on        *)
(* multiples of Week (CalendarInv), the submission in flight fits what is  *)
(* left of the block (MinutesInv), no two tasks were taken from a week     *)
(* behind the same one they were made in (StraysApart, of BookingInv), and *)
(* a row that paid a worker closes no earlier than the week it paid        *)
(* (RowsInv).                                                              *)
(***************************************************************************)
EXTENDS StandingCapacity, TLAPS, FiniteSetTheorems

LEMMA Bounds ==
  /\ Nobody \notin Workers
  /\ Week \in Nat \ {0} /\ Block \in Nat /\ Sizes \subseteq Nat
  /\ CreatedLater \in BOOLEAN /\ MaxBackdated \in Nat \ {0} /\ Horizon \in Nat
  BY StandingAssumption DEF StandingAssumption

AtMostOne(S) == \A a, b \in S : a = b

LEMMA OneOrNone ==
  ASSUME NEW S, AtMostOne(S)
  PROVE  Cardinality(S) <= 1
<1>1. CASE S = {}
  BY <1>1, FS_EmptySet
<1>2. CASE S # {}
  <2>1. PICK x \in S : TRUE
    BY <1>2
  <2>2. S = {x}
    BY <2>1 DEF AtMostOne
  <2>3. Cardinality({x}) = 1
    BY FS_Singleton
  <2> QED BY <2>2, <2>3
<1> QED BY <1>1, <1>2

-----------------------------------------------------------------------------
(* The calendar: multiples of Week.                                        *)

LEMMA Multiples ==
  ASSUME NEW week \in Weeks
  PROVE  /\ week \in Nat /\ week \div Week \in Nat
         /\ week = Week * (week \div Week)
  BY Bounds DEF Weeks

LEMMA MultipleIsWeek ==
  ASSUME NEW k \in Int, Week * k \in 0..Horizon
  PROVE  Week * k \in Weeks
  BY Bounds DEF Weeks

LEMMA Distributes ==
  ASSUME NEW a \in Int, NEW b \in Int
  PROVE  Week * (a + b) = Week * a + Week * b
  BY Bounds

LEMMA WholeWeeks ==
  ASSUME NEW n \in Nat
  PROVE  n \div Week \in Nat /\ Week * (n \div Week) <= n
  BY Bounds

\* Two starts of weeks are the same, or a week apart.
LEMMA WeeksApart ==
  ASSUME NEW v \in Weeks, NEW w \in Weeks
  PROVE  v = w \/ v + Week <= w \/ w + Week <= v
<1>1. ASSUME NEW a \in Int, NEW b \in Int, a < b PROVE Week * a + Week <= Week * b
  BY <1>1, Bounds
<1> QED BY <1>1, Multiples

\* A roll lands on the start of a week that is not ahead.
LEMMA Rolls ==
  ASSUME NEW from \in Weeks, NEW now \in 0..Horizon, from <= now
  PROVE  RollForward(from, now) \in Weeks /\ RollForward(from, now) <= now
<1> DEFINE a == from \div Week
           b == (now - from) \div Week
<1>1. a \in Nat /\ from = Week * a
  BY Multiples
<1>2. b \in Nat /\ Week * b <= now - from
  BY <1>1, WholeWeeks, Bounds
<1>3. Week * b \in Nat /\ from + Week * b = Week * (a + b)
  BY <1>1, <1>2, Distributes, Bounds
<1> HIDE DEF a, b
<1>4. from + Week * b \in 0..Horizon
  BY <1>1, <1>2, <1>3, Bounds DEF Weeks
<1>5. RollForward(from, now) = from + Week * b
  BY DEF RollForward, b
<1> QED BY <1>1, <1>2, <1>3, <1>4, <1>5, MultipleIsWeek, Bounds DEF Weeks

\* A roll stays in the week it is in or moves on whole weeks, and always
\* reaches the present.
LEMMA RollsWhole ==
  ASSUME NEW from \in Weeks, NEW now \in 0..Horizon, from <= now
  PROVE  /\ now < RollForward(from, now) + Week
         /\ RollForward(from, now) = from \/ RollForward(from, now) >= from + Week
         /\ from + Week <= now => RollForward(from, now) >= from + Week
<1> DEFINE n == now - from
           b == n \div Week
<1>1. n \in Nat /\ from \in Nat /\ now \in Nat /\ Week \in Nat \ {0}
  BY Bounds, Multiples
<1> HIDE DEF n
<1>2. b \in Nat /\ Week * b <= n /\ n < Week * b + Week
  BY <1>1
<1>3. b = 0 => Week * b = 0
  BY <1>1
<1>4. b >= 1 => Week * b >= Week
  BY <1>1, <1>2
<1>5. RollForward(from, now) = from + Week * b
  BY DEF RollForward, b, n
<1>6. now = from + n
  BY <1>1 DEF n
<1>7. Week * b \in Nat
  BY <1>1, <1>2
<1>8. b = 0 \/ b >= 1
  BY <1>2
<1> HIDE DEF b
<1> QED BY <1>1, <1>2, <1>3, <1>4, <1>5, <1>6, <1>7, <1>8

\* An operator selects starts of weeks that are not ahead.
LEMMA Selects ==
  ASSUME start \in Weeks, clock \in 0..Horizon, start <= clock, NEW week \in Selectable
  PROVE  week \in Weeks /\ week <= clock
<1>1. PICK k \in 0..(MaxBackdated - 1) : week = start - k * Week
                                         /\ (k = 0 \/ ~Predates(start - k * Week))
  BY DEF Selectable
<1> DEFINE a == start \div Week
<1>2. a \in Nat /\ start = Week * a /\ start \in Nat
  BY Multiples
<1>3. k \in Nat /\ Week \in Nat /\ k * Week \in Nat
  BY <1>1, Bounds
<1>4. Week * (a + (0 - k)) = Week * a + Week * (0 - k) /\ Week * (0 - k) = 0 - k * Week
  BY <1>2, <1>3, Distributes
<1> HIDE DEF a
<1>5. week = Week * (a + (0 - k)) /\ week \in Int
  BY <1>1, <1>2, <1>3, <1>4
<1>6. week >= 0 /\ week <= start
  BY <1>1, <1>2, <1>3, Bounds DEF Predates
<1> QED BY <1>2, <1>3, <1>5, <1>6, MultipleIsWeek, Bounds DEF Weeks

-----------------------------------------------------------------------------
(* Counting minutes.                                                       *)

\* The minutes of the tasks of S, sized by f.
Laid(f, S) == UNION {{t} \X (1..f[t]) : t \in S}

Fits(f, S) == \A t \in S : f[t] \in 0..Block

LEMMA LaidMember ==
  ASSUME NEW f, NEW S, NEW p
  PROVE  p \in Laid(f, S) <=> \E t \in S : \E m \in 1..f[t] : p = <<t, m>>
  BY DEF Laid

LEMMA LaidFinite ==
  ASSUME NEW f, NEW S \in SUBSET Tasks, Fits(f, S)
  PROVE  IsFiniteSet(Laid(f, S)) /\ Cardinality(Laid(f, S)) \in Nat
<1>1. IsFiniteSet(Tasks) /\ Block \in Nat
  BY StandingAssumption DEF StandingAssumption
<1>2. IsFiniteSet(1..Block)
  BY <1>1, FS_Interval
<1>3. IsFiniteSet(Tasks \X (1..Block))
  BY <1>1, <1>2, FS_Product
<1>4. ASSUME NEW p \in Laid(f, S) PROVE p \in Tasks \X (1..Block)
  <2>1. PICK t \in S : \E m \in 1..f[t] : p = <<t, m>>
    BY <1>4, LaidMember
  <2>2. PICK m \in 1..f[t] : p = <<t, m>>
    BY <2>1
  <2>3. m \in 1..Block
    BY <1>1, <2>1, <2>2 DEF Fits
  <2> QED BY <2>1, <2>2, <2>3
<1>5. IsFiniteSet(Laid(f, S))
  BY <1>3, <1>4, FS_Subset
<1> QED BY <1>5, FS_CardinalityType

\* One more task takes its size.
LEMMA LaidAdd ==
  ASSUME NEW f, NEW S \in SUBSET Tasks, Fits(f, S),
         NEW t \in Tasks \ S, f[t] \in 0..Block
  PROVE  Cardinality(Laid(f, S \cup {t})) = Cardinality(Laid(f, S)) + f[t]
<1> DEFINE own == {t} \X (1..f[t])
<1>1. f[t] \in Nat
  BY Bounds
<1>2. IsFiniteSet({t}) /\ Cardinality({t}) = 1
  BY FS_Singleton
<1>3. IsFiniteSet(1..f[t]) /\ Cardinality(1..f[t]) = f[t]
  BY <1>1, FS_Interval
<1>4. IsFiniteSet(own) /\ Cardinality(own) = 1 * f[t]
  BY <1>2, <1>3, FS_Product
<1>5. Laid(f, S \cup {t}) = Laid(f, S) \cup own
  BY DEF Laid
<1>6. Laid(f, S) \cap own = {}
  <2> SUFFICES ASSUME NEW p \in Laid(f, S), p \in own PROVE FALSE
    OBVIOUS
  <2>1. PICK r \in S : \E m \in 1..f[r] : p = <<r, m>>
    BY LaidMember
  <2> QED BY <2>1
<1>7. Cardinality(Laid(f, S) \cap own) = 0
  BY <1>6, FS_EmptySet
<1>8. IsFiniteSet(Laid(f, S)) /\ Cardinality(Laid(f, S)) \in Nat
  BY LaidFinite
<1> HIDE DEF own
<1>9. Cardinality(Laid(f, S) \cup own)
        = Cardinality(Laid(f, S)) + Cardinality(own) - Cardinality(Laid(f, S) \cap own)
  BY <1>4, <1>8, FS_Union
<1>10. Cardinality(own) = f[t]
  BY <1>1, <1>4
<1>11. Cardinality(Laid(f, S) \cup own) = Cardinality(Laid(f, S)) + f[t]
  BY <1>1, <1>7, <1>8, <1>9, <1>10
<1> QED BY <1>5, <1>11

\* One task less gives its size back.
LEMMA LaidRemove ==
  ASSUME NEW f, NEW S \in SUBSET Tasks, Fits(f, S), NEW t \in S
  PROVE  Cardinality(Laid(f, S \ {t})) = Cardinality(Laid(f, S)) - f[t]
<1> DEFINE rest == S \ {t}
<1>1. rest \in SUBSET Tasks /\ t \in Tasks \ rest /\ S = rest \cup {t} /\ Fits(f, rest)
      /\ f[t] \in 0..Block
  BY DEF Fits
<1> HIDE DEF rest
<1>2. Cardinality(Laid(f, rest \cup {t})) = Cardinality(Laid(f, rest)) + f[t]
  BY <1>1, LaidAdd
<1>3. Cardinality(Laid(f, rest)) \in Nat /\ f[t] \in Nat
  BY <1>1, LaidFinite, Bounds
<1>4. Cardinality(Laid(f, S)) = Cardinality(Laid(f, rest)) + f[t]
  BY <1>1, <1>2
<1>5. Cardinality(Laid(f, rest)) = Cardinality(Laid(f, S)) - f[t]
  BY <1>3, <1>4
<1> QED BY <1>5 DEF rest

LEMMA LaidNothing ==
  ASSUME NEW f
  PROVE  Cardinality(Laid(f, {})) = 0
<1>1. Laid(f, {}) = {}
  BY DEF Laid
<1> QED BY <1>1, FS_EmptySet

-----------------------------------------------------------------------------
(* The invariant.                                                          *)

CalendarInv ==
  /\ clock \in 0..Horizon
  /\ start \in Weeks /\ start <= clock
  /\ paid \subseteq Weeks
  /\ payouts \subseteq Workers \X {week \in Weeks : week <= clock}

MinutesInv ==
  /\ used \in 0..Block
  /\ submitting \subseteq {s \in Reads : s.start <= clock /\ s.size <= Block - s.used}
  /\ AtMostOne(submitting)

TasksInv ==
  /\ active \in BOOLEAN
  /\ status \in [Tasks -> {"new", "submitted", "claimed", "gone"}]
  /\ made \in [Tasks -> 0..Horizon]
  /\ size \in [Tasks -> Sizes \cup {0}]
  /\ counted \in [Tasks -> Weeks]
  /\ credited \in [Tasks -> Weeks \cup {Never}]

RowsInv ==
  /\ approved \in [Workers -> BOOLEAN]
  /\ held \subseteq [worker : Workers, from : 0..Horizon, to : 0..Never]
  /\ AtMostOne(Open)
  /\ PaidForHeldWeek

Taken == {t \in Tasks : status[t] # "new"}

\* The submission of a task ran into this week from an earlier one.
Strays(t, week) == counted[t] < week /\ week <= made[t]

StraysApart ==
  \A t, u \in Taken : \A week \in Weeks : Strays(t, week) /\ Strays(u, week) => t = u

DatesInv ==
  /\ Fits(size, Tasks)
  /\ \A t \in Returned : status[t] = "gone" /\ credited[t] <= start
  /\ \A t \in Taken : size[t] # 0 /\ counted[t] <= start /\ made[t] <= clock
  /\ StraysApart

\* What a submission in flight has read is still so when it commits.
InFlight(s) ==
  /\ status[s.task] = "new"
  /\ s.now <= clock /\ s.now < s.start + Week
  /\ \A t \in Taken : made[t] <= s.now
  /\ (s.start = start /\ s.used = used) \/ (s.start >= End /\ s.used = 0)

BookingInv ==
  /\ DatesInv
  /\ \A s \in submitting : InFlight(s)
  /\ CounterIsTrue /\ NeverOversold

Inv == CalendarInv /\ MinutesInv /\ TasksInv /\ RowsInv /\ BookingInv

LEMMA InitInv == Init => Inv
<1> SUFFICES ASSUME Init PROVE Inv
  OBVIOUS
<1>1. 0 \in Weeks
  BY Bounds, MultipleIsWeek DEF Weeks
<1>2. CalendarInv
  BY <1>1, Bounds DEF Init, CalendarInv
<1>3. MinutesInv /\ TasksInv
  BY <1>1, Bounds DEF Init, MinutesInv, TasksInv, AtMostOne
<1>4. RowsInv
  BY DEF Init, RowsInv, AtMostOne, Open, PaidForHeldWeek
<1>5. Block \in Nat /\ Week \in Nat \ {0}
  BY Bounds
<1>6. Returned = {} /\ Taken = {}
  BY <1>5, Bounds DEF Init, Returned, Taken
<1>7. DatesInv /\ \A s \in submitting : InFlight(s)
  BY <1>5, <1>6 DEF Init, DatesInv, Fits, StraysApart
<1>8. ASSUME NEW week \in Weeks
      PROVE  SoldFrom(week) = {} /\ Misplaced(week) = {}
  BY <1>6 DEF SoldFrom, Misplaced, Taken, Returned, Never, Weeks, Init
<1>9. Cardinality(Minutes({})) = 0 /\ Cardinality({}) = 0
  BY LaidNothing, FS_EmptySet DEF Laid, Minutes
<1>10. \A week \in Weeks : Sold[week] = 0 /\ Extra[week] = 0
  BY <1>8, <1>9 DEF Sold, Extra
<1>11. CounterIsTrue
  BY <1>1, <1>10 DEF Init, CounterIsTrue
<1>12. NeverOversold
  BY <1>5, <1>8, <1>9, <1>10 DEF NeverOversold
<1> QED BY <1>2, <1>3, <1>4, <1>7, <1>11, <1>12 DEF Inv, BookingInv

-----------------------------------------------------------------------------
(* Steps, by what they touch.                                              *)

LEMMA CalendarStep ==
  ASSUME Inv, [Next]_vars
  PROVE  CalendarInv'
<1> USE DEF CalendarInv, accountVars, taskVars, workerVars, bookVars
<1>0. CalendarInv
  BY DEF Inv
<1>1. CASE SweepRolls
  BY <1>0, <1>1, Rolls DEF SweepRolls
<1>2. CASE SubmitCommits
  BY <1>0, <1>2 DEF SubmitCommits, Inv, MinutesInv, Reads
<1>3. ASSUME NEW week \in Selectable, RecordPayment(week) PROVE CalendarInv'
  BY <1>0, <1>3, Selects DEF RecordPayment
<1>4. ASSUME NEW week \in Selectable, RecordPayout(week) PROVE CalendarInv'
  <2>1. week \in Weeks /\ week <= clock
    BY <1>0, Selects
  <2>2. PICK a \in held : payouts' = payouts \cup {<<a.worker, week>>}
    BY <1>4 DEF RecordPayout, AssigneeAtPeriodEnd
  <2>3. a.worker \in Workers
    BY <2>2 DEF Inv, RowsInv
  <2> QED BY <1>0, <1>4, <2>1, <2>2, <2>3 DEF RecordPayout
<1>5. CASE Tick
  BY <1>0, <1>5, Bounds DEF Tick, Weeks
<1>6. CASE UNCHANGED <<clock, start, paid, payouts>>
  BY <1>0, <1>6
<1> QED BY <1>1, <1>2, <1>3, <1>4, <1>5, <1>6 DEF Next, Cancel, Reassign, SubmitReads,
           SubmitRollsBack, AssignWorker, Suspend, Approve, SetStatus, vars

\* A return takes back no more than was used.
LEMMA Returns ==
  ASSUME Inv, NEW t \in Tasks, ReturnStandingMinutes(t)
  PROVE  used' \in 0..Block /\ credited' \in [Tasks -> Weeks \cup {Never}]
<1>0. /\ used \in 0..Block /\ size[t] \in Sizes \cup {0}
      /\ credited \in [Tasks -> Weeks \cup {Never}] /\ start \in Weeks
  BY DEF Inv, MinutesInv, TasksInv, CalendarInv
<1>1. size[t] \in Nat
  <2>1. CASE size[t] \in Sizes
    BY <2>1, Bounds
  <2>2. CASE size[t] = 0
    BY <2>2
  <2> QED BY <1>0, <2>1, <2>2
<1>2. Block \in Nat /\ used \in Nat
  <2>1. Block \in Nat
    BY Bounds
  <2> QED BY <1>0, <2>1
<1>3. Lesser(size[t], used) \in 0..used
  BY <1>1, <1>2 DEF Lesser
<1> QED BY <1>0, <1>2, <1>3 DEF ReturnStandingMinutes

LEMMA MinutesStep ==
  ASSUME Inv, [Next]_vars
  PROVE  MinutesInv'
<1> USE DEF accountVars, taskVars, workerVars, bookVars
<1>0. MinutesInv /\ CalendarInv
  BY DEF Inv
<1>1. ASSUME NEW t \in Tasks, NEW n \in Sizes, SubmitReads(t, n) PROVE MinutesInv'
  <2> DEFINE week == RollForward(start, clock)
             before == IF week = start THEN used ELSE 0
  <2>1. week \in Weeks /\ week <= clock
    BY <1>0, Rolls DEF CalendarInv
  <2>2. CurrentAssignee \in Workers \cup {Nobody}
    <3>1. ASSUME \E a \in Open : approved[a.worker]
          PROVE  (CHOOSE a \in Open : approved[a.worker]).worker \in Workers
      BY <3>1 DEF Open, Inv, RowsInv
    <3> QED BY <3>1 DEF CurrentAssignee
  <2>3. before \in 0..Block /\ n <= Block - before
    BY <1>0, <1>1, Bounds DEF MinutesInv, SubmitReads
  <2>4. submitting' = {[task |-> t, size |-> n, by |-> CurrentAssignee, now |-> clock,
                        start |-> week, used |-> before]}
    BY <1>1 DEF SubmitReads
  <2>5. used' = used /\ clock' = clock
    BY <1>1 DEF SubmitReads
  <2> HIDE DEF week, before
  <2> QED BY <1>0, <2>1, <2>2, <2>3, <2>4, <2>5 DEF MinutesInv, AtMostOne, Reads, CalendarInv
<1>2. CASE SubmitCommits
  <2>1. PICK s \in submitting : submitting' = {} /\ used' = s.used + s.size
    BY <1>2 DEF SubmitCommits
  <2>2. s \in Reads /\ s.size <= Block - s.used
    BY <1>0 DEF MinutesInv
  <2>3. s.used \in 0..Block /\ s.size \in Nat
    BY <2>2, Bounds DEF Reads
  <2> QED BY <2>1, <2>2, <2>3, Bounds DEF MinutesInv, AtMostOne
<1>3. CASE SweepRolls \/ SubmitRollsBack
  BY <1>0, <1>3, Bounds DEF SweepRolls, SubmitRollsBack, MinutesInv, AtMostOne
<1>4. ASSUME NEW t \in Tasks, Cancel(t) PROVE MinutesInv'
  BY <1>0, <1>4, Returns DEF Cancel, MinutesInv
<1>5. CASE Tick
  BY <1>0, <1>5 DEF Tick, MinutesInv, CalendarInv, Reads, Weeks
<1>6. CASE UNCHANGED <<clock, used, submitting>>
  BY <1>0, <1>6 DEF MinutesInv
<1> QED BY <1>1, <1>2, <1>3, <1>4, <1>5, <1>6 DEF Next, Reassign, AssignWorker, Suspend,
           Approve, RecordPayment, RecordPayout, SetStatus, vars

LEMMA TasksStep ==
  ASSUME Inv, [Next]_vars
  PROVE  TasksInv'
<1> USE DEF TasksInv, accountVars, taskVars, workerVars, bookVars
<1>0. TasksInv
  BY DEF Inv
<1>1. CASE SubmitCommits
  <2>1. PICK s \in submitting : \E created \in s.now..clock :
          /\ status' = [status EXCEPT ![s.task] = IF s.by = Nobody THEN "submitted" ELSE "claimed"]
          /\ made' = [made EXCEPT ![s.task] = created]
          /\ size' = [size EXCEPT ![s.task] = s.size]
          /\ counted' = [counted EXCEPT ![s.task] = s.start]
          /\ UNCHANGED <<active, credited>>
    BY <1>1 DEF SubmitCommits
  <2>2. s.size \in Sizes /\ clock \in 0..Horizon /\ s.now \in 0..Horizon /\ s.start \in Weeks
    BY DEF Inv, MinutesInv, Reads, CalendarInv
  <2>3. PICK created \in s.now..clock : made' = [made EXCEPT ![s.task] = created]
    BY <2>1
  <2>4. created \in 0..Horizon
    BY <2>2, <2>3, Bounds
  <2>5. /\ active' \in BOOLEAN /\ credited' \in [Tasks -> Weeks \cup {Never}]
        /\ status' \in [Tasks -> {"new", "submitted", "claimed", "gone"}]
    BY <1>0, <2>1
  <2>6. made' \in [Tasks -> 0..Horizon] /\ counted' \in [Tasks -> Weeks]
    BY <1>0, <2>1, <2>2, <2>3, <2>4
  <2>7. size' \in [Tasks -> Sizes \cup {0}]
    BY <1>0, <2>1, <2>2
  <2> QED BY <2>5, <2>6, <2>7
<1>2. ASSUME NEW t \in Tasks, Cancel(t) PROVE TasksInv'
  BY <1>0, <1>2, Returns DEF Cancel
<1>3. ASSUME NEW t \in Tasks, Reassign(t) PROVE TasksInv'
  BY <1>0, <1>3 DEF Reassign
<1>4. ASSUME NEW w \in Workers, AssignWorker(w) PROVE TasksInv'
  BY <1>0, <1>4 DEF AssignWorker, Routed
<1>5. CASE SetStatus
  BY <1>0, <1>5 DEF SetStatus
<1>6. CASE UNCHANGED <<active, taskVars>>
  BY <1>0, <1>6
<1> QED BY <1>1, <1>2, <1>3, <1>4, <1>5, <1>6 DEF Next, SubmitReads, SubmitRollsBack, Suspend,
           Approve, RecordPayment, RecordPayout, SweepRolls, SetStatus, Tick, vars

\* Closing rows leaves the others open, and every row on the weeks it paid for.
LEMMA Closes ==
  ASSUME Inv, NEW S \in SUBSET Open
  PROVE  /\ Closed(S) \subseteq [worker : Workers, from : 0..Horizon, to : 0..Never]
         /\ \A a \in Closed(S) : a.to = Never => a \in Open \ S
         /\ \A p \in payouts : \E a \in Closed(S) :
              a.worker = p[1] /\ a.from < p[2] + Week /\ a.to >= p[2]
<1>1. held \subseteq [worker : Workers, from : 0..Horizon, to : 0..Never] /\ S \subseteq held
      /\ clock \in 0..Horizon /\ Horizon \in Nat
  BY Bounds DEF Inv, RowsInv, Open, CalendarInv
<1>2. ASSUME NEW c \in Closed(S)
      PROVE  \E a \in held : IF a \in S THEN c = [a EXCEPT !.to = clock] ELSE c = a
  BY <1>1, <1>2 DEF Closed
<1>3. ASSUME NEW a \in held
      PROVE  /\ a \in S => [a EXCEPT !.to = clock] \in Closed(S)
             /\ a \notin S => a \in Closed(S)
  BY <1>1 DEF Closed
<1>4. Closed(S) \subseteq [worker : Workers, from : 0..Horizon, to : 0..Never]
  BY <1>1, <1>2 DEF Never
<1>5. \A a \in Closed(S) : a.to = Never => a \in Open \ S
  BY <1>1, <1>2 DEF Never, Open
<1>6. ASSUME NEW p \in payouts
      PROVE  \E a \in Closed(S) : a.worker = p[1] /\ a.from < p[2] + Week /\ a.to >= p[2]
  <2>1. PICK a \in held : a.worker = p[1] /\ a.from < p[2] + Week /\ a.to >= p[2]
    BY DEF Inv, RowsInv, PaidForHeldWeek
  <2>2. p[2] <= clock
    BY DEF Inv, CalendarInv
  <2>3. CASE a \in S
    BY <1>1, <1>3, <2>1, <2>2, <2>3
  <2>4. CASE a \notin S
    BY <1>3, <2>1, <2>4
  <2> QED BY <2>3, <2>4
<1> QED BY <1>4, <1>5, <1>6

LEMMA RowsStep ==
  ASSUME Inv, [Next]_vars
  PROVE  RowsInv'
<1> USE DEF accountVars, taskVars, workerVars, bookVars
<1>0. RowsInv /\ CalendarInv
  BY DEF Inv
<1>1. ASSUME NEW w \in Workers, AssignWorker(w) PROVE RowsInv'
  <2> DEFINE row == [worker |-> w, from |-> clock, to |-> Never]
  <2>1. held' = Closed(Open) \cup {row} /\ payouts' = payouts /\ approved' = approved
    BY <1>1 DEF AssignWorker
  <2>2. row \in [worker : Workers, from : 0..Horizon, to : 0..Never]
    BY <1>0, Bounds DEF CalendarInv, Never
  <2>3. Open' \subseteq {row}
    BY <2>1, Closes DEF Open
  <2> HIDE DEF row
  <2> QED BY <1>0, <2>1, <2>2, <2>3, Closes DEF RowsInv, AtMostOne, PaidForHeldWeek
<1>2. ASSUME NEW w \in Workers, Suspend(w) PROVE RowsInv'
  <2> DEFINE rows == {a \in Open : a.worker = w}
  <2>1. held' = Closed(rows) /\ payouts' = payouts /\ approved' = [approved EXCEPT ![w] = FALSE]
    BY <1>2 DEF Suspend
  <2>2. rows \in SUBSET Open
    OBVIOUS
  <2> HIDE DEF rows
  <2>3. Open' \subseteq Open
    BY <2>1, <2>2, Closes DEF Open
  <2> QED BY <1>0, <2>1, <2>2, <2>3, Closes DEF RowsInv, AtMostOne, PaidForHeldWeek
<1>3. ASSUME NEW w \in Workers, Approve(w) PROVE RowsInv'
  BY <1>0, <1>3 DEF Approve, RowsInv, Open, PaidForHeldWeek
<1>4. ASSUME NEW week \in Selectable, RecordPayout(week) PROVE RowsInv'
  <2>1. week \in Nat
    BY <1>0, Selects, Multiples DEF CalendarInv
  <2>2. PICK a \in held : /\ a.from < week + Week /\ a.to >= week + Week
                          /\ payouts' = payouts \cup {<<a.worker, week>>}
    BY <1>4 DEF RecordPayout, AssigneeAtPeriodEnd
  <2>3. a.to >= week
    BY <1>0, <2>1, <2>2, Bounds DEF RowsInv, Never
  <2>4. UNCHANGED <<approved, held>>
    BY <1>4 DEF RecordPayout
  <2> QED BY <1>0, <2>2, <2>3, <2>4 DEF RowsInv, Open, PaidForHeldWeek
<1>5. CASE UNCHANGED <<approved, held, payouts>>
  BY <1>0, <1>5 DEF RowsInv, Open, PaidForHeldWeek
<1> QED BY <1>1, <1>2, <1>3, <1>4, <1>5 DEF Next, Cancel, Reassign, SubmitReads, SubmitCommits,
           SubmitRollsBack, RecordPayment, SweepRolls, SetStatus, Tick, vars

\* Tasks a week was sold for are counted one by one.
LEMMA Counts ==
  ASSUME DatesInv, NEW week \in Weeks
  PROVE  /\ SoldFrom(week) \in SUBSET Tasks /\ Misplaced(week) \in SUBSET Tasks
         /\ Fits(size, SoldFrom(week)) /\ Fits(size, Misplaced(week))
         /\ Sold[week] = Cardinality(Laid(size, SoldFrom(week))) /\ Sold[week] \in Nat
         /\ Extra[week] = Cardinality(Laid(size, Misplaced(week))) /\ Extra[week] \in Nat
<1>1. SoldFrom(week) \in SUBSET Tasks /\ Misplaced(week) \in SUBSET Tasks
  BY DEF SoldFrom, Misplaced
<1>2. Fits(size, SoldFrom(week)) /\ Fits(size, Misplaced(week))
  BY <1>1 DEF DatesInv, Fits
<1>3. /\ Sold[week] = Cardinality(Laid(size, SoldFrom(week)))
      /\ Extra[week] = Cardinality(Laid(size, Misplaced(week)))
  BY DEF Sold, Extra, Minutes, Laid
<1> QED BY <1>1, <1>2, <1>3, LaidFinite

\* A week the account has not reached is sold for nothing.
LEMMA NothingAhead ==
  ASSUME DatesInv, CalendarInv, TasksInv, NEW week \in Weeks, week > start
  PROVE  SoldFrom(week) = {} /\ Sold[week] = 0
<1>1. start \in Nat /\ week \in Nat
  BY Multiples DEF CalendarInv
<1>2. ASSUME NEW t \in SoldFrom(week) PROVE FALSE
  <2>1. t \in Taken /\ counted[t] = week
    BY DEF SoldFrom, Taken
  <2> QED BY <1>1, <2>1 DEF DatesInv
<1> QED BY <1>2, Counts, LaidNothing

\* The books stand still when no task is made, credited or rolled away.
LEMMA SameBooks ==
  ASSUME CounterIsTrue, UNCHANGED <<start, used, made, size, counted, credited>>,
         \A t \in Tasks : status'[t] = "new" <=> status[t] = "new"
  PROVE  CounterIsTrue' /\ UNCHANGED <<start, Sold, Extra>>
<1>1. ASSUME NEW week \in Weeks
      PROVE  SoldFrom(week)' = SoldFrom(week) /\ Misplaced(week)' = Misplaced(week)
  BY DEF SoldFrom, Misplaced, Returned
<1>2. Sold' = Sold /\ Extra' = Extra
  BY <1>1 DEF Sold, Extra, Minutes
<1> QED BY <1>2 DEF CounterIsTrue

\* A submission commits: the week it rolled to is the only one that is sold
\* more of, and the task strays into no week another task strayed into.
LEMMA CommitBooks ==
  ASSUME Inv, SubmitCommits
  PROVE  DatesInv' /\ CounterIsTrue' /\ Blocks!Sell
<1> PICK s \in submitting : \E created \in s.now..clock :
      /\ start' = s.start /\ used' = s.used + s.size
      /\ status' = [status EXCEPT ![s.task] = IF s.by = Nobody THEN "submitted" ELSE "claimed"]
      /\ made' = [made EXCEPT ![s.task] = created]
      /\ size' = [size EXCEPT ![s.task] = s.size]
      /\ counted' = [counted EXCEPT ![s.task] = s.start]
      /\ clock' = clock /\ credited' = credited
  BY DEF SubmitCommits
<1> PICK created \in s.now..clock : made' = [made EXCEPT ![s.task] = created]
  OBVIOUS
<1> DEFINE t == s.task
<1>0. CalendarInv /\ TasksInv /\ DatesInv /\ CounterIsTrue /\ InFlight(s)
  BY DEF Inv, BookingInv
<1>1. /\ t \in Tasks /\ s.size \in 1..Block /\ s.used \in 0..Block /\ s.size <= Block - s.used
      /\ s.start \in Weeks /\ s.now \in 0..Horizon
  <2>1. s \in Reads /\ s.size <= Block - s.used
    BY DEF Inv, MinutesInv
  <2>2. t \in Tasks /\ s.size \in Sizes /\ s.used \in 0..Block /\ s.start \in Weeks
        /\ s.now \in 0..Horizon
    BY <2>1 DEF Reads
  <2>3. Sizes \subseteq Nat \ {0} /\ Block \in Nat
    BY StandingAssumption DEF StandingAssumption
  <2>4. s.size \in Nat \ {0}
    BY <2>2, <2>3
  <2>5. s.used \in Nat
    BY <2>2, <2>3
  <2> QED BY <2>1, <2>2, <2>3, <2>4, <2>5
<1>2. /\ start \in Nat /\ End \in Nat /\ Week \in Nat \ {0} /\ clock \in Nat /\ s.start \in Nat
      /\ s.now \in Nat /\ created \in Nat /\ created <= clock /\ Block \in Nat
  BY <1>0, <1>1, Bounds, Multiples DEF CalendarInv, End
<1>3. s.now < s.start + Week /\ s.start >= start
  BY <1>0, <1>2 DEF InFlight, End
<1>4. status[t] = "new" /\ t \notin Taken /\ t \notin Returned /\ credited[t] = Never
  BY <1>0, <1>1 DEF DatesInv, InFlight, Taken, Returned
<1>5. Taken' = Taken \cup {t} /\ Returned' = Returned
  BY <1>0, <1>1 DEF TasksInv, Taken, Returned
<1>6. /\ size'[t] = s.size /\ counted'[t] = s.start /\ made'[t] = created
      /\ \A r \in Tasks \ {t} : /\ size'[r] = size[r] /\ counted'[r] = counted[r]
                                /\ made'[r] = made[r] /\ status'[r] = status[r]
  BY <1>0, <1>1 DEF TasksInv
<1> HIDE DEF t
<1>7. DatesInv'
  <2>1. Fits(size', Tasks)
    BY <1>0, <1>1, <1>6 DEF DatesInv, Fits
  <2>2. \A r \in Returned' : status'[r] = "gone" /\ credited'[r] <= start'
    <3> SUFFICES ASSUME NEW r \in Returned PROVE status'[r] = "gone" /\ credited'[r] <= start'
      BY <1>5
    <3>1. r \in Tasks \ {t} /\ credited[r] \in Weeks
      BY <1>0, <1>4 DEF Returned, TasksInv
    <3>2. credited[r] \in Nat /\ credited[r] <= start /\ status[r] = "gone"
      BY <1>0, <3>1, Multiples DEF DatesInv
    <3> QED BY <1>2, <1>3, <1>6, <3>1, <3>2
  <2>3. \A r \in Taken' : size'[r] # 0 /\ counted'[r] <= start' /\ made'[r] <= clock'
    <3> SUFFICES ASSUME NEW r \in Taken'
                 PROVE  size'[r] # 0 /\ counted'[r] <= start' /\ made'[r] <= clock'
      OBVIOUS
    <3>1. CASE r = t
      BY <1>1, <1>2, <1>6, <3>1
    <3>2. CASE r # t
      <4>1. r \in Taken /\ r \in Tasks \ {t}
        BY <1>5, <3>2 DEF Taken
      <4>2. size[r] # 0 /\ counted[r] <= start /\ made[r] <= clock /\ counted[r] \in Nat
        BY <1>0, <4>1, Multiples DEF DatesInv, TasksInv
      <4> QED BY <1>2, <1>3, <1>6, <4>1, <4>2
    <3> QED BY <3>1, <3>2
  <2>4. StraysApart'
    <3>1. ASSUME NEW r \in Taken, NEW week \in Weeks, Strays(r, week)', Strays(t, week)'
          PROVE  FALSE
      <4>1. r \in Tasks \ {t} /\ made[r] \in Nat /\ week \in Nat /\ made[r] <= s.now
        BY <1>0, <1>4, Multiples DEF Taken, TasksInv, InFlight
      <4>2. week <= made[r] /\ s.start < week
        BY <1>6, <3>1, <4>1 DEF Strays
      <4>3. s.start + Week <= week
        BY <1>1, <1>2, <4>1, <4>2, WeeksApart
      <4> QED BY <1>2, <1>3, <4>1, <4>2, <4>3
    <3>2. ASSUME NEW r \in Taken, NEW week \in Weeks
          PROVE  Strays(r, week)' <=> Strays(r, week)
      BY <1>4, <1>6 DEF Strays, Taken
    <3> QED BY <1>0, <1>5, <3>1, <3>2 DEF StraysApart, DatesInv
  <2> QED BY <2>1, <2>2, <2>3, <2>4 DEF DatesInv
<1>8. ASSUME NEW S \in SUBSET Tasks, t \notin S PROVE Laid(size', S) = Laid(size, S)
  <2>1. \A r \in S : size'[r] = size[r]
    BY <1>6, <1>8
  <2> QED BY <2>1 DEF Laid
<1>9. ASSUME NEW week \in Weeks
      PROVE  /\ t \notin SoldFrom(week) /\ t \notin Misplaced(week)
             /\ SoldFrom(week)' = IF week = s.start THEN SoldFrom(week) \cup {t} ELSE SoldFrom(week)
             /\ Misplaced(week)' = Misplaced(week)
  <2>1. t \notin SoldFrom(week)
    BY <1>4 DEF SoldFrom
  <2>2. week # Never
    BY Bounds DEF Weeks, Never
  <2>3. t \notin Misplaced(week) /\ t \notin Misplaced(week)'
    BY <1>4, <2>2 DEF Misplaced
  <2>4. Misplaced(week)' = Misplaced(week)
    BY <1>6, <2>3 DEF Misplaced
  <2>5. SoldFrom(week)' = {r \in Taken' : r \notin Returned /\ counted'[r] = week}
    BY <1>5 DEF SoldFrom, Taken
  <2>6. SoldFrom(week) = {r \in Taken : r \notin Returned /\ counted[r] = week}
    BY DEF SoldFrom, Taken
  <2>7. \A r \in Taken : counted'[r] = counted[r]
    BY <1>4, <1>6 DEF Taken
  <2>8. SoldFrom(week)' = IF week = s.start THEN SoldFrom(week) \cup {t} ELSE SoldFrom(week)
    BY <1>4, <1>5, <1>6, <2>5, <2>6, <2>7
  <2> QED BY <2>1, <2>3, <2>4, <2>8
<1>10. Extra' = Extra
  <2>1. ASSUME NEW week \in Weeks PROVE Minutes(Misplaced(week))' = Minutes(Misplaced(week))
    <3>1. Laid(size', Misplaced(week)) = Laid(size, Misplaced(week))
      BY <1>8, <1>9 DEF Misplaced
    <3> QED BY <1>9, <3>1 DEF Minutes, Laid
  <2> QED BY <2>1 DEF Extra
<1>11. ASSUME NEW week \in Weeks \ {s.start} PROVE Sold'[week] = Sold[week]
  <2>1. Laid(size', SoldFrom(week)) = Laid(size, SoldFrom(week))
    BY <1>8, <1>9 DEF SoldFrom
  <2>2. SoldFrom(week)' = SoldFrom(week)
    BY <1>9, <1>11
  <2>3. Sold'[week] = Cardinality(Laid(size', SoldFrom(week)))
    BY <2>2 DEF Sold, Minutes, Laid
  <2> QED BY <1>0, <2>1, <2>3, Counts
<1>12. Sold'[s.start] = Sold[s.start] + s.size
  <2> DEFINE before == SoldFrom(s.start)
  <2>1. before \in SUBSET Tasks /\ t \in Tasks \ before /\ Fits(size', before)
        /\ size'[t] \in 0..Block
    BY <1>1, <1>6, <1>7, <1>9 DEF SoldFrom, DatesInv, Fits
  <2>2. Sold'[s.start] = Cardinality(Laid(size', before \cup {t}))
    BY <1>1, <1>9 DEF Sold, Minutes, Laid
  <2>3. Laid(size', before) = Laid(size, before)
    BY <1>8, <2>1
  <2>4. Sold[s.start] = Cardinality(Laid(size, before))
    BY <1>0, <1>1, Counts
  <2> HIDE DEF before
  <2>5. Cardinality(Laid(size', before \cup {t})) = Cardinality(Laid(size', before)) + size'[t]
    BY <2>1, LaidAdd
  <2> QED BY <1>6, <2>2, <2>3, <2>4, <2>5
<1>13. /\ s.used <= Sold[s.start] /\ Sold[s.start] <= s.used + Extra[s.start]
       /\ Sold[s.start] \in Nat /\ Extra[s.start] \in Nat
  <2>1. Sold[s.start] \in Nat /\ Extra[s.start] \in Nat
    BY <1>0, <1>1, Counts
  <2>2. CASE s.start = start /\ s.used = used
    BY <1>0, <2>1, <2>2 DEF CounterIsTrue
  <2>3. CASE s.start >= End /\ s.used = 0
    <3>1. s.start > start
      BY <1>2, <2>3 DEF End
    <3>2. Sold[s.start] = 0
      BY <1>0, <1>1, <3>1, NothingAhead
    <3> QED BY <2>1, <2>3, <3>2
  <2> QED BY <1>0, <2>1, <2>2, <2>3 DEF InFlight
<1>14. CounterIsTrue'
  <2>1. used' <= Sold'[start'] /\ Sold'[start'] <= used' + Extra'[start']
    BY <1>1, <1>10, <1>12, <1>13
  <2> QED BY <2>1 DEF CounterIsTrue
<1>15. Blocks!Sell
  <2>1. Sold'[s.start] \in (Sold[s.start] + 1)..(Block + Extra'[s.start])
    BY <1>1, <1>2, <1>10, <1>12, <1>13
  <2>2. start' \in Weeks /\ start' >= start
    BY <1>1, <1>3
  <2> QED BY <1>10, <1>11, <2>1, <2>2 DEF Blocks!Sell, Blocks!OnlyTouches
<1> QED BY <1>7, <1>14, <1>15

\* A task that is withdrawn gives its minutes back to the week the account is
\* in: the one they were taken from, or the one its submission strayed into,
\* and no other task strayed there.
LEMMA CancelBooks ==
  ASSUME Inv, NEW t \in Tasks, Cancel(t)
  PROVE  DatesInv' /\ CounterIsTrue' /\ [Blocks!Next]_(Blocks!vars)
<1>0. CalendarInv /\ TasksInv /\ DatesInv /\ CounterIsTrue /\ used \in Nat
  BY Bounds DEF Inv, BookingInv, MinutesInv
<1>1. /\ status[t] \in {"submitted", "claimed"}
      /\ status' = [status EXCEPT ![t] = "gone"]
      /\ UNCHANGED <<start, clock, made, size, counted>>
  BY DEF Cancel
<1>2. /\ \A r \in Tasks : status'[r] = "new" <=> status[r] = "new"
      /\ \A r \in Tasks : status[r] = "gone" => status'[r] = "gone"
      /\ status'[t] = "gone" /\ t \in Taken /\ Taken' = Taken
  BY <1>0, <1>1 DEF TasksInv, Taken
<1>3. ReturnStandingMinutes(t) /\ t \notin Returned
  BY <1>0, <1>1 DEF Cancel, DatesInv
<1>4. start \in Weeks /\ start \in Nat /\ start # Never /\ start <= clock
  BY <1>0, Multiples, Bounds DEF CalendarInv, Never, Weeks
<1>5. StraysApart'
  BY <1>0, <1>1, <1>2 DEF StraysApart, Strays, DatesInv
<1>6. CASE made[t] < start
  <2>1. UNCHANGED <<start, used, made, size, counted, credited>>
    BY <1>1, <1>3, <1>6 DEF ReturnStandingMinutes
  <2>2. DatesInv'
    BY <1>0, <1>1, <1>2, <1>5, <2>1 DEF DatesInv, Returned, Fits
  <2> QED BY <1>0, <1>2, <2>1, <2>2, SameBooks DEF Blocks!vars
<1>7. CASE ~(made[t] < start)
  <2>1. used' = used - Lesser(size[t], used) /\ credited' = [credited EXCEPT ![t] = start]
    BY <1>3, <1>7 DEF ReturnStandingMinutes
  <2>2. Returned' = Returned \cup {t} /\ credited'[t] = start
        /\ \A r \in Tasks \ {t} : credited'[r] = credited[r]
    BY <1>0, <1>4, <2>1 DEF Returned, TasksInv
  <2>3. DatesInv'
    BY <1>0, <1>1, <1>2, <1>4, <1>5, <2>2 DEF DatesInv, Returned, Fits
  <2>4. counted[t] \in Weeks /\ counted[t] \in Nat /\ counted[t] <= start
        /\ made[t] \in Nat /\ start <= made[t] /\ size[t] \in Nat /\ size[t] # 0
    <3>1. counted[t] \in Weeks /\ made[t] \in 0..Horizon /\ size[t] \in 0..Block
      BY <1>0 DEF TasksInv, DatesInv, Fits
    <3>2. counted[t] <= start /\ size[t] # 0
      BY <1>0, <1>2 DEF DatesInv
    <3>3. counted[t] \in Nat
      BY <3>1, Multiples
    <3> QED BY <1>4, <1>7, <3>1, <3>2, <3>3, Bounds
  <2>5. used' \in Nat /\ used' <= used /\ used - size[t] <= used' /\ (used' = 0 \/ used' = used - size[t])
    BY <1>0, <2>1, <2>4 DEF Lesser
  <2>6. ASSUME NEW week \in Weeks
        PROVE  SoldFrom(week)' = SoldFrom(week) \ {t}
    BY <1>1, <1>2, <2>2 DEF SoldFrom
  <2>7. t \in SoldFrom(counted[t])
    BY <1>1, <1>3 DEF SoldFrom
  <2>8. Sold'[counted[t]] = Sold[counted[t]] - size[t]
    <3> DEFINE before == SoldFrom(counted[t])
    <3>1. before \in SUBSET Tasks /\ Fits(size, before) /\ t \in before
          /\ Sold[counted[t]] = Cardinality(Laid(size, before))
      BY <1>0, <2>4, <2>7, Counts
    <3>2. Sold'[counted[t]] = Cardinality(Laid(size, before \ {t}))
      BY <1>1, <2>4, <2>6 DEF Sold, Minutes, Laid
    <3> HIDE DEF before
    <3> QED BY <3>1, <3>2, LaidRemove
  <2>9. ASSUME NEW week \in Weeks \ {counted[t]} PROVE Sold'[week] = Sold[week]
    <3>1. SoldFrom(week)' = SoldFrom(week)
      BY <2>6, <2>9 DEF SoldFrom
    <3> QED BY <1>1, <3>1 DEF Sold, Minutes
  <2>10. \A week \in Weeks : Sold[week] \in Nat /\ Sold'[week] \in Nat
                             /\ Extra[week] \in Nat /\ Extra'[week] \in Nat
    <3>1. ASSUME NEW week \in Weeks PROVE Sold'[week] \in Nat /\ Extra'[week] \in Nat
      <4>1. /\ SoldFrom(week)' \in SUBSET Tasks /\ Misplaced(week)' \in SUBSET Tasks
            /\ Sold'[week] = Cardinality(Laid(size', SoldFrom(week)'))
            /\ Extra'[week] = Cardinality(Laid(size', Misplaced(week)'))
        BY DEF SoldFrom, Misplaced, Sold, Extra, Minutes, Laid
      <4>2. Fits(size', SoldFrom(week)') /\ Fits(size', Misplaced(week)')
        BY <2>3, <4>1 DEF DatesInv, Fits
      <4> HIDE DEF SoldFrom, Misplaced
      <4> QED BY <4>1, <4>2, LaidFinite
    <3> QED BY <1>0, <3>1, Counts
  <2>11. ASSUME NEW week \in Weeks
         PROVE  Misplaced(week)' = IF week = start /\ counted[t] < start
                                     THEN Misplaced(week) \cup {t} ELSE Misplaced(week)
    <3>1. t \notin Misplaced(week)
      BY <1>3, Bounds DEF Misplaced, Returned, Never, Weeks
    <3>2. t \in Misplaced(week)' <=> week = start /\ counted[t] < start
      BY <1>1, <2>2, <2>4 DEF Misplaced
    <3>3. \A r \in Tasks \ {t} : r \in Misplaced(week)' <=> r \in Misplaced(week)
      BY <1>1, <2>2 DEF Misplaced
    <3> QED BY <3>1, <3>2, <3>3 DEF Misplaced
  <2>12. CASE counted[t] = start
    <3>1. Extra' = Extra
      BY <1>1, <1>4, <2>11, <2>12 DEF Extra, Minutes
    <3>2. used' <= Sold'[start] /\ Sold'[start] <= used' + Extra'[start]
      <4>1. used <= Sold[start] /\ Sold[start] <= used + Extra[start]
        BY <1>0 DEF CounterIsTrue
      <4>2. Sold'[start] = Sold[start] - size[t] /\ Sold'[start] \in Nat
            /\ Sold[start] \in Nat /\ Extra[start] \in Nat
        BY <1>4, <2>8, <2>10, <2>12
      <4> QED BY <1>0, <2>4, <2>5, <3>1, <4>1, <4>2
    <3>3. CounterIsTrue'
      BY <1>1, <3>2 DEF CounterIsTrue
    <3>4. Sold'[start] \in 0..(Sold[start] - 1)
      BY <1>4, <2>4, <2>8, <2>10, <2>12
    <3>5. Blocks!Credit
      BY <1>1, <2>9, <2>12, <3>1, <3>4 DEF Blocks!Credit, Blocks!OnlyTouches
    <3> QED BY <2>3, <3>3, <3>5 DEF Blocks!Next
  <2>13. CASE counted[t] < start
    <3>1. Misplaced(start) = {}
      <4> SUFFICES ASSUME NEW r \in Misplaced(start) PROVE FALSE
        OBVIOUS
      <4>1. r \in Tasks /\ r \in Returned /\ Strays(r, start)
        BY <1>4 DEF Misplaced, Returned, Strays
      <4>2. r \in Taken /\ r # t /\ Strays(t, start)
        BY <1>0, <1>3, <2>4, <2>13, <4>1 DEF DatesInv, Taken, Strays
      <4> QED BY <1>0, <1>2, <1>4, <4>1, <4>2 DEF DatesInv, StraysApart
    <3>2. Extra[start] = 0
      BY <1>0, <1>4, <3>1, Counts, LaidNothing
    <3>3. Extra'[start] = size[t]
      <4>1. Extra'[start] = Cardinality(Laid(size, {t}))
        BY <1>1, <1>4, <2>11, <2>13, <3>1 DEF Extra, Minutes, Laid
      <4>2. Cardinality(Laid(size, {} \cup {t})) = Cardinality(Laid(size, {})) + size[t]
        BY <1>0, LaidAdd DEF DatesInv, Fits
      <4>3. Cardinality(Laid(size, {})) = 0 /\ {} \cup {t} = {t}
        BY LaidNothing
      <4> QED BY <2>4, <4>1, <4>2, <4>3
    <3>4. \A week \in Weeks \ {start} : Extra'[week] = Extra[week]
      BY <1>1, <2>11 DEF Extra, Minutes
    <3>5. Extra' = [Extra EXCEPT ![start] = Sold[counted[t]] - Sold'[counted[t]]]
      <4>1. Sold[counted[t]] - Sold'[counted[t]] = size[t]
        BY <2>4, <2>8, <2>10
      <4>2. Extra \in [Weeks -> {Extra[w] : w \in Weeks}] /\ Extra' = [w \in Weeks |-> Extra'[w]]
        BY DEF Extra
      <4> QED BY <1>4, <3>3, <3>4, <4>1, <4>2
    <3>6. CounterIsTrue'
      <4>1. Sold'[start] = Sold[start] /\ Sold[start] \in Nat
        BY <1>4, <2>4, <2>9, <2>10, <2>13
      <4>2. used <= Sold[start] /\ Sold[start] <= used
        BY <1>0, <3>2, <4>1 DEF CounterIsTrue
      <4>3. used' <= Sold'[start] /\ Sold'[start] <= used' + Extra'[start]
        BY <1>0, <2>4, <2>5, <3>3, <4>1, <4>2
      <4> QED BY <1>1, <4>3 DEF CounterIsTrue
    <3>7. Blocks!LateCredit
      <4>1. Sold'[counted[t]] \in 0..(Sold[counted[t]] - 1)
        BY <2>4, <2>8, <2>10
      <4>2. counted[t] \in {w \in Weeks : w < start}
        BY <2>4, <2>13
      <4>3. Blocks!OnlyTouches(counted[t])
        BY <2>9 DEF Blocks!OnlyTouches
      <4> QED BY <1>1, <3>2, <3>5, <4>1, <4>2, <4>3 DEF Blocks!LateCredit
    <3> QED BY <2>3, <3>6, <3>7 DEF Blocks!Next
  <2>14. counted[t] = start \/ counted[t] < start
    BY <1>4, <2>4
  <2> QED BY <2>12, <2>13, <2>14
<1> QED BY <1>6, <1>7

\* A roll leaves every task behind: the new week starts with nothing sold.
LEMMA RollBooks ==
  ASSUME Inv, SweepRolls
  PROVE  DatesInv' /\ CounterIsTrue' /\ Blocks!MovesOn
<1>0. CalendarInv /\ TasksInv /\ DatesInv /\ CounterIsTrue
  BY DEF Inv, BookingInv
<1>1. End <= clock /\ start' = RollForward(start, clock) /\ used' = 0
      /\ UNCHANGED <<clock, status, made, size, counted, credited>>
  BY DEF SweepRolls, taskVars
<1>2. /\ start' \in Weeks /\ start' \in Nat /\ start \in Nat /\ Week \in Nat \ {0}
      /\ start' >= start + Week
  <2>1. start' \in Weeks /\ start' >= start + Week
    BY <1>0, <1>1, Rolls, RollsWhole DEF CalendarInv, End
  <2> QED BY <1>0, <2>1, Multiples, Bounds DEF CalendarInv
<1>3. DatesInv'
  <2>1. /\ Taken' = Taken /\ Returned' = Returned
        /\ \A r \in Tasks, week \in Weeks : Strays(r, week)' <=> Strays(r, week)
    BY <1>1 DEF Taken, Returned, Strays
  <2>2. StraysApart'
    BY <1>0, <2>1 DEF StraysApart, DatesInv, Taken
  <2>3. \A r \in Returned : credited[r] \in Nat /\ credited[r] <= start
    BY <1>0, Multiples DEF Returned, TasksInv, DatesInv
  <2>4. \A r \in Taken : counted[r] \in Nat /\ counted[r] <= start
    BY <1>0, Multiples DEF Taken, TasksInv, DatesInv
  <2>5. \A r \in Returned : credited'[r] <= start'
    BY <1>1, <1>2, <2>3
  <2>6. \A r \in Taken : counted'[r] <= start'
    BY <1>1, <1>2, <2>4
  <2> QED BY <1>0, <1>1, <2>1, <2>2, <2>5, <2>6 DEF DatesInv, Fits
<1>4. Sold' = Sold /\ Extra' = Extra
  BY <1>1 DEF Sold, Extra, Minutes, SoldFrom, Misplaced, Returned
<1>5. CounterIsTrue'
  <2>1. Sold[start'] = 0 /\ Extra[start'] \in Nat
    BY <1>0, <1>2, NothingAhead, Counts
  <2> QED BY <1>1, <1>4, <2>1 DEF CounterIsTrue
<1>6. Blocks!MovesOn
  BY <1>2, <1>4 DEF Blocks!MovesOn
<1> QED BY <1>3, <1>5, <1>6

LEMMA BooksStep ==
  ASSUME Inv, [Next]_vars
  PROVE  DatesInv' /\ CounterIsTrue' /\ [Blocks!Next]_(Blocks!vars)
<1> USE DEF accountVars, taskVars, workerVars, bookVars
<1>0. CalendarInv /\ TasksInv /\ DatesInv /\ CounterIsTrue
  BY DEF Inv, BookingInv
<1>1. ASSUME UNCHANGED <<start, used, made, size, counted, credited>>,
             clock' \in Nat, clock' >= clock,
             \A t \in Tasks : (status'[t] = "new" <=> status[t] = "new")
                              /\ (status[t] = "gone" => status'[t] = "gone")
      PROVE  DatesInv' /\ CounterIsTrue' /\ [Blocks!Next]_(Blocks!vars)
  <2>1. CounterIsTrue' /\ [Blocks!Next]_(Blocks!vars)
    BY <1>0, <1>1, SameBooks DEF Blocks!vars
  <2>2. Taken' = Taken /\ Returned' = Returned
    BY <1>1 DEF Taken, Returned
  <2>3. StraysApart'
    BY <1>0, <1>1, <2>2 DEF DatesInv, StraysApart, Strays
  <2>4. \A t \in Taken : made[t] <= clock'
    BY <1>0, <1>1, Bounds DEF DatesInv, Taken, TasksInv, CalendarInv
  <2>5. \A t \in Returned : t \in Tasks
    BY DEF Returned
  <2>6. DatesInv'
    BY <1>0, <1>1, <2>2, <2>3, <2>4, <2>5 DEF DatesInv, Fits
  <2> QED BY <2>1, <2>6
<1>2. ASSUME NEW t \in Tasks, Cancel(t) PROVE DatesInv' /\ CounterIsTrue' /\ [Blocks!Next]_(Blocks!vars)
  BY <1>2, CancelBooks
<1>3. clock \in Nat /\ clock >= clock
  BY <1>0, Bounds DEF CalendarInv
<1>4. ASSUME NEW t \in Tasks, Reassign(t) PROVE DatesInv' /\ CounterIsTrue' /\ [Blocks!Next]_(Blocks!vars)
  <2>1. \A r \in Tasks : (status'[r] = "new" <=> status[r] = "new")
                         /\ (status[r] = "gone" => status'[r] = "gone")
    BY <1>0, <1>4 DEF Reassign, TasksInv
  <2> QED BY <1>1, <1>3, <1>4, <2>1 DEF Reassign
<1>5. ASSUME NEW w \in Workers, AssignWorker(w)
      PROVE  DatesInv' /\ CounterIsTrue' /\ [Blocks!Next]_(Blocks!vars)
  <2>1. \A r \in Tasks : (status'[r] = "new" <=> status[r] = "new")
                         /\ (status[r] = "gone" => status'[r] = "gone")
    BY <1>5 DEF AssignWorker, Routed
  <2> QED BY <1>1, <1>3, <1>5, <2>1 DEF AssignWorker
<1>6. CASE SubmitCommits
  BY <1>6, CommitBooks DEF Blocks!Next
<1>7. CASE SweepRolls
  BY <1>7, RollBooks DEF Blocks!Next
<1>8. CASE Tick
  BY <1>1, <1>3, <1>8 DEF Tick
<1>9. CASE UNCHANGED <<clock, accountVars, taskVars>>
  BY <1>1, <1>3, <1>9
<1> QED BY <1>2, <1>4, <1>5, <1>6, <1>7, <1>8, <1>9 DEF Next, SubmitReads, SubmitRollsBack,
           Suspend, Approve, RecordPayment, RecordPayout, SetStatus, vars

\* No step of the promise oversells a week.
LEMMA BlockKept ==
  ASSUME NeverOversold, start \in Weeks, start' \in Weeks, [Blocks!Next]_(Blocks!vars),
         \A week \in Weeks : Sold[week] \in Nat /\ Extra[week] \in Nat
  PROVE  \A week \in Weeks : Sold'[week] <= Block + Extra'[week]
<1>0. Block \in Nat /\ \A week \in Weeks : Sold[week] <= Block + Extra[week]
  BY Bounds DEF NeverOversold
<1>1. CASE Blocks!Sell
  BY <1>0, <1>1 DEF Blocks!Sell, Blocks!OnlyTouches
<1>2. CASE Blocks!Credit
  <2>1. /\ Sold'[start] \in 0..(Sold[start] - 1) /\ Extra' = Extra
        /\ \A week \in Weeks \ {start} : Sold'[week] = Sold[week]
    BY <1>2 DEF Blocks!Credit, Blocks!OnlyTouches
  <2>2. Sold[start] \in Nat /\ Sold[start] <= Block + Extra[start] /\ Extra[start] \in Nat
    BY <1>0
  <2>3. Sold'[start] <= Block + Extra'[start]
    BY <1>0, <2>1, <2>2
  <2> QED BY <1>0, <2>1, <2>3
<1>3. CASE Blocks!LateCredit
  <2>1. PICK w \in Weeks :
          /\ w < start /\ Sold'[w] \in 0..(Sold[w] - 1) /\ Extra[start] = 0
          /\ \A week \in Weeks \ {w} : Sold'[week] = Sold[week]
          /\ Extra' = [Extra EXCEPT ![start] = Sold[w] - Sold'[w]]
    BY <1>3 DEF Blocks!LateCredit, Blocks!OnlyTouches
  <2>2. \A week \in Weeks \ {start} : Extra'[week] = Extra[week]
    BY <2>1 DEF Extra
  <2>3. Extra'[start] = Sold[w] - Sold'[w]
    BY <2>1 DEF Extra
  <2>4. Sold[w] \in Nat /\ Sold'[w] \in Nat /\ Sold'[w] <= Sold[w] /\ w \in Int /\ start \in Int
    BY <2>1, Multiples
  <2>5. Sold'[start] <= Block + Extra'[start]
    BY <1>0, <2>1, <2>3, <2>4
  <2>6. Sold'[w] <= Block + Extra'[w]
    BY <1>0, <2>1, <2>2, <2>4
  <2> QED BY <1>0, <2>1, <2>2, <2>5, <2>6
<1>4. CASE UNCHANGED <<Sold, Extra>>
  BY <1>0, <1>4
<1> QED BY <1>1, <1>2, <1>3, <1>4 DEF Blocks!Next, Blocks!MovesOn, Blocks!vars

\* What a submission has read stays so until it commits: whoever could change
\* it waits for the lock (lockStandingAccount).
LEMMA FlightStep ==
  ASSUME Inv, [Next]_vars
  PROVE  \A s \in submitting' : InFlight(s)'
<1> USE DEF accountVars, taskVars, workerVars, bookVars
<1>0. /\ CalendarInv /\ TasksInv /\ MinutesInv /\ DatesInv
      /\ \A s \in submitting : InFlight(s) /\ s \in Reads
  BY DEF Inv, BookingInv, MinutesInv
<1>1. ASSUME NEW t \in Tasks, NEW n \in Sizes, SubmitReads(t, n)
      PROVE  \A s \in submitting' : InFlight(s)'
  <2> DEFINE week == RollForward(start, clock)
  <2>1. PICK b : submitting' = {[task |-> t, size |-> n, by |-> b, now |-> clock, start |-> week,
                                 used |-> IF week = start THEN used ELSE 0]}
    BY <1>1 DEF SubmitReads
  <2>2. clock < week + Week /\ (week = start \/ week >= start + Week)
    BY <1>0, RollsWhole DEF CalendarInv
  <2>3. status[t] = "new" /\ UNCHANGED <<clock, start, used, status, made>>
    BY <1>1 DEF SubmitReads
  <2>4. week # start => week >= start + Week
    BY <2>2
  <2>5. clock <= clock /\ \A r \in Taken : made[r] <= clock
    BY <1>0, Bounds DEF CalendarInv, DatesInv
  <2> HIDE DEF week
  <2> QED BY <2>1, <2>2, <2>3, <2>4, <2>5 DEF InFlight, End, Taken
<1>2. CASE SubmitCommits \/ SubmitRollsBack
  BY <1>2 DEF SubmitCommits, SubmitRollsBack
<1>3. CASE SweepRolls
  BY <1>3 DEF SweepRolls, Unlocked
<1>4. ASSUME NEW t \in Tasks, Cancel(t) PROVE \A s \in submitting' : InFlight(s)'
  BY <1>4 DEF Cancel, Unlocked
<1>5. ASSUME UNCHANGED <<start, used, made, submitting>>, clock' \in Nat, clock' >= clock,
             \A t \in Tasks : status[t] = "new" <=> status'[t] = "new"
      PROVE  \A s \in submitting' : InFlight(s)'
  <2> SUFFICES ASSUME NEW s \in submitting PROVE InFlight(s)'
    BY <1>5
  <2>1. InFlight(s) /\ s.now \in 0..Horizon /\ clock \in 0..Horizon /\ Horizon \in Nat /\ s.task \in Tasks
    BY <1>0, Bounds DEF Reads, CalendarInv
  <2>2. s.now <= clock'
    BY <1>5, <2>1 DEF InFlight
  <2>3. Taken' = Taken
    BY <1>5 DEF Taken
  <2> QED BY <1>5, <2>1, <2>2, <2>3 DEF InFlight, End
<1>6. clock \in Nat /\ clock >= clock /\ clock + 1 \in Nat /\ clock + 1 >= clock
  BY <1>0, Bounds DEF CalendarInv
<1>7. CASE Tick
  BY <1>5, <1>6, <1>7 DEF Tick
<1>8. ASSUME NEW t \in Tasks, Reassign(t) PROVE \A s \in submitting' : InFlight(s)'
  <2>1. \A r \in Tasks : status[r] = "new" <=> status'[r] = "new"
    BY <1>0, <1>8 DEF Reassign, TasksInv
  <2> QED BY <1>5, <1>6, <1>8, <2>1 DEF Reassign
<1>9. ASSUME NEW w \in Workers, AssignWorker(w) PROVE \A s \in submitting' : InFlight(s)'
  <2>1. \A r \in Tasks : status[r] = "new" <=> status'[r] = "new"
    BY <1>9 DEF AssignWorker, Routed
  <2> QED BY <1>5, <1>6, <1>9, <2>1 DEF AssignWorker
<1>10. CASE UNCHANGED <<clock, accountVars, submitting, status, made>>
  BY <1>5, <1>6, <1>10
<1> QED BY <1>1, <1>2, <1>3, <1>4, <1>7, <1>8, <1>9, <1>10 DEF Next, Suspend, Approve,
           RecordPayment, RecordPayout, SetStatus, vars

\* No two tasks were given back to a week they were not taken from.
LEMMA OneMisplaced ==
  ASSUME DatesInv, TasksInv, NEW week \in Weeks
  PROVE  Cardinality(Misplaced(week)) <= 1
<1>1. ASSUME NEW t \in Misplaced(week), NEW u \in Misplaced(week) PROVE t = u
  <2>1. t \in Returned /\ u \in Returned /\ Strays(t, week) /\ Strays(u, week)
    BY Bounds DEF Misplaced, Returned, Strays, Never, Weeks
  <2>2. t \in Taken /\ u \in Taken
    BY <2>1 DEF DatesInv, Taken, Misplaced
  <2> QED BY <2>1, <2>2 DEF DatesInv, StraysApart
<1> QED BY <1>1, OneOrNone DEF AtMostOne

-----------------------------------------------------------------------------
(* Theorems.                                                               *)

\* The invariant holds of every behaviour of an account
\* (standing-capacity.ts, standing-period.ts).
THEOREM Invariance == Spec => []Inv
<1>0. (DatesInv /\ TasksInv => \A week \in Weeks : Cardinality(Misplaced(week)) <= 1)'
  <2>1. DatesInv /\ TasksInv => \A week \in Weeks : Cardinality(Misplaced(week)) <= 1
    BY OneMisplaced
  <2> QED BY <2>1, PTL
<1>1. Inv /\ [Next]_vars => Inv'
  <2> SUFFICES ASSUME Inv, [Next]_vars PROVE Inv'
    OBVIOUS
  <2>1. CalendarInv' /\ MinutesInv' /\ TasksInv' /\ RowsInv'
    BY CalendarStep, MinutesStep, TasksStep, RowsStep
  <2>2. DatesInv' /\ CounterIsTrue' /\ \A s \in submitting' : InFlight(s)'
    BY BooksStep, FlightStep
  <2>3. \A week \in Weeks : Sold'[week] <= Block + Extra'[week]
    <3>1. NeverOversold /\ start \in Weeks /\ start' \in Weeks /\ DatesInv
      BY <2>1 DEF CalendarInv, Inv, BookingInv
    <3>2. \A week \in Weeks : Sold[week] \in Nat /\ Extra[week] \in Nat
      BY <3>1, Counts
    <3> QED BY <3>1, <3>2, BooksStep, BlockKept
  <2>4. NeverOversold'
    BY <1>0, <2>1, <2>2, <2>3 DEF NeverOversold
  <2> QED BY <2>1, <2>2, <2>4 DEF Inv, BookingInv
<1> QED BY <1>1, InitInv, PTL DEF Spec

\* Minutes used never leave the block, at most one worker is assigned
\* (submitStandingTask, returnStandingMinutes, assignWorker).
THEOREM TypeCorrect == Spec => []TypeOK
<1>1. Inv => TypeOK
  <2> SUFFICES ASSUME Inv PROVE TypeOK
    OBVIOUS
  <2>1. Cardinality(Open) <= 1 /\ Cardinality(submitting) <= 1
    BY OneOrNone DEF Inv, MinutesInv, RowsInv
  <2> QED BY <2>1 DEF Inv, CalendarInv, MinutesInv, TasksInv, RowsInv, TypeOK
<1> QED BY <1>1, Invariance, PTL

\* A worker is paid only for a week an assignment of theirs ran in
\* (assigneeAtPeriodEnd).
THEOREM PaidWasHeld == Spec => []PaidForHeldWeek
<1>1. Inv => PaidForHeldWeek
  BY DEF Inv, RowsInv
<1> QED BY <1>1, Invariance, PTL

\* Weeks recorded as paid, by the client or to a worker, never overlap: a late
\* roll does not sell the same day twice (rollForwardPeriods).
WeeksAreDisjoint ==
  \A v, w \in paid \cup {p[2] : p \in payouts} : v = w \/ v + Week <= w \/ w + Week <= v

\* No day is in two recorded weeks, however late the rolls
\* (rollForwardPeriods, selectablePeriods).
THEOREM NoDayTwice == Spec => []WeeksAreDisjoint
<1>1. Inv => WeeksAreDisjoint
  BY WeeksApart DEF Inv, CalendarInv, WeeksAreDisjoint
<1> QED BY <1>1, Invariance, PTL

\* The counter of an account is what its week was sold for, though submissions,
\* credits, the sweep and the clock interleave, but for the one task that was
\* given back to a week it was not taken from (submitStandingTask,
\* returnStandingMinutes, advanceStandingCapacityPeriods).
THEOREM CounterStaysTrue == Spec => []CounterIsTrue
<1>1. Inv => CounterIsTrue
  BY DEF Inv, BookingInv
<1> QED BY <1>1, Invariance, PTL

\* No week is sold beyond its block and the one task given back to it that was
\* taken from an earlier week, not even one closed long ago
\* (submitStandingTask, returnStandingMinutes).
THEOREM BlockHolds == Spec => []NeverOversold
<1>1. Inv => NeverOversold
  BY DEF Inv, BookingInv
<1> QED BY <1>1, Invariance, PTL

\* An account implements the weekly blocks: whoever submits, withdraws or rolls
\* late, what changes is the week it is in, and once a week a week behind it
\* (submitStandingTask, returnStandingMinutes, advanceStandingCapacityPeriods).
THEOREM AccountSellsBlocks == Spec => SellsWeeklyBlocks
<1>1. Init => Blocks!Init
  <2> SUFFICES ASSUME Init PROVE Blocks!Init
    OBVIOUS
  <2>1. ASSUME NEW week \in Weeks PROVE SoldFrom(week) = {} /\ Misplaced(week) = {}
    BY Bounds DEF Init, SoldFrom, Misplaced, Never, Weeks
  <2>2. Cardinality(Minutes({})) = 0
    BY LaidNothing DEF Laid, Minutes
  <2>3. Sold = [week \in Weeks |-> 0] /\ Extra = [week \in Weeks |-> 0]
    BY <2>1, <2>2 DEF Sold, Extra
  <2> QED BY <2>3 DEF Init, Blocks!Init
<1>2. Inv /\ [Next]_vars => [Blocks!Next]_(Blocks!vars)
  BY BooksStep
<1> QED
  BY <1>1, <1>2, Invariance, PTL DEF Spec, Blocks!Spec, SellsWeeklyBlocks

\* Every week but the very first can be recorded as long as the walk back
\* reaches it.
LaterWeeksRecordable ==
  \A week \in Weeks \ {0} : week <= start /\ start - week < MaxBackdated * Week => week \in Selectable

\* The opening moment is all the walk back loses: whether or not createdAt is
\* behind the first week's start, every later week within reach is selectable
\* (selectablePeriods; EveryWeekRecordable asks the same of the first week).
THEOREM OnlyTheFirstWeekIsLost == Spec => []LaterWeeksRecordable
<1>1. Inv => LaterWeeksRecordable
  <2> SUFFICES ASSUME Inv, NEW week \in Weeks \ {0},
                      week <= start, start - week < MaxBackdated * Week
               PROVE  week \in Selectable
    BY DEF LaterWeeksRecordable
  <2> DEFINE a == start \div Week
             b == week \div Week
             k == a - b
  <2>1. a \in Nat /\ start = Week * a /\ b \in Nat /\ week = Week * b
    BY Multiples DEF Inv, CalendarInv
  <2>2. Week \in Nat \ {0} /\ MaxBackdated \in Nat \ {0}
    BY Bounds
  <2> HIDE DEF a, b
  <2>3. k \in Int /\ Week * (b + k) = Week * b + Week * k
    BY <2>1, Distributes
  <2>4. start - week = Week * k /\ Week * k >= 0 /\ Week * k < Week * MaxBackdated
    BY <2>1, <2>2, <2>3
  <2> HIDE DEF k
  <2>5. k >= 0
    BY <2>2, <2>3, <2>4
  <2>6. k < MaxBackdated
    BY <2>2, <2>3, <2>4
  <2>7. k \in 0..(MaxBackdated - 1) /\ start - k * Week = week
    BY <2>1, <2>2, <2>3, <2>4, <2>5, <2>6
  <2>8. ~Predates(week)
    BY <2>1 DEF Weeks, Predates
  <2> QED BY <2>7, <2>8 DEF Selectable
<1> QED BY <1>1, Invariance, PTL
=============================================================================
