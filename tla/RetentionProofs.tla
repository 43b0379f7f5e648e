--------------------------- MODULE RetentionProofs ---------------------------
(***************************************************************************)
(* Theorems about Retention, for any tables, timestamps, batch size and     *)
(* retention period, and any number of writes and failures.                 *)
(***************************************************************************)
EXTENDS Retention, FiniteSetTheorems, TLAPS

-----------------------------------------------------------------------------
\* The inductive invariant.

\* An open transaction still has its number to take.
WritesInv == Open => writes < MaxWrites

\* Version numbers are handed out in order.
CtidInv ==
    /\ \A x \in Present : rows[x].ctid <= writes
    /\ \A i \in 1..Len(batch) : batch[i][2] <= writes

\* What lies before the cutoff is past its retention period.
CutoffInv == cutoff = 0 \/ cutoff + Period <= now

\* A batch entry that is still the row's version is before the cutoff.
BatchInv ==
    \A i \in 1..Len(batch) :
        IsCurrent(batch[i]) => rows[batch[i][1]].time < cutoff

\* So is every row the running DELETE has deleted, and nobody can touch it.
MarkedInv ==
    \A x \in marked : x \in Before(cutoff) /\ pending[x] = Absent

\* Outside a DELETE there is nothing to visit and nothing deleted.
IdleInv == phase # "delete" => batch = <<>> /\ marked = {}

IInv ==
    /\ TypeOK
    /\ WritesInv
    /\ CtidInv
    /\ CutoffInv
    /\ BatchInv
    /\ MarkedInv
    /\ IdleInv

-----------------------------------------------------------------------------
\* The batch.

\* A batch is a sequence of row versions of expired rows.
LEMMA BatchRowsExpired ==
    ASSUME TypeOK, NEW chosen \in SUBSET Candidates, NEW b \in SetToSeqs(chosen)
    PROVE  /\ b \in Seq(Candidates)
           /\ \A i \in 1..Len(b) : b[i] \in Candidates
<1> DEFINE Found == {y \in Before(cutoff) : TableOf[y] = Tables[turn]}
<1> DEFINE version == [y \in Found |-> <<y, rows[y].ctid>>]
<1>1. IsFiniteSet(Found)
  <2>1. Found \subseteq Slots
    BY DEF Before, Present
  <2> QED
    BY <2>1, SlotsAssumption, FS_Subset
<1>2. version \in Surjection(Found, Candidates)
  BY DEF Surjection, Candidates
<1>3. IsFiniteSet(Candidates)
  <2> HIDE DEF Found, version
  <2> QED
    BY <1>1, <1>2, FS_Surjection
<1>4. Cardinality(chosen) \in Nat
  BY <1>3, FS_Subset, FS_CardinalityType
<1>5. b \in [1..Cardinality(chosen) -> chosen]
  BY DEF SetToSeqs
<1>6. b \in Seq(chosen) /\ Len(b) = Cardinality(chosen)
  BY <1>4, <1>5
<1> QED
  BY <1>5, <1>6

\* A step of the clock, or of the writers that changes no row.
LEMMA QuietSteps ==
    ASSUME IInv, rows' = rows, UNCHANGED sweepVars,
           now' \in Times, now' >= now, writes' >= writes, TypeOK', WritesInv',
           \A x \in Slots : pending'[x] = pending[x] \/ pending'[x] = Absent \/ x \notin marked
    PROVE  IInv'
<1>t. now \in Nat /\ now' \in Nat /\ cutoff \in Nat /\ Period \in Nat
  BY PeriodAssumption, BoundsAssumption DEF IInv, TypeOK, Times
<1>w. writes \in Nat /\ writes' \in Nat
  BY BoundsAssumption DEF IInv, TypeOK
<1>s. /\ cutoff' = cutoff /\ batch' = batch /\ marked' = marked
      /\ marked \subseteq Slots
  BY DEF sweepVars, IInv, TypeOK
<1>p. Present' = Present /\ Present \subseteq Slots
  BY DEF Present
<1>1. CtidInv'
  <2>1. ASSUME NEW x \in Present PROVE rows[x].ctid <= writes'
    <3>1. rows[x].ctid \in Nat
      BY BoundsAssumption DEF Present, IInv, TypeOK, Versions
    <3> QED
      BY <1>w, <3>1 DEF IInv, CtidInv
  <2>2. ASSUME NEW i \in 1..Len(batch) PROVE batch[i][2] <= writes'
    <3>1. batch[i] \in Slots \X (0..MaxWrites)
      BY DEF IInv, TypeOK
    <3>2. batch[i][2] \in Nat
      BY <3>1, BoundsAssumption
    <3> QED
      BY <1>w, <3>2 DEF IInv, CtidInv
  <2> QED
    BY <1>s, <1>p, <2>1, <2>2 DEF CtidInv
<1>2. CutoffInv'
  BY <1>t, <1>s DEF IInv, CutoffInv
<1>3. BatchInv'
  BY <1>s, <1>p DEF IInv, BatchInv, IsCurrent
<1>4. MarkedInv'
  BY <1>s, <1>p DEF IInv, MarkedInv, Before
<1>5. IdleInv'
  BY DEF sweepVars, IInv, IdleInv
<1> QED
  BY <1>1, <1>2, <1>3, <1>4, <1>5 DEF IInv

\* The same for steps of the sweep that change no row, given what they make
\* of the cutoff, the batch and the marks.
LEMMA SweepSteps ==
    ASSUME IInv, UNCHANGED <<now, rows, writerVars>>, TypeOK', CutoffInv', BatchInv',
           MarkedInv', IdleInv', \A i \in 1..Len(batch') : batch'[i][2] <= writes
    PROVE  IInv'
<1>1. WritesInv'
  BY DEF IInv, WritesInv, Open, Writing, writerVars
<1>2. CtidInv'
  BY DEF IInv, CtidInv, Present, writerVars
<1> QED
  BY <1>1, <1>2 DEF IInv

-----------------------------------------------------------------------------
\* Types.

LEMMA InitInv == Init => IInv
<1> SUFFICES ASSUME Init PROVE IInv
  OBVIOUS
<1>c. BatchRows \in Nat \ {0} /\ Period \in Nat \ {0} /\ MaxTime \in Nat
      /\ Stamps \subseteq Nat /\ MaxWrites \in Nat /\ MaxFailures \in Nat
  BY BatchRowsAssumption, PeriodAssumption, BoundsAssumption
<1>1. TypeOK
  <2>1. rows \in [Slots -> Versions \cup {Absent}]
    BY <1>c DEF Init, Versions
  <2>2. batch = <<>> /\ batch \in Seq(Slots \X (0..MaxWrites))
    BY DEF Init
  <2>3. now \in Times /\ cutoff \in Times /\ writes \in 0..MaxWrites
        /\ failures \in 0..MaxFailures
    BY <1>c DEF Init, Times
  <2>4. turn \in 1..Len(Tables)
    BY DEF Init, Tables
  <2>5. pending \in [Slots -> Stamps \cup {Absent}]
    BY DEF Init
  <2> QED
    BY <2>1, <2>2, <2>3, <2>4, <2>5 DEF Init, TypeOK
<1>2. WritesInv
  BY DEF Init, WritesInv, Open, Writing
<1>3. CtidInv
  <2>1. \A x \in Present : rows[x].ctid = 0
    BY DEF Init, Present
  <2> QED
    BY <2>1 DEF Init, CtidInv
<1>4. CutoffInv /\ BatchInv /\ MarkedInv
  BY DEF Init, CutoffInv, BatchInv, MarkedInv
<1>5. IdleInv
  BY DEF Init, IdleInv
<1> QED
  BY <1>1, <1>2, <1>3, <1>4, <1>5 DEF IInv

LEMMA NextType == IInv /\ [Next]_vars => TypeOK'
<1> SUFFICES ASSUME IInv, [Next]_vars PROVE TypeOK'
  OBVIOUS
<1>c. BatchRows \in Nat \ {0} /\ Period \in Nat \ {0} /\ MaxTime \in Nat
      /\ Stamps \subseteq Nat /\ MaxWrites \in Nat /\ MaxFailures \in Nat
  BY BatchRowsAssumption, PeriodAssumption, BoundsAssumption
<1>t. TypeOK /\ WritesInv
  BY DEF IInv
<1> USE DEF TypeOK
<1>1. CASE Tick
  BY <1>c, <1>t, <1>1 DEF Tick, Times, writerVars, sweepVars
<1>2. ASSUME NEW x \in SpanSlots, NEW t \in Stamps, UpsertSpan(x, t)
      PROVE  TypeOK'
  BY <1>t, <1>2 DEF UpsertSpan, sweepVars
<1>3. CASE LockSpan
  <2>1. want \in [slot : SpanSlots, time : Stamps]
    BY <1>t, <1>3 DEF LockSpan
  <2> QED
    BY <1>t, <1>3, <2>1 DEF LockSpan, sweepVars
<1>4. CASE CommitSpans
  <2>1. writes + 1 \in 0..MaxWrites
    BY <1>c, <1>t, <1>4 DEF CommitSpans, WritesInv, Open
  <2>2. \A x \in Writing : [time |-> pending[x], ctid |-> writes + 1] \in Versions
    BY <1>t, <2>1 DEF Writing, Versions
  <2> QED
    BY <1>t, <1>4, <2>1, <2>2 DEF CommitSpans
<1>5. CASE AbortSpans
  <2>1. writes + 1 \in 0..MaxWrites
    BY <1>c, <1>t, <1>5 DEF AbortSpans, WritesInv
  <2> QED
    BY <1>t, <1>5, <2>1 DEF AbortSpans, sweepVars
<1>6. ASSUME NEW x \in Slots \ SpanSlots, NEW t \in Stamps, AppendRow(x, t)
      PROVE  TypeOK'
  <2>1. writes + 1 \in 0..MaxWrites
    BY <1>c, <1>t, <1>6 DEF AppendRow
  <2>2. [time |-> t, ctid |-> writes + 1] \in Versions
    BY <2>1 DEF Versions
  <2> QED
    BY <1>t, <1>6, <2>1, <2>2 DEF AppendRow, sweepVars
<1>7. CASE StartPass
  <2>1. cutoff' \in Times
    BY <1>c, <1>t, <1>7 DEF StartPass, Times
  <2>2. due' \subseteq Slots
    BY <1>7 DEF StartPass, Before, Present
  <2>3. turn' \in 1..Len(Tables)
    BY <1>7 DEF StartPass, Tables
  <2> QED
    BY <1>t, <1>7, <2>1, <2>2, <2>3 DEF StartPass, writerVars
<1>8. CASE SelectBatch
  <2>1. Candidates \subseteq Slots \X (0..MaxWrites)
    BY <1>t DEF Candidates, Before, Present, Versions
  <2>2. PICK chosen \in kSubset(BatchSize(Cardinality(Candidates)), Candidates) :
              batch' \in SetToSeqs(chosen)
    BY <1>8 DEF SelectBatch
  <2>3. chosen \in SUBSET Candidates
    BY <2>2 DEF kSubset
  <2>4. batch' \in Seq(Candidates)
    BY <1>t, <2>2, <2>3, BatchRowsExpired
  <2>5. batch' \in Seq(Slots \X (0..MaxWrites))
    BY <2>1, <2>4
  <2> QED
    BY <1>t, <1>8, <2>5 DEF SelectBatch, writerVars
<1>9. CASE VisitRow
  <2>1. Head(batch) \in Slots \X (0..MaxWrites) /\ batch' \in Seq(Slots \X (0..MaxWrites))
    BY <1>t, <1>9 DEF VisitRow
  <2>2. Head(batch)[1] \in Slots
    BY <2>1
  <2> QED
    BY <1>t, <1>9, <2>1, <2>2 DEF VisitRow, writerVars
<1>10. CASE FinishBatch
  <2>1. rows' \in [Slots -> Versions \cup {Absent}] /\ due' \subseteq Slots
        /\ marked' \subseteq Slots
    BY <1>t, <1>10 DEF FinishBatch
  <2>2. /\ turn' \in 1..Len(Tables) /\ cutoff' \in Times
        /\ phase' \in {"sleeping", "select", "delete"}
        /\ outcome' \in {"none", "ok", "failed"}
    <3>1. Len(Tables) = 3
      BY DEF Tables
    <3>2. turn \in 1..3 /\ cutoff \in Times /\ 0 \in Times
      BY <1>c, <1>t, <3>1 DEF Times
    <3>3. LastBatch \in BOOLEAN
      BY DEF LastBatch
    <3>4. CASE ~ LastBatch
      BY <1>t, <1>10, <3>1, <3>2, <3>4 DEF FinishBatch
    <3>5. CASE LastBatch /\ turn < 3
      <4>1. phase' = "select" /\ turn' = turn + 1 /\ UNCHANGED <<cutoff, outcome>>
        BY <1>10, <3>1, <3>2, <3>5 DEF FinishBatch
      <4>2. turn + 1 \in 1..3
        BY <3>2, <3>5
      <4> QED
        BY <1>t, <3>1, <3>2, <4>1, <4>2
    <3>6. CASE LastBatch /\ turn = 3
      <4>1. phase' = "sleeping" /\ turn' = 1 /\ cutoff' = 0 /\ outcome' = "ok"
        BY <1>10, <3>1, <3>2, <3>6 DEF FinishBatch
      <4> QED
        BY <1>t, <3>1, <3>2, <4>1
    <3> QED
      BY <3>2, <3>4, <3>5, <3>6
  <2> QED
    BY <1>t, <1>10, <2>1, <2>2 DEF FinishBatch, writerVars
<1>11. CASE SweepFails \/ SweepIsVictim
  <2>1. failures' \in 0..MaxFailures
    BY <1>c, <1>t, <1>11 DEF SweepFails, SweepIsVictim
  <2>2. EndFailedPass /\ UNCHANGED writerVars
    BY <1>11 DEF SweepFails, SweepIsVictim
  <2> QED
    BY <1>c, <1>t, <2>1, <2>2 DEF EndFailedPass, writerVars, Times, Tables
<1>12. CASE UNCHANGED vars
  BY <1>t, <1>12 DEF vars
<1> QED
  BY <1>1, <1>2, <1>3, <1>4, <1>5, <1>6, <1>7, <1>8, <1>9, <1>10, <1>11, <1>12
  DEF Next, Write, Sweep

-----------------------------------------------------------------------------
\* The invariant is inductive, and its theorems.

LEMMA NextInv == IInv /\ [Next]_vars => IInv'
<1> SUFFICES ASSUME IInv, [Next]_vars PROVE IInv'
  OBVIOUS
<1>c. BatchRows \in Nat \ {0} /\ Period \in Nat \ {0} /\ MaxTime \in Nat
      /\ Stamps \subseteq Nat /\ MaxWrites \in Nat /\ MaxFailures \in Nat
  BY BatchRowsAssumption, PeriodAssumption, BoundsAssumption
<1>t. /\ TypeOK /\ TypeOK' /\ now \in Nat /\ writes \in Nat /\ cutoff \in Nat
      /\ writes' \in Nat /\ now' \in Nat
  <2>1. TypeOK /\ TypeOK'
    BY NextType DEF IInv
  <2> QED
    BY <1>c, <2>1 DEF TypeOK, Times
<1>b. \A i \in 1..Len(batch) : /\ batch[i] \in Slots \X (0..MaxWrites)
                               /\ batch[i][1] \in Slots /\ batch[i][2] \in Nat
  <2>1. \A i \in 1..Len(batch) : batch[i] \in Slots \X (0..MaxWrites)
    BY <1>t DEF TypeOK
  <2> QED
    BY <1>c, <2>1
<1>1. CASE Tick
  <2>1. WritesInv'
    BY <1>1 DEF Tick, IInv, WritesInv, Open, Writing, writerVars
  <2> QED
    BY <1>1, <1>t, <2>1, QuietSteps DEF Tick, writerVars, TypeOK
<1>2. ASSUME NEW x \in SpanSlots, NEW t \in Stamps, UpsertSpan(x, t)
      PROVE  IInv'
  <2>1. WritesInv'
    BY <1>2 DEF UpsertSpan, WritesInv
  <2> QED
    BY <1>2, <1>t, <2>1, QuietSteps DEF UpsertSpan, TypeOK
<1>3. CASE LockSpan
  <2>1. WritesInv'
    BY <1>3 DEF LockSpan, IInv, WritesInv, Open
  <2>2. \A x \in Slots : pending'[x] = pending[x] \/ x \notin marked
    BY <1>3, <1>t DEF LockSpan, TypeOK
  <2> QED
    BY <1>3, <1>t, <2>1, <2>2, QuietSteps DEF LockSpan, TypeOK
<1>4. CASE AbortSpans
  <2>1. WritesInv'
    BY <1>4 DEF AbortSpans, WritesInv, Open, Writing
  <2>2. \A x \in Slots : pending'[x] = Absent
    BY <1>4 DEF AbortSpans
  <2> QED
    BY <1>4, <1>t, <2>1, <2>2, QuietSteps DEF AbortSpans, TypeOK
<1>5. ASSUME NEW new \in SUBSET Slots, new \cap marked = {},
             writes' = writes + 1, UNCHANGED <<now, cutoff, batch, marked>>,
             WritesInv', IdleInv',
             \A x \in Slots : x \notin new => rows'[x] = rows[x],
             \A x \in new : rows'[x].ctid = writes + 1,
             \A x \in Slots : pending'[x] = pending[x] \/ pending'[x] = Absent
      PROVE  IInv'
  <2>1. CtidInv'
    <3>1. ASSUME NEW x \in Slots, rows'[x] # Absent PROVE rows'[x].ctid <= writes + 1
      <4>1. CASE x \in new
        BY <1>5, <1>t, <4>1
      <4>2. CASE x \notin new
        <5>1. rows'[x] = rows[x] /\ x \in Present
          BY <1>5, <3>1, <4>2 DEF Present
        <5>2. rows[x].ctid <= writes /\ rows[x].ctid \in Nat
          BY <1>t, <1>c, <5>1 DEF IInv, CtidInv, TypeOK, Present, Versions
        <5> QED
          BY <1>t, <5>1, <5>2
      <4> QED
        BY <4>1, <4>2
    <3>2. \A i \in 1..Len(batch) : batch[i][2] <= writes + 1
      BY <1>t, <1>b DEF IInv, CtidInv
    <3> QED
      BY <1>5, <3>1, <3>2 DEF CtidInv, Present
  <2>2. BatchInv'
    <3> SUFFICES ASSUME NEW i \in 1..Len(batch), IsCurrent(batch[i])'
                 PROVE  rows'[batch[i][1]].time < cutoff
      BY <1>5 DEF BatchInv
    <3>1. rows'[batch[i][1]].ctid = batch[i][2] /\ rows'[batch[i][1]] # Absent
      BY <1>5 DEF IsCurrent, Present
    <3>2. batch[i][2] <= writes
      BY DEF IInv, CtidInv
    <3>3. batch[i][1] \notin new
      BY <1>5, <1>t, <1>b, <3>1, <3>2
    <3>4. rows'[batch[i][1]] = rows[batch[i][1]]
      BY <1>5, <1>b, <3>3
    <3>5. IsCurrent(batch[i])
      BY <1>b, <3>1, <3>4 DEF IsCurrent, Present
    <3> QED
      BY <3>4, <3>5 DEF IInv, BatchInv
  <2>3. MarkedInv'
    BY <1>5, <1>t DEF IInv, MarkedInv, Before, Present, TypeOK
  <2>4. CutoffInv'
    BY <1>5 DEF IInv, CutoffInv
  <2> QED
    BY <1>5, <1>t, <2>1, <2>2, <2>3, <2>4 DEF IInv
<1>6. CASE CommitSpans
  <2>1. Writing \subseteq Slots /\ Writing \cap marked = {}
    BY DEF Writing, IInv, MarkedInv
  <2>2. WritesInv'
    BY <1>6 DEF CommitSpans, WritesInv, Open, Writing
  <2>3. /\ \A x \in Slots : x \notin Writing => rows'[x] = rows[x]
        /\ \A x \in Writing : rows'[x].ctid = writes + 1
        /\ \A x \in Slots : pending'[x] = Absent
    BY <1>6, <2>1 DEF CommitSpans
  <2>4. writes' = writes + 1 /\ UNCHANGED <<now, cutoff, batch, marked>>
    BY <1>6 DEF CommitSpans
  <2>5. IdleInv'
    BY <1>6 DEF CommitSpans, IInv, IdleInv
  <2> QED
    BY <1>5, <2>1, <2>2, <2>3, <2>4, <2>5
<1>7. ASSUME NEW x \in Slots \ SpanSlots, NEW t \in Stamps, AppendRow(x, t)
      PROVE  IInv'
  <2>1. x \notin marked
    BY <1>7 DEF AppendRow, IInv, MarkedInv, Before
  <2>2. WritesInv'
    <3>1. Open' = Open
      BY <1>7 DEF AppendRow, Open, Writing
    <3> QED
      BY <1>7, <1>t, <1>c, <3>1 DEF AppendRow, WritesInv
  <2>3. /\ \A y \in Slots : y \notin {x} => rows'[y] = rows[y]
        /\ \A y \in {x} : rows'[y].ctid = writes + 1
    BY <1>7, <1>t DEF AppendRow, TypeOK
  <2>4. IdleInv'
    BY <1>7 DEF AppendRow, sweepVars, IInv, IdleInv
  <2>5. /\ {x} \in SUBSET Slots /\ {x} \cap marked = {}
        /\ writes' = writes + 1 /\ UNCHANGED <<now, cutoff, batch, marked>>
        /\ pending' = pending
    BY <1>7, <2>1 DEF AppendRow, sweepVars
  <2> QED
    BY <1>5, <2>2, <2>3, <2>4, <2>5
<1>8. CASE StartPass
  <2>1. CutoffInv'
    BY <1>8, <1>c, <1>t DEF StartPass, CutoffInv
  <2>2. batch = <<>> /\ marked = {}
    BY <1>8 DEF StartPass, IInv, IdleInv
  <2>3. BatchInv' /\ MarkedInv'
    BY <1>8, <2>2 DEF StartPass, BatchInv, MarkedInv
  <2>4. IdleInv'
    BY <1>8, <2>2 DEF StartPass, IdleInv
  <2> QED
    BY <1>8, <1>t, <2>1, <2>2, <2>3, <2>4, SweepSteps DEF StartPass
<1>9. CASE SelectBatch
  <2>1. PICK chosen \in kSubset(BatchSize(Cardinality(Candidates)), Candidates) :
              batch' \in SetToSeqs(chosen)
    BY <1>9 DEF SelectBatch
  <2>2. \A i \in 1..Len(batch') : batch'[i] \in Candidates
    BY <1>t, <2>1, BatchRowsExpired DEF kSubset
  <2>3. \A i \in 1..Len(batch') :
          /\ batch'[i][1] \in Before(cutoff)
          /\ batch'[i][2] = rows[batch'[i][1]].ctid
    BY <2>2 DEF Candidates
  <2>4. BatchInv'
    BY <1>9, <2>3 DEF SelectBatch, BatchInv, Before, Present
  <2>5. MarkedInv' /\ CutoffInv'
    BY <1>9 DEF SelectBatch, MarkedInv, CutoffInv, IInv
  <2>6. \A i \in 1..Len(batch') : batch'[i][2] <= writes
    BY <2>3 DEF Before, IInv, CtidInv
  <2>7. IdleInv'
    BY <1>9 DEF SelectBatch, IdleInv
  <2> QED
    BY <1>9, <1>t, <2>4, <2>5, <2>6, <2>7, SweepSteps DEF SelectBatch
<1>10. CASE VisitRow
  <2>1. /\ Len(batch) > 0 /\ Head(batch) = batch[1] /\ 1 \in 1..Len(batch)
        /\ Len(batch') = Len(batch) - 1
        /\ \A i \in 1..Len(batch') : batch'[i] = batch[i + 1] /\ i + 1 \in 1..Len(batch)
    BY <1>10, <1>t DEF VisitRow, TypeOK
  <2>2. BatchInv'
    BY <1>10, <2>1 DEF VisitRow, BatchInv, IInv, IsCurrent, Present
  <2>3. MarkedInv'
    <3>1. ASSUME IsCurrent(batch[1])
          PROVE  batch[1][1] \in Before(cutoff) /\ pending[batch[1][1]] = Absent
      <4>1. batch[1][1] \in Slots /\ batch[1][1] \in Present
        BY <1>b, <2>1, <3>1 DEF IsCurrent
      <4> QED
        BY <1>10, <2>1, <3>1, <4>1 DEF VisitRow, IInv, BatchInv, Before, Writing
    <3> QED
      BY <1>10, <2>1, <3>1 DEF VisitRow, IInv, MarkedInv, Before, Present, writerVars
  <2>4. CutoffInv'
    BY <1>10 DEF VisitRow, CutoffInv, IInv
  <2>5. \A i \in 1..Len(batch') : batch'[i][2] <= writes
    BY <2>1 DEF IInv, CtidInv
  <2>6. IdleInv'
    BY <1>10 DEF VisitRow, IdleInv
  <2> QED
    BY <1>10, <1>t, <2>2, <2>3, <2>4, <2>5, <2>6, SweepSteps DEF VisitRow
<1>11. CASE FinishBatch
  <2>1. batch' = <<>> /\ marked' = {} /\ UNCHANGED <<now, writerVars>>
    BY <1>11 DEF FinishBatch
  <2>2. WritesInv'
    BY <2>1 DEF IInv, WritesInv, Open, Writing, writerVars
  <2>3. CtidInv'
    BY <1>11, <2>1 DEF FinishBatch, IInv, CtidInv, Present, writerVars
  <2>4. CutoffInv'
    BY <1>11 DEF FinishBatch, IInv, CutoffInv
  <2>5. BatchInv' /\ MarkedInv' /\ IdleInv'
    BY <2>1 DEF BatchInv, MarkedInv, IdleInv
  <2> QED
    BY <1>t, <2>2, <2>3, <2>4, <2>5 DEF IInv
<1>12. CASE SweepFails \/ SweepIsVictim
  <2>1. EndFailedPass /\ UNCHANGED writerVars
    BY <1>12 DEF SweepFails, SweepIsVictim
  <2>2. batch' = <<>> /\ marked' = {} /\ cutoff' = 0 /\ UNCHANGED <<now, rows>>
    BY <2>1 DEF EndFailedPass
  <2>3. CutoffInv' /\ BatchInv' /\ MarkedInv' /\ IdleInv'
    BY <2>2 DEF CutoffInv, BatchInv, MarkedInv, IdleInv
  <2> QED
    BY <1>t, <2>1, <2>2, <2>3, SweepSteps
<1>13. CASE UNCHANGED vars
  BY <1>13, <1>t, QuietSteps
  DEF vars, sweepVars, IInv, WritesInv, Open, Writing, TypeOK
<1> QED
  BY <1>1, <1>2, <1>3, <1>4, <1>6, <1>7, <1>8, <1>9, <1>10, <1>11, <1>12, <1>13
  DEF Next, Write, Sweep

\* The inductive invariant holds in every reachable state.
THEOREM Invariance == Spec => []IInv
BY InitInv, NextInv, PTL DEF Spec

\* Every variable keeps its type (TypeOK).
THEOREM TypeCorrect == Spec => []TypeOK
<1>1. IInv => TypeOK
  BY DEF IInv
<1> QED
  BY <1>1, Invariance, PTL

\* No sweep deletes a row that is within its retention period, whatever the
\* exports rewrite between the choice of a batch and the visit of its rows.
THEOREM SweepSparesFresh == Spec => NeverDeletesFresh
<1>1. IInv /\ [Next]_vars =>
        [\A x \in Slots : rows[x] # Absent /\ rows'[x] = Absent => Expired(x)]_vars
  <2> SUFFICES ASSUME IInv, [Next]_vars, NEW x \in Slots,
                      rows[x] # Absent, rows'[x] = Absent
               PROVE  Expired(x)
    OBVIOUS
  <2>t. /\ TypeOK /\ now \in Nat /\ cutoff \in Nat /\ Period \in Nat
        /\ Stamps \subseteq Nat /\ MaxWrites \in Nat
    BY PeriodAssumption, BoundsAssumption DEF IInv, TypeOK, Times
  <2>1. CASE FinishBatch
    <3>1. x \in marked
      BY <2>1 DEF FinishBatch
    <3>2. x \in Present /\ rows[x].time < cutoff
      BY <3>1 DEF IInv, MarkedInv, Before
    <3>3. rows[x].time \in Nat
      BY <2>t DEF TypeOK, Versions
    <3>4. cutoff + Period <= now
      BY <2>t, <3>2, <3>3 DEF IInv, CutoffInv
    <3> QED
      BY <2>t, <3>2, <3>3, <3>4 DEF Expired
  <2>2. CASE CommitSpans
    <3>1. /\ x \in Writing
          /\ rows'[x] = [time |-> pending[x], ctid |-> writes + 1]
      BY <2>2 DEF CommitSpans
    <3>2. writes + 1 \in 0..MaxWrites /\ pending[x] \in Stamps
      BY <2>t, <2>2, <3>1 DEF CommitSpans, IInv, WritesInv, Open, Writing, TypeOK
    <3> QED
      BY <3>1, <3>2, NullsAssumption
  <2>3. ASSUME NEW y \in Slots \ SpanSlots, NEW t \in Stamps, AppendRow(y, t)
        PROVE  FALSE
    <3>1. rows' = [rows EXCEPT ![y] = [time |-> t, ctid |-> writes + 1]] /\ y # x
      BY <2>3 DEF AppendRow, Present
    <3> QED
      BY <2>t, <3>1 DEF TypeOK
  <2>4. CASE UNCHANGED rows
    BY <2>4
  <2> QED
    BY <2>1, <2>2, <2>3, <2>4 DEF Next, Write, Sweep, Tick, UpsertSpan, LockSpan,
      AbortSpans, StartPass, SelectBatch, VisitRow, SweepFails, SweepIsVictim,
      EndFailedPass, vars
<1> QED
  BY <1>1, Invariance, PTL DEF Spec, NeverDeletesFresh

-----------------------------------------------------------------------------
\* A pass that met no changed row drains the tables.

BatchSlots == {batch[i][1] : i \in 1..Len(batch)}

\* The running DELETE has each row once, to visit or deleted.
OnceInv ==
    /\ \A i, j \in 1..Len(batch) : batch[i][1] = batch[j][1] => i = j
    /\ BatchSlots \cap marked = {}

\* What is still due is before the cutoff, and in a table the pass is at or
\* has yet to come to.
DueInv ==
    phase # "sleeping" =>
        /\ due \subseteq Before(cutoff)
        /\ ~ skipped => \A x \in due : \E k \in turn..Len(Tables) : TableOf[x] = Tables[k]

\* A DELETE that comes in under the limit has all that was due in its table.
ShortInv ==
    phase = "delete" /\ ~ skipped =>
        \/ Cardinality(marked) + Len(batch) >= BatchRows
        \/ \A x \in due : TableOf[x] = Tables[turn] => x \in BatchSlots \cup marked

DrainInv == OnceInv /\ DueInv /\ ShortInv /\ PassDrainsUnlessContended

\* A batch has each row once; it is full, or has all candidates.
LEMMA BatchIsFullOrAll ==
    ASSUME TypeOK, NEW b,
           NEW chosen \in kSubset(BatchSize(Cardinality(Candidates)), Candidates),
           b \in SetToSeqs(chosen)
    PROVE  /\ Len(b) \in Nat
           /\ \A i \in 1..Len(b) : b[i][1] \in Slots
           /\ \A i, j \in 1..Len(b) : b[i][1] = b[j][1] => i = j
           /\ \/ Len(b) >= BatchRows
              \/ \A x \in Before(cutoff) : TableOf[x] = Tables[turn] =>
                    \E i \in 1..Len(b) : b[i][1] = x
<1> DEFINE Found == {y \in Before(cutoff) : TableOf[y] = Tables[turn]}
<1> DEFINE version == [y \in Found |-> <<y, rows[y].ctid>>]
<1> DEFINE n == Cardinality(chosen)
<1>1. IsFiniteSet(Found) /\ Found \subseteq Slots
  BY SlotsAssumption, FS_Subset DEF Before, Present
<1>2. version \in Surjection(Found, Candidates)
  BY DEF Surjection, Candidates
<1>3. IsFiniteSet(Candidates)
  <2> HIDE DEF Found, version
  <2> QED
    BY <1>1, <1>2, FS_Surjection
<1>4. /\ chosen \in SUBSET Candidates
      /\ n = BatchSize(Cardinality(Candidates))
  BY DEF kSubset
<1>5. IsFiniteSet(chosen) /\ n \in Nat /\ Cardinality(Candidates) \in Nat
  BY <1>3, <1>4, FS_Subset, FS_CardinalityType
<1>6. /\ b \in [1..n -> chosen]
      /\ \A i, j \in 1..n : i # j => b[i] # b[j]
  BY DEF SetToSeqs
<1>7. Len(b) = n
  <2> HIDE DEF n
  <2> QED
    BY <1>5, <1>6
<1>8. \A i \in 1..n : \E x \in Found : b[i] = <<x, rows[x].ctid>>
  <2> SUFFICES ASSUME NEW i \in 1..n PROVE \E x \in Found : b[i] = <<x, rows[x].ctid>>
    OBVIOUS
  <2>1. b[i] \in Candidates
    BY <1>4, <1>6
  <2> QED
    BY <2>1 DEF Candidates
<1>9. ASSUME NEW i \in 1..n, NEW j \in 1..n, b[i][1] = b[j][1] PROVE i = j
  <2>1. b[i] = b[j]
    BY <1>8, <1>9
  <2> QED
    BY <1>6, <2>1
<1>10. CASE Cardinality(Candidates) >= BatchRows
  BY <1>4, <1>5, <1>7, <1>10, <1>1, <1>8, <1>9, BatchRowsAssumption DEF BatchSize
<1>11. CASE Cardinality(Candidates) < BatchRows
  <2>1. chosen = Candidates
    BY <1>3, <1>4, <1>11, FS_Subset DEF BatchSize
  <2>2. b \in Injection(1..n, chosen)
    BY <1>6 DEF Injection, IsInjective
  <2>3. IsFiniteSet(1..n) /\ Cardinality(1..n) = n
    <3> HIDE DEF n
    <3> QED
      BY <1>5, FS_Interval
  <2>4. b \in Surjection(1..n, chosen)
    <3> HIDE DEF n
    <3>1. n = Cardinality(chosen)
      BY DEF n
    <3> QED
      BY <1>5, <2>2, <2>3, <3>1, FS_Injection
  <2>5. ASSUME NEW x \in Found PROVE \E i \in 1..n : b[i][1] = x
    <3>1. <<x, rows[x].ctid>> \in chosen
      BY <2>1 DEF Candidates
    <3> QED
      BY <2>4, <3>1 DEF Surjection
  <2> QED
    BY <1>1, <1>5, <1>7, <1>8, <1>9, <2>5
<1> QED
  BY <1>5, <1>10, <1>11, BatchRowsAssumption

LEMMA InitDrain == Init => DrainInv
<1> SUFFICES ASSUME Init PROVE DrainInv
  OBVIOUS
<1>1. batch = <<>> /\ marked = {} /\ phase = "sleeping" /\ outcome = "none"
  BY DEF Init
<1>2. Len(batch) = 0 /\ BatchSlots = {}
  BY <1>1 DEF BatchSlots
<1> QED
  BY <1>1, <1>2 DEF DrainInv, OnceInv, DueInv, ShortInv, PassDrainsUnlessContended

\* The writers and the clock leave the pass alone: they change no row that
\* stays due.
LEMMA WritersDrain ==
    ASSUME IInv, DrainInv, due' \subseteq due,
           UNCHANGED <<phase, turn, cutoff, batch, marked, outcome, skipped>>,
           \A x \in due' \cap Present : rows'[x] = rows[x]
    PROVE  DrainInv'
<1>1. BatchSlots' = BatchSlots
  BY DEF BatchSlots
<1>2. OnceInv'
  BY <1>1 DEF DrainInv, OnceInv
<1>3. due \subseteq Before(cutoff) => due' \subseteq Before(cutoff)'
  BY DEF Before, Present
<1>4. DueInv'
  BY <1>3 DEF DrainInv, DueInv
<1>5. ShortInv'
  BY <1>1 DEF DrainInv, ShortInv
<1>6. PassDrainsUnlessContended'
  BY DEF DrainInv, PassDrainsUnlessContended
<1> QED
  BY <1>2, <1>4, <1>5, <1>6 DEF DrainInv

LEMMA NextDrain == IInv /\ DrainInv /\ [Next]_vars => DrainInv'
<1> SUFFICES ASSUME IInv, DrainInv, [Next]_vars PROVE DrainInv'
  OBVIOUS
<1>t. TypeOK /\ BatchRows \in Nat /\ Len(Tables) = 3 /\ turn \in 1..3 /\ batch \in Seq(Slots \X (0..MaxWrites))
      /\ Len(batch) \in Nat
  <2>1. TypeOK /\ Len(Tables) = 3
    BY DEF IInv, Tables
  <2> QED
    BY <2>1, BatchRowsAssumption DEF TypeOK
<1>f. /\ marked \subseteq Slots /\ IsFiniteSet(marked) /\ Cardinality(marked) \in Nat
  BY <1>t, SlotsAssumption, FS_Subset, FS_CardinalityType DEF TypeOK
<1>1. CASE Tick
  BY <1>1, WritersDrain DEF Tick, sweepVars
<1>2. ASSUME NEW x \in SpanSlots, NEW t \in Stamps, UpsertSpan(x, t)
      PROVE  DrainInv'
  BY <1>2, WritersDrain DEF UpsertSpan, sweepVars
<1>3. CASE LockSpan \/ AbortSpans
  BY <1>3, WritersDrain DEF LockSpan, AbortSpans, sweepVars
<1>4. CASE CommitSpans
  <2>1. due' = due \ Writing /\ \A x \in Slots \ Writing : rows'[x] = rows[x]
    BY <1>4 DEF CommitSpans
  <2>2. \A x \in due' \cap Present : rows'[x] = rows[x]
    BY <2>1 DEF Present
  <2> QED
    BY <1>4, <2>1, <2>2, WritersDrain DEF CommitSpans
<1>5. ASSUME NEW x \in Slots \ SpanSlots, NEW t \in Stamps, AppendRow(x, t)
      PROVE  DrainInv'
  <2>1. \A y \in Present : rows'[y] = rows[y]
    BY <1>5, <1>t DEF AppendRow, TypeOK, Present
  <2> QED
    BY <1>5, <2>1, WritersDrain DEF AppendRow, sweepVars
<1>6. CASE StartPass
  <2>1. batch = <<>> /\ marked = {} /\ phase = "sleeping"
    BY <1>6 DEF StartPass, IInv, IdleInv
  <2>2. /\ batch' = <<>> /\ marked' = {} /\ phase' = "select" /\ rows' = rows
        /\ due' = Before(cutoff') /\ turn' = 1
    BY <1>6, <2>1 DEF StartPass
  <2>3. BatchSlots' = {} /\ Len(batch') = 0
    BY <2>2 DEF BatchSlots
  <2>4. due' \subseteq Before(cutoff)' /\ due' \subseteq Slots
    BY <2>2 DEF Before, Present
  <2>5. \A x \in Slots : \E k \in 1..3 : TableOf[x] = Tables[k]
    <3>1. Tables[1] = "spans" /\ Tables[2] = "logs" /\ Tables[3] = "metric_points"
      BY DEF Tables
    <3>2. 1 \in 1..3 /\ 2 \in 1..3 /\ 3 \in 1..3
      OBVIOUS
    <3> QED
      BY <3>1, <3>2, SlotsAssumption
  <2>6. DueInv'
    BY <1>t, <2>2, <2>4, <2>5 DEF DueInv
  <2> QED
    BY <2>2, <2>3, <2>6 DEF DrainInv, OnceInv, ShortInv, PassDrainsUnlessContended
<1>7. CASE SelectBatch
  <2>1. PICK chosen \in kSubset(BatchSize(Cardinality(Candidates)), Candidates) :
              batch' \in SetToSeqs(chosen)
    BY <1>7 DEF SelectBatch
  <2>2. /\ Len(batch') \in Nat
        /\ \A i, j \in 1..Len(batch') : batch'[i][1] = batch'[j][1] => i = j
        /\ \/ Len(batch') >= BatchRows
           \/ \A x \in Before(cutoff) : TableOf[x] = Tables[turn] =>
                 \E i \in 1..Len(batch') : batch'[i][1] = x
    BY <1>t, <2>1, BatchIsFullOrAll
  <2>3. /\ marked' = {} /\ phase = "select" /\ phase' = "delete"
        /\ UNCHANGED <<rows, turn, cutoff, outcome, due, skipped>>
    BY <1>7 DEF SelectBatch
  <2>4. OnceInv'
    BY <2>2, <2>3 DEF OnceInv
  <2>5. DueInv'
    BY <2>3 DEF DrainInv, DueInv, Before, Present
  <2>6. Cardinality(marked') = 0
    BY <2>3, FS_EmptySet
  <2>7. due \subseteq Before(cutoff)
    BY <2>3 DEF DrainInv, DueInv
  <2>8. ShortInv'
    <3>1. CASE Len(batch') >= BatchRows
      BY <1>t, <2>2, <2>6, <3>1 DEF ShortInv
    <3>2. CASE \A x \in Before(cutoff) : TableOf[x] = Tables[turn] =>
                   \E i \in 1..Len(batch') : batch'[i][1] = x
      <4>1. \A x \in due : TableOf[x] = Tables[turn] => x \in BatchSlots'
        BY <2>7, <3>2 DEF BatchSlots
      <4> QED
        BY <2>3, <4>1 DEF ShortInv
    <3> QED
      BY <2>2, <3>1, <3>2
  <2> QED
    BY <2>3, <2>4, <2>5, <2>8 DEF DrainInv, PassDrainsUnlessContended
<1>8. CASE VisitRow
  <2>1. /\ Len(batch) > 0 /\ Head(batch) = batch[1] /\ 1 \in 1..Len(batch)
        /\ Len(batch') = Len(batch) - 1
        /\ \A i \in 1..Len(batch') : batch'[i] = batch[i + 1] /\ i + 1 \in 1..Len(batch)
        /\ \A i \in 1..Len(batch) : i = 1 \/ (i - 1 \in 1..Len(batch') /\ batch'[i - 1] = batch[i])
    BY <1>8, <1>t DEF VisitRow
  <2> DEFINE x == batch[1][1]
  <2>2. x \in Slots /\ x \in BatchSlots /\ x \notin marked
    <3>1. batch[1] \in Slots \X (0..MaxWrites)
      BY <1>t, <2>1
    <3>2. x \in Slots
      BY <3>1
    <3>3. x \in BatchSlots
      BY <2>1 DEF BatchSlots
    <3> QED
      BY <3>2, <3>3 DEF DrainInv, OnceInv
  <2>3. x \notin BatchSlots' /\ BatchSlots = BatchSlots' \cup {x}
    <3>1. ASSUME NEW i \in 1..Len(batch'), batch'[i][1] = x PROVE FALSE
      <4>1. i + 1 \in 1..Len(batch) /\ batch[i + 1][1] = batch[1][1]
        BY <2>1, <3>1
      <4>2. i + 1 = 1
        BY <2>1, <4>1 DEF DrainInv, OnceInv
      <4> QED
        BY <1>t, <2>1, <4>2
    <3>2. BatchSlots \subseteq BatchSlots' \cup {x}
      BY <2>1 DEF BatchSlots
    <3>3. BatchSlots' \subseteq BatchSlots
      BY <2>1 DEF BatchSlots
    <3> QED
      BY <2>2, <3>1, <3>2, <3>3 DEF BatchSlots
  <2>4. /\ phase = "delete" /\ UNCHANGED <<rows, phase, turn, cutoff, outcome, due>>
        /\ IF IsCurrent(batch[1])
           THEN marked' = marked \cup {x} /\ skipped' = skipped
           ELSE marked' = marked /\ skipped'
    BY <1>8, <1>t, <2>1 DEF VisitRow, TypeOK
  <2>5. OnceInv'
    <3>1. ASSUME NEW i \in 1..Len(batch'), NEW j \in 1..Len(batch'),
                 batch'[i][1] = batch'[j][1]
          PROVE  i = j
      <4>1. i + 1 = j + 1
        BY <2>1, <3>1 DEF DrainInv, OnceInv
      <4> QED
        BY <1>t, <2>1, <4>1
    <3>2. BatchSlots' \cap marked' = {}
      BY <2>3, <2>4 DEF DrainInv, OnceInv
    <3> QED
      BY <3>1, <3>2 DEF OnceInv
  <2>6. DueInv'
    BY <1>t, <2>4 DEF DrainInv, DueInv, Before, Present, TypeOK
  <2>7. ShortInv'
    <3> SUFFICES ASSUME ~ skipped' PROVE ShortInv'
      BY DEF ShortInv
    <3>1. marked' = marked \cup {x} /\ ~ skipped
      BY <2>4
    <3>2. Cardinality(marked') = Cardinality(marked) + 1
      BY <1>f, <2>2, <3>1, FS_AddElement
    <3>3. Cardinality(marked') + Len(batch') = Cardinality(marked) + Len(batch)
      BY <1>f, <1>t, <2>1, <3>2
    <3>4. BatchSlots' \cup marked' = BatchSlots \cup marked
      BY <2>3, <3>1
    <3> QED
      BY <2>4, <3>1, <3>3, <3>4 DEF DrainInv, ShortInv
  <2> QED
    BY <2>4, <2>5, <2>6, <2>7 DEF DrainInv, PassDrainsUnlessContended
<1>9. CASE FinishBatch
  <2>1. /\ phase = "delete" /\ batch = <<>> /\ batch' = <<>> /\ marked' = {}
        /\ due' = due \ marked /\ skipped' = skipped
        /\ \A x \in Slots \ marked : rows'[x] = rows[x]
    BY <1>9 DEF FinishBatch
  <2>2. Len(batch) = 0 /\ Len(batch') = 0 /\ BatchSlots = {} /\ BatchSlots' = {}
    BY <2>1 DEF BatchSlots
  <2>3. OnceInv'
    BY <2>1, <2>2 DEF OnceInv
  <2>4. due' \subseteq Before(cutoff) /\ (cutoff' = cutoff => due' \subseteq Before(cutoff)')
    BY <2>1 DEF DrainInv, DueInv, Before, Present
  <2>5. ASSUME LastBatch, ~ skipped
        PROVE  /\ \A x \in due' : TableOf[x] # Tables[turn]
               /\ \A x \in due' : \E k \in (turn + 1)..3 : TableOf[x] = Tables[k]
    <3>1. \A x \in due : TableOf[x] = Tables[turn] => x \in marked
      BY <1>f, <1>t, <2>1, <2>2, <2>5 DEF LastBatch, DrainInv, ShortInv
    <3>2. ASSUME NEW x \in due' PROVE \E k \in (turn + 1)..3 : TableOf[x] = Tables[k]
      <4>1. PICK k \in turn..3 : TableOf[x] = Tables[k]
        BY <1>t, <2>1, <2>5 DEF DrainInv, DueInv
      <4>2. k # turn
        BY <2>1, <3>1, <4>1
      <4> QED
        BY <1>t, <4>1, <4>2
    <3> QED
      BY <2>1, <3>1, <3>2
  <2>6. CASE ~ LastBatch
    <3>1. phase' = "select" /\ UNCHANGED <<turn, cutoff, outcome>>
      BY <1>9, <2>6 DEF FinishBatch
    <3>2. DueInv'
      BY <2>1, <2>4, <3>1 DEF DrainInv, DueInv
    <3> QED
      BY <2>3, <3>1, <3>2 DEF DrainInv, ShortInv, PassDrainsUnlessContended
  <2>7. CASE LastBatch /\ turn < 3
    <3>1. phase' = "select" /\ turn' = turn + 1 /\ UNCHANGED <<cutoff, outcome>>
      BY <1>9, <1>t, <2>7 DEF FinishBatch
    <3>2. DueInv'
      BY <1>t, <2>1, <2>4, <2>5, <2>7, <3>1 DEF DueInv
    <3> QED
      BY <2>3, <3>1, <3>2 DEF DrainInv, ShortInv, PassDrainsUnlessContended
  <2>8. CASE LastBatch /\ turn = 3
    <3>1. phase' = "sleeping"
      BY <1>9, <1>t, <2>8 DEF FinishBatch
    <3>2. ~ skipped' => due' = {}
      BY <1>t, <2>1, <2>5, <2>8
    <3> QED
      BY <2>3, <3>1, <3>2 DEF DrainInv, DueInv, ShortInv, PassDrainsUnlessContended
  <2> QED
    BY <1>t, <2>6, <2>7, <2>8
<1>10. CASE SweepFails \/ SweepIsVictim
  <2>1. EndFailedPass
    BY <1>10 DEF SweepFails, SweepIsVictim
  <2>2. batch' = <<>> /\ marked' = {} /\ phase' = "sleeping" /\ outcome' = "failed"
    BY <2>1 DEF EndFailedPass
  <2>3. BatchSlots' = {} /\ Len(batch') = 0
    BY <2>2 DEF BatchSlots
  <2> QED
    BY <2>2, <2>3 DEF DrainInv, OnceInv, DueInv, ShortInv, PassDrainsUnlessContended
<1>11. CASE UNCHANGED vars
  BY <1>11, WritersDrain DEF vars
<1> QED
  BY <1>1, <1>2, <1>3, <1>4, <1>5, <1>6, <1>7, <1>8, <1>9, <1>10, <1>11
  DEF Next, Write, Sweep

\* A pass that succeeds and met no row changed under it has deleted every row
\* that had expired when it began and was not rewritten, in all three tables:
\* stopping at the first batch under the limit loses none (sweep_expired).
THEOREM UncontendedPassDrains == Spec => []PassDrainsUnlessContended
<1>1. DrainInv => PassDrainsUnlessContended
  BY DEF DrainInv
<1> QED
  BY <1>1, InitDrain, NextDrain, Invariance, PTL DEF Spec
=============================================================================
