------------------------------ MODULE Retention ------------------------------
(***************************************************************************)
(* The retention task: sweep_expired's batched deletes over the three       *)
(* tables, one pass after another (run_retention), while exports upsert     *)
(* spans and append logs and metric points.                                 *)
(*                                                                          *)
(* A slot is a place a row can be in: for spans a primary key, for the      *)
(* append-only tables just a row that may come to exist.  A row version has *)
(* a ctid of its own.  The DELETE picks its batch in a snapshot and then    *)
(* visits the rows one by one; PostgreSQL (READ COMMITTED) makes it wait    *)
(* for a row another transaction has locked, and then checks `ctid IN ..`   *)
(* against the row's newest version, which a new version fails.             *)
(***************************************************************************)
EXTENDS Naturals, FiniteSets, Sequences, SequencesExt, FiniteSetsExt

CONSTANTS Slots,
          TableOf,      \* slot -> the table it belongs to
          Absent,       \* no row in a slot
          None,         \* the writer waits for no row
          BatchRows,    \* BATCH_ROWS
          Period,       \* RETENTION
          MaxTime,      \* bound: the clock stops there
          Stamps,       \* timestamps rows may carry
          MaxWrites,    \* bound: transactions of the writers
          MaxFailures   \* bound: failing sweeps

\* The order in which a pass takes the tables.
Tables == <<"spans", "logs", "metric_points">>

ASSUME SlotsAssumption ==
    /\ IsFiniteSet(Slots)
    /\ TableOf \in [Slots -> {"spans", "logs", "metric_points"}]
ASSUME NullsAssumption ==
    /\ Absent \notin [time : Stamps, ctid : 0..MaxWrites] \cup Stamps
    /\ None \notin [slot : Slots, time : Stamps]
ASSUME BatchRowsAssumption == BatchRows \in Nat \ {0}
ASSUME PeriodAssumption == Period \in Nat \ {0}
ASSUME BoundsAssumption ==
    MaxTime \in Nat /\ Stamps \subseteq Nat /\ MaxWrites \in Nat /\ MaxFailures \in Nat

VARIABLES now,        \* the clock
          rows,       \* slot -> its committed version [time, ctid], or Absent
          want,       \* the row the export's INSERT comes to next, or None
          pending,    \* slot -> the time an open export has upserted, or Absent
          writes,     \* transactions the writers have finished
          phase,      \* "sleeping", "select" (before a DELETE), "delete"
          turn,       \* index into Tables of the table being swept
          cutoff,     \* rows with an earlier time go
          batch,      \* <<slot, ctid>> the running DELETE has yet to visit
          marked,     \* slots whose rows the running DELETE has deleted
          failures,   \* passes that failed
          outcome,    \* result of the last pass: "none", "ok", "failed"
          due,        \* rows the pass found expired and nobody changed since
          skipped     \* the pass met a row that had changed since its SELECT

writerVars == <<want, pending, writes>>
sweepVars == <<phase, turn, cutoff, batch, marked, failures, outcome, due, skipped>>
vars == <<now, rows, want, pending, writes, phase, turn, cutoff, batch,
          marked, failures, outcome, due, skipped>>

Times == 0..MaxTime
Versions == [time : Stamps, ctid : 0..MaxWrites]
SpanSlots == {x \in Slots : TableOf[x] = "spans"}
Present == {x \in Slots : rows[x] # Absent}
Writing == {x \in Slots : pending[x] # Absent}

Open == want # None \/ Writing # {}   \* an export's transaction

Before(c) == {x \in Present : rows[x].time < c}
Expired(x) == x \in Present /\ rows[x].time + Period < now

\* The service starts on a database that may hold anything already.
Init ==
    /\ now \in Times
    /\ rows \in [Slots -> [time : Stamps, ctid : {0}] \cup {Absent}]
    /\ want = None
    /\ pending = [x \in Slots |-> Absent]
    /\ writes = 0
    /\ phase = "sleeping"
    /\ turn = 1
    /\ cutoff = 0
    /\ batch = <<>>
    /\ marked = {}
    /\ failures = 0
    /\ outcome = "none"
    /\ due = {}
    /\ skipped = FALSE

Tick ==
    /\ now < MaxTime
    /\ now' = now + 1
    /\ UNCHANGED <<rows, writerVars, sweepVars>>

-----------------------------------------------------------------------------
\* Exports.  Those of spans exclude one another on a row (SpanExport); here
\* they are one transaction at a time, of several rows, against the sweep.

\* Timestamps are the exporter's own: old, absent (0) or ahead of the clock.
UpsertSpan(x, t) ==
    /\ want = None
    /\ pending[x] = Absent
    /\ writes < MaxWrites
    /\ want' = [slot |-> x, time |-> t]
    /\ UNCHANGED <<now, rows, pending, writes, sweepVars>>

LockSpan ==
    /\ want # None
    /\ want.slot \notin marked
    /\ pending' = [pending EXCEPT ![want.slot] = want.time]
    /\ want' = None
    /\ UNCHANGED <<now, rows, writes, sweepVars>>

CommitSpans ==
    /\ want = None
    /\ Writing # {}
    /\ writes' = writes + 1
    /\ rows' = [x \in Slots |-> IF x \in Writing
                                THEN [time |-> pending[x], ctid |-> writes + 1]
                                ELSE rows[x]]
    /\ pending' = [x \in Slots |-> Absent]
    /\ due' = due \ Writing
    /\ UNCHANGED <<now, want, phase, turn, cutoff, batch, marked,
                   failures, outcome, skipped>>

AbortSpans ==
    /\ Open
    /\ writes' = writes + 1
    /\ want' = None
    /\ pending' = [x \in Slots |-> Absent]
    /\ UNCHANGED <<now, rows, sweepVars>>

\* A log record or metric point becomes visible.
AppendRow(x, t) ==
    /\ x \notin Present
    /\ writes + (IF Open THEN 1 ELSE 0) < MaxWrites
    /\ writes' = writes + 1
    /\ rows' = [rows EXCEPT ![x] = [time |-> t, ctid |-> writes + 1]]
    /\ UNCHANGED <<now, want, pending, sweepVars>>

-----------------------------------------------------------------------------
\* The retention task.

\* Mutant of StartPass: now - retention without saturating.
StartPass_Unsaturated ==
    /\ phase = "sleeping"
    /\ cutoff' = now - Period
    /\ due' = Before(cutoff')
    /\ skipped' = FALSE
    /\ turn' = 1
    /\ phase' = "select"
    /\ UNCHANGED <<now, rows, writerVars, batch, marked, failures, outcome>>

\* The ticker fires (the interval itself is not modelled).
StartPass ==
    /\ phase = "sleeping"
    /\ cutoff' = IF now >= Period THEN now - Period ELSE 0
    /\ due' = Before(cutoff')
    /\ skipped' = FALSE
    /\ turn' = 1
    /\ phase' = "select"
    /\ UNCHANGED <<now, rows, writerVars, batch, marked, failures, outcome>>

\* The subquery: up to BatchRows expired rows of the table, in any order.
Candidates == {<<x, rows[x].ctid>> : x \in {y \in Before(cutoff) : TableOf[y] = Tables[turn]}}

BatchSize(found) == IF found < BatchRows THEN found ELSE BatchRows

SelectBatch ==
    /\ phase = "select"
    /\ \E chosen \in kSubset(BatchSize(Cardinality(Candidates)), Candidates) :
            batch' \in SetToSeqs(chosen)
    /\ marked' = {}
    /\ phase' = "delete"
    /\ UNCHANGED <<now, rows, writerVars, turn, cutoff, failures, outcome, due, skipped>>

\* Mutant of IsCurrent: rows chosen by key, not by ctid.
IsCurrent_ByKey(v) == v[1] \in Present

\* The DELETE visits its next row, once no export has it locked.
IsCurrent(v) == v[1] \in Present /\ rows[v[1]].ctid = v[2]

VisitRow ==
    /\ phase = "delete"
    /\ batch # <<>>
    /\ Head(batch)[1] \notin Writing
    /\ batch' = Tail(batch)
    /\ marked' = IF IsCurrent(Head(batch)) THEN marked \cup {Head(batch)[1]} ELSE marked
    /\ skipped' = (skipped \/ ~ IsCurrent(Head(batch)))
    /\ UNCHANGED <<now, rows, writerVars, phase, turn, cutoff, failures, outcome, due>>

\* Mutant of LastBatch: `deleted <= BATCH_ROWS`.
LastBatch_Full == Cardinality(marked) <= BatchRows

\* rows_affected came in under the limit: this table is done.
LastBatch == Cardinality(marked) < BatchRows

\* The statement commits; then the next batch, the next table, or sleep.
FinishBatch ==
    /\ phase = "delete"
    /\ batch = <<>>
    /\ rows' = [x \in Slots |-> IF x \in marked THEN Absent ELSE rows[x]]
    /\ due' = due \ marked
    /\ marked' = {}
    /\ \/ /\ ~ LastBatch
          /\ phase' = "select"
          /\ UNCHANGED <<turn, cutoff, outcome>>
       \/ /\ LastBatch /\ turn < Len(Tables)
          /\ phase' = "select"
          /\ turn' = turn + 1
          /\ UNCHANGED <<cutoff, outcome>>
       \/ /\ LastBatch /\ turn = Len(Tables)
          /\ phase' = "sleeping"
          /\ turn' = 1
          /\ cutoff' = 0
          /\ outcome' = "ok"
    /\ UNCHANGED <<now, writerVars, batch, failures, skipped>>

\* Mutant of EndFailedPass: the error ends the task, not just the pass.
EndFailedPass_TaskEnds ==
    /\ phase' = "ended"
    /\ outcome' = "failed"
    /\ batch' = <<>>
    /\ marked' = {}
    /\ turn' = 1
    /\ cutoff' = 0
    /\ UNCHANGED <<now, rows, due, skipped>>

\* A statement fails: `?` ends the pass, the error is logged.
EndFailedPass ==
    /\ phase' = "sleeping"
    /\ outcome' = "failed"
    /\ batch' = <<>>
    /\ marked' = {}
    /\ turn' = 1
    /\ cutoff' = 0
    /\ UNCHANGED <<now, rows, due, skipped>>

SweepFails ==
    /\ phase # "sleeping"
    /\ failures < MaxFailures
    /\ failures' = failures + 1
    /\ EndFailedPass
    /\ UNCHANGED writerVars

\* The export holds the row the DELETE comes to, and waits for one the
\* DELETE has deleted: PostgreSQL ends one of the two.
Deadlock ==
    /\ phase = "delete"
    /\ batch # <<>>
    /\ Head(batch)[1] \in Writing
    /\ want # None
    /\ want.slot \in marked

SweepIsVictim ==
    /\ Deadlock
    /\ EndFailedPass
    /\ UNCHANGED <<writerVars, failures>>

-----------------------------------------------------------------------------
Sweep == StartPass \/ SelectBatch \/ VisitRow \/ FinishBatch

Write ==
    \/ \E x \in SpanSlots, t \in Stamps : UpsertSpan(x, t)
    \/ \E x \in Slots \ SpanSlots, t \in Stamps : AppendRow(x, t)
    \/ LockSpan
    \/ CommitSpans
    \/ AbortSpans

Next == Tick \/ Write \/ Sweep \/ SweepFails \/ SweepIsVictim

\* The retention task is scheduled, an open export comes to an end, and a
\* deadlock is resolved.  The bounds on writes and failures say that neither
\* keeps disturbing the sweep for ever.  An export that waits for a row is
\* next in PostgreSQL's queue for it, so it gets the row when the sweep that
\* has it ends, also by losing a deadlock, and not only if the row stays
\* free from then on: LockSpan is strongly fair.
Fairness ==
    /\ WF_vars(Sweep)
    /\ SF_vars(LockSpan)
    /\ WF_vars(CommitSpans)
    /\ WF_vars(Deadlock /\ (SweepIsVictim \/ AbortSpans))

Spec == Init /\ [][Next]_vars
FairSpec == Spec /\ Fairness

-----------------------------------------------------------------------------
\* Properties.

\* Every variable stays in its range.
TypeOK ==
    /\ now \in Times
    /\ rows \in [Slots -> Versions \cup {Absent}]
    /\ want \in [slot : SpanSlots, time : Stamps] \cup {None}
    /\ pending \in [Slots -> Stamps \cup {Absent}]
    /\ writes \in 0..MaxWrites
    /\ phase \in {"sleeping", "select", "delete"}
    /\ turn \in 1..Len(Tables)
    /\ cutoff \in Times
    /\ batch \in Seq(Slots \X (0..MaxWrites))
    /\ marked \subseteq Slots
    /\ failures \in 0..MaxFailures
    /\ outcome \in {"none", "ok", "failed"}
    /\ due \subseteq Slots
    /\ skipped \in BOOLEAN

\* The sweep never deletes a row that is within its retention period at the
\* moment it goes, however the row was rewritten since the DELETE chose its
\* batch: an export that refreshes an expired span keeps it.
NeverDeletesFresh ==
    [][\A x \in Slots : rows[x] # Absent /\ rows'[x] = Absent => Expired(x)]_vars

\* A pass that succeeds and met no row changed under it leaves none of the
\* rows it found expired, in any of the three tables: the test on
\* rows_affected stops the batches neither early nor in the wrong table.
PassDrainsUnlessContended ==
    phase = "sleeping" /\ outcome = "ok" /\ ~ skipped => due = {}

\* "One pass: delete everything older than `retention` from all three
\* tables" (the comment of sweep_expired), for rows expired when the pass
\* began and unchanged since.  It does not hold: see README.
PassDrains ==
    phase = "sleeping" /\ outcome = "ok" => due = {}

\* An expired row is deleted or rewritten in the end, though passes fail,
\* exports hold rows, deadlocks strike and batches come up short: losing a
\* sweep is recoverable (run_retention).
ExpiredRowsGo ==
    \A x \in Slots : Expired(x) ~> ~ Expired(x)
=============================================================================
