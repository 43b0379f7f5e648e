---------------------------- MODULE TraceSearch ----------------------------
(***************************************************************************)
(* FindTraces and FindTraceSummaries: one statement finds the ids of the    *)
(* traces with a matching span, a second one reads all spans of these       *)
(* traces, and summaries are made of them in memory.  Between the two,      *)
(* exports commit and the sweep deletes spans, trace or not.  The table is  *)
(* the one the read pool shows; a replica shows the same commits, later.    *)
(***************************************************************************)
EXTENDS Integers, FiniteSets, Sequences, FiniteSetsExt, SequencesExt

CONSTANTS Traces, SpanIds, Services,
          NoParent,        \* the parent_span_id of a root
          Operations,      \* names, in the order of the index
          Kinds,           \* what span_kind may be
          AnyService,      \* a query without service_name
          AnyKind,         \* a listing without span_kind
          Batches,         \* the spans one export request may bring
          Queries,
          DefaultDepth,    \* 20
          MaxSearchDepth,  \* MAX_SEARCH_DEPTH
          BatchRows,       \* BATCH_ROWS of the sweep
          MaxTime,         \* bound: the latest start of a span
          MaxExports       \* bound: exports that commit

Span == [trace : Traces, id : SpanIds, parent : SpanIds \cup {NoParent},
         service : Services, operation : Operations, kind : Kinds,
         start : 0..MaxTime, end : 0..MaxTime]
Query == [service_name : Services \cup {AnyService}, start_time_max : Int,
          duration_min : Int, duration_max : Int, search_depth : Int]

\* Any spans, one of each key (dedupe_spans): a child may come before its
\* parent, or alone.
ASSUME BatchesAssumption ==
    \A b \in Batches :
        /\ b \subseteq Span /\ IsFiniteSet(b)
        /\ \A r, p \in b : r.trace = p.trace /\ r.id = p.id => r = p
ASSUME SearchAssumption ==
    /\ NoParent \notin SpanIds /\ AnyService \notin Services
    /\ Operations \subseteq Nat /\ AnyKind \notin Kinds
    /\ Queries \subseteq Query
    /\ DefaultDepth \in Nat \ {0} /\ MaxSearchDepth \in Nat
    /\ BatchRows \in Nat \ {0} /\ MaxTime \in Nat /\ MaxExports \in Nat

VARIABLES spans,     \* the rows of the table
          exports,   \* exports committed
          cutoff,    \* of the sweep's pass
          phase,     \* "idle", "query", "found", "answered", "failed"
          query,     \* the query being answered
          found,     \* the ids of the first statement, in order
          answer,    \* the rows of the second one
          owed,      \* spans of found traces when these were found, not swept since
          sent,      \* what exporters sent last of each span
          swept      \* keys the sweep has deleted, not sent since

history == <<sent, swept>>
tableVars == <<spans, exports, cutoff, history>>
searchVars == <<phase, query, found, answer>>
vars == <<spans, exports, cutoff, phase, query, found, answer, owed, sent, swept>>

Key(r) == <<r.trace, r.id>>
Keys(rows) == {Key(r) : r \in rows}

\* ON CONFLICT DO UPDATE: rows written over the ones of the same key.
Over(b, rows) == {r \in rows : Key(r) \notin Keys(b)} \cup b

Init ==
    /\ spans = {}
    /\ exports = 0
    /\ cutoff = 0
    /\ phase = "idle"
    /\ query \in Queries
    /\ found = <<>>
    /\ answer = {}
    /\ owed = {}
    /\ sent = {}
    /\ swept = {}

-----------------------------------------------------------------------------
\* Writers.

\* An export commits: all its spans at once.
Export(b) ==
    /\ exports < MaxExports
    /\ exports' = exports + 1
    /\ spans' = Over(b, spans)
    /\ sent' = {r \in sent : Key(r) \notin Keys(b)} \cup b
    /\ swept' = swept \ Keys(b)
    /\ UNCHANGED <<cutoff, searchVars, owed>>

\* A pass begins, with a later cutoff.
StartPass ==
    /\ cutoff <= MaxTime
    /\ cutoff' = cutoff + 1
    /\ UNCHANGED <<spans, exports, history, searchVars, owed>>

\* One DELETE of the sweep commits: expired rows, whichever the index gave.
Sweep ==
    \E gone \in SUBSET {r \in spans : r.start < cutoff} :
        /\ Cardinality(gone) \in 1..BatchRows
        /\ spans' = spans \ gone
        /\ swept' = swept \cup Keys(gone)
        /\ owed' = IF phase = "found" THEN owed \ Keys(gone) ELSE owed
        /\ UNCHANGED <<exports, cutoff, sent, searchVars>>

-----------------------------------------------------------------------------
\* The search.

\* apply_query: every filter looks at one span, and all at the same one; a
\* duration bound of zero is none.  service_name stands for the filters on
\* names and attributes, start_time_max for both bounds on the start.
Matches(q, r) ==
    /\ q.service_name \in {AnyService, r.service}
    /\ r.start < q.start_time_max
    /\ q.duration_min = 0 \/ r.end - r.start >= q.duration_min
    /\ q.duration_max = 0 \/ r.end - r.start <= q.duration_max

\* Mutant of SearchDepth: the default is not capped.
SearchDepth_DefaultUncapped(requested) ==
    IF requested <= 0 THEN DefaultDepth ELSE Min({requested, Max({MaxSearchDepth, 1})})

SearchDepth(requested) ==
    Min({IF requested <= 0 THEN DefaultDepth ELSE requested, Max({MaxSearchDepth, 1})})

Hits(t) == {r \in spans : r.trace = t /\ Matches(query, r)}

\* Mutant of Recency: ORDER BY the column `start`, which is the earliest.
Recency_First(t) == Min({r.start : r \in Hits(t)})

Recency(t) == Max({r.start : r \in Hits(t)})

\* GROUP BY trace_id ORDER BY max(start) DESC LIMIT depth: ties in any order.
FindIds ==
    LET ordered == {o \in SetToSeqs({t \in Traces : Hits(t) # {}}) :
                      \A i, j \in DOMAIN o : i < j => Recency(o[i]) >= Recency(o[j])}
        first(o) == SubSeq(o, 1, Min({Len(o), SearchDepth(query.search_depth)}))
    IN {first(o) : o \in ordered}

\* Mutant of SpansForIds: the query's filters once more.
SpansForIds_Matching(ids) == {r \in spans : r.trace \in ids /\ Matches(query, r)}

SpansForIds(ids) == {r \in spans : r.trace \in ids}

\* A request comes in; the last search, if any, is history.
Search(q) ==
    /\ phase \in {"idle", "answered", "failed"}
    /\ phase' = "query"
    /\ query' = q
    /\ found' = <<>>
    /\ answer' = {}
    /\ owed' = {}
    /\ UNCHANGED tableVars

Find ==
    /\ phase = "query"
    /\ found' \in FindIds
    /\ owed' = {Key(r) : r \in {x \in spans : x.trace \in Range(found')}}
    /\ phase' = "found"
    /\ UNCHANGED <<tableVars, query, answer>>

\* Without ids there is no second statement.
NothingFound ==
    /\ phase = "found"
    /\ found = <<>>
    /\ phase' = "answered"
    /\ UNCHANGED <<tableVars, query, found, answer, owed>>

Fetch ==
    /\ phase = "found"
    /\ found # <<>>
    /\ answer' = SpansForIds(Range(found))
    /\ phase' = "answered"
    /\ UNCHANGED <<tableVars, query, found, owed>>

\* A bound outside the nanosecond range, no connection, a failing statement,
\* on a replica a conflict with recovery.
Fail ==
    /\ phase = "query" \/ (phase = "found" /\ found # <<>>)
    /\ phase' = "failed"
    /\ UNCHANGED <<tableVars, query, found, answer, owed>>

Writers ==
    \/ \E b \in Batches : Export(b)
    \/ StartPass
    \/ Sweep

Next ==
    \/ Writers
    \/ \E q \in Queries : Search(q)
    \/ Find
    \/ NothingFound
    \/ Fetch
    \/ Fail

Spec == Init /\ [][Next]_vars

-----------------------------------------------------------------------------
\* Summaries.

\* Mutant of Orphans: the test for an empty parent_span_id left out.
Orphans_Roots(rows) == {r \in rows : r.parent \notin {x.id : x \in rows}}

\* Spans whose parent is not there.
Orphans(rows) == {r \in rows : r.parent # NoParent /\ r.parent \notin {x.id : x \in rows}}

\* The parentless span that starts first gives the summary its root service
\* and operation; without any, these stay empty.
Rooted(rows) == \E r \in rows : r.parent = NoParent

Summarize(rows) == [span_count |-> Cardinality(rows),
                    orphan_span_count |-> Cardinality(Orphans(rows)),
                    rooted |-> Rooted(rows)]

\* One summary per trace with a span left.
Summaries == [t \in {r.trace : r \in answer} |-> Summarize({r \in answer : r.trace = t})]

-----------------------------------------------------------------------------
\* Dependencies, which one statement over the table counts.

\* A call: a span and its child.
Caller(call) == call[1]
Callee(call) == call[2]

InWindow(r, from, until) == r.start >= from /\ r.start < until

\* Mutant of Calls: the join on the parent's span id alone.
Calls_AnyTrace(from, until) ==
    {call \in spans \X spans :
        /\ Caller(call).id = Callee(call).parent
        /\ InWindow(Callee(call), from, until)
        /\ Caller(call).service # Callee(call).service}

\* The join of spans with their parents of another service.
Calls(from, until) ==
    {call \in spans \X spans :
        /\ Caller(call).trace = Callee(call).trace
        /\ Caller(call).id = Callee(call).parent
        /\ InWindow(Callee(call), from, until)
        /\ Caller(call).service # Callee(call).service}

\* GROUP BY the two services, ordered by calls, which is left out.
Between(call) == <<Caller(call).service, Callee(call).service>>

Dependencies(from, until) ==
    LET calls == Calls(from, until)
    IN [pair \in {Between(call) : call \in calls} |->
            Cardinality({call \in calls : Between(call) = pair})]

-----------------------------------------------------------------------------
\* GetOperations, one statement over the table.

\* The spans that count for a listing.
Listed(service, kind) ==
    {r \in spans : r.service = service /\ kind \in {AnyKind, r.kind}}

\* Mutant of Beyond: the kind is asked for in the first probe only.
Beyond_AnyKind(service, kind, v) ==
    {r \in Listed(service, IF v = -1 THEN kind ELSE AnyKind) : r.operation > v}

\* The spans beyond one operation in the index; -1 is before the first.
Beyond(service, kind, v) == {r \in Listed(service, kind) : r.operation > v}

\* What one probe may return: ORDER BY operation_name LIMIT 1, ties broken
\* either way.
Probe(rows) == {r \in rows : \A x \in rows : r.operation <= x.operation}

\* WITH RECURSIVE walk: all the answers there may be, each a sequence of
\* operations with the kind of the span the probe came upon.
ListOperations(service, kind) ==
    LET walk[v \in {-1} \cup Operations] ==
            LET rows == Beyond(service, kind, v)
            IN IF rows = {} THEN {<<>>}
               ELSE UNION {{<<[name |-> r.operation, span_kind |-> r.kind]>> \o rest :
                               rest \in walk[r.operation]} : r \in Probe(rows)}
    IN walk[-1]

-----------------------------------------------------------------------------
\* Properties.

\* Every variable stays in its range, a key names one row, and no search
\* finds more than MAX_SEARCH_DEPTH, whatever it asks for.
TypeOK ==
    /\ spans \subseteq Span
    /\ Cardinality(Keys(spans)) = Cardinality(spans)
    /\ exports \in 0..MaxExports
    /\ cutoff \in 0..(MaxTime + 1)
    /\ phase \in {"idle", "query", "found", "answered", "failed"}
    /\ query \in Queries
    /\ found \in Seq(Traces)
    /\ Len(found) <= Max({MaxSearchDepth, 1})
    /\ answer \subseteq Span
    /\ owed \subseteq Traces \X SpanIds
    /\ sent \subseteq Span
    /\ swept \subseteq Traces \X SpanIds

\* A span that a found trace had when the trace was found is in the answer,
\* unless the sweep deleted it in between: an export that rewrites the span
\* so that it no longer matches does not hide it, nor the trace.
LostOnlyToSweep == phase = "answered" => owed \subseteq Keys(answer)

\* A search leaves out a trace with a matching span only when the depth is
\* used up, and then every found trace has a matching span that is as new as
\* all of its (find_ids).
NewestAreFound ==
    [][phase = "query" /\ phase' = "found" =>
         \A u \in Traces \ Range(found') : Hits(u) # {} =>
            /\ Len(found') = SearchDepth(query.search_depth)
            /\ \A i \in DOMAIN found' : \E r \in Hits(found'[i]) :
                  \A x \in Hits(u) : x.start <= r.start]_vars

\* What exporters have sent last of each span and the sweep has left.
Standing == {r \in sent : Key(r) \notin swept}

\* A summary shows its trace as exporters and the sweep had left it when its
\* spans were read, whichever ends came first and whatever came between the
\* two statements: a span is an orphan exactly if its parent was not exported
\* until then or was swept, and the root is empty exactly if every span sent
\* without a parent was swept (summarize).
SummariesAreCurrent ==
    [][phase = "found" /\ phase' = "answered" =>
         \A t \in Range(found) :
            LET mine == {r \in Standing : r.trace = t}
                stray == {r \in mine : /\ r.parent # NoParent
                                       /\ <<t, r.parent>> \notin Keys(sent) \ swept}
            IN /\ t \in DOMAIN Summaries' <=> mine # {}
               /\ mine # {} => Summaries'[t] =
                     [span_count |-> Cardinality(mine),
                      orphan_span_count |-> Cardinality(stray),
                      rooted |-> \E r \in mine : r.parent = NoParent]]_vars

\* The spans of a service that started in a window, called by another service.
Called(service, from, until) ==
    {c \in Standing : /\ c.service = service /\ c.start \in from..(until - 1)
                      /\ \E p \in Standing : Key(p) = <<c.trace, c.parent>>
                                            /\ p.service # service}

\* Every span in a window that another service called counts for one call, of
\* its own service, whichever of the two came first and however often exports
\* rewrite them: a call is left out only while its parent has not been
\* exported, or once the sweep has deleted either (dependencies).
CallsCountOnce ==
    \A from, until \in 0..(MaxTime + 1) :
        LET counts == Dependencies(from, until)
        IN \A service \in Services :
              Cardinality(Called(service, from, until)) =
                  MapThenSumSet(LAMBDA pair : IF pair[2] = service THEN counts[pair] ELSE 0,
                                DOMAIN counts)

\* A listing has every operation of which the service has a span of the kind,
\* and once, although the index is walked by name alone and spans of all kinds
\* lie between; the kind it shows with an operation is the one that was asked
\* for, or one that some span of the operation has (operations).
OperationsAreListed ==
    \A service \in Services, kind \in Kinds \cup {AnyKind} :
        \A listed \in ListOperations(service, kind) :
            /\ \A i, j \in DOMAIN listed : i < j => listed[i].name < listed[j].name
            /\ \A r \in spans : r.service = service /\ kind \in {r.kind, AnyKind} =>
                  \E i \in DOMAIN listed : listed[i].name = r.operation
            /\ \A i \in DOMAIN listed :
                  \E r \in spans : /\ r.service = service
                                    /\ listed[i] = [name |-> r.operation, span_kind |-> r.kind]
                                    /\ kind \in {r.kind, AnyKind}
=============================================================================
