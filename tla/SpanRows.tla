------------------------------ MODULE SpanRows ------------------------------
(***************************************************************************)
(* The rows Store::write builds from one export request, before any        *)
(* database call.  A request is a sequence of spans in arrival order; of a *)
(* span only two things decide what the write does: the row it names (its  *)
(* (trace_id, span_id), or Malformed when either id has the wrong length)  *)
(* and whether both of its timestamps fit a signed 64-bit column.  A row   *)
(* is known by the index of the span it was built from.                    *)
(***************************************************************************)
EXTENDS Naturals, FiniteSets, Sequences, SequencesExt

CONSTANTS Keys,       \* values of (trace_id, span_id), the primary key
          Malformed   \* stands for ids that are not 16 and 8 bytes long

ASSUME MalformedAssumption == Malformed \notin Keys

\* One span of a request, and the requests made of them.
SpanItem == [key : Keys \cup {Malformed}, fits : BOOLEAN]

\* The spans for which a row is built: malformed ids are counted as rejected
\* and skipped, the rest of the request goes on.
Collected(r) == {i \in 1..Len(r) : r[i].key # Malformed}

\* A well-formed span whose start or end does not fit i64: span_row returns
\* an error, and `?` gives up the whole request before a transaction exists.
Overflows(r) == \E i \in Collected(r) : ~ r[i].fits

\* Mutants of Kept: rows written without dedupe_spans; the first occurrence
\* kept instead of the last.
Kept_Duplicates(r) == Collected(r)
Kept_First(r) == {i \in Collected(r) :
                    \A j \in Collected(r) : r[j].key = r[i].key => i <= j}

\* dedupe_spans: one row per key, the last occurrence, in arrival order (the
\* order is that of the indices).
Kept(r) == {i \in Collected(r) :
              \A j \in Collected(r) : r[j].key = r[i].key => j <= i}

\* The first n rows of a set of rows: one chunk of `deduped.chunks(n)`.
FirstRows(rows, n) ==
    {i \in rows : Cardinality({j \in rows : j < i}) < n}

KeysOf(r, rows) == {r[i].key : i \in rows}

\* Mutant of Overlay: VALUES listed in another order than the columns.
Overlay_Swapped(table, e, r, rows) ==
    [k \in Keys |-> IF k \in KeysOf(r, rows)
                    THEN <<CHOOSE i \in rows : r[i].key = k, e>>
                    ELSE table[k]]

\* What upserting `rows` of exporter e's request r makes of a table.
Overlay(table, e, r, rows) ==
    [k \in Keys |-> IF k \in KeysOf(r, rows)
                    THEN <<e, CHOOSE i \in rows : r[i].key = k>>
                    ELSE table[k]]

\* The behaviour the batch replaced: a statement per span, a later write
\* overwriting an earlier one.
RowAtATime(table, e, r) ==
    LET upsert(t, i) == IF r[i].key = Malformed THEN t
                        ELSE [t EXCEPT ![r[i].key] = <<e, i>>]
    IN FoldLeft(upsert, table, [i \in 1..Len(r) |-> i])
=============================================================================
