----------------------------- MODULE LogSearch -----------------------------
(***************************************************************************)
(* FindLogs over the table that LogsService/Export fills (AppendExport):    *)
(* find_logs is one statement, so what it may answer is a function of the   *)
(* table at that moment.  Texts are sequences of characters.  The sweep is  *)
(* left out here, and the table is the primary's.                           *)
(***************************************************************************)
EXTENDS AppendExport, Integers, FiniteSetsExt, SequencesExt

CONSTANTS Queries,         \* the queries a client may send
          AnyService,      \* a query without service_name
          NoTime,          \* a query without a bound on the time
          TraceIdBytes,    \* 16
          DefaultDepth,    \* 20
          MaxSearchDepth,  \* MAX_SEARCH_DEPTH
          Needles, Texts   \* what SearchIsLiteral looks for, and in what

ASSUME DepthAssumption ==
    DefaultDepth \in Nat \ {0} /\ MaxSearchDepth \in Nat /\ TraceIdBytes \in Nat

\* Characters are strings, bytes are numbers, and severities OTLP's: no sign.
ASSUME TextsAssumption ==
    /\ \A r \in Records : /\ {r.body, r.severity_text, r.attributes} \subseteq Seq(STRING)
                          /\ r.trace_id \in Seq(0..255)
                          /\ {r.severity, r.time, r.observed} \subseteq Nat
    /\ \A q \in Queries : /\ {q.search, q.trace_id} \subseteq Seq(STRING)
                          /\ {q.min_severity, q.search_depth} \subseteq Int
                          /\ {q.time_min, q.time_max} \subseteq Int \cup {NoTime}
    /\ Needles \cup Texts \subseteq Seq(STRING)

-----------------------------------------------------------------------------
\* What log_row stores of a record.

Time(r) == IF r.time # 0 THEN r.time ELSE r.observed

\* The texts a search looks at: the body, as it is or as JSON, the severity
\* and the attributes.
Searched(r) == {r.body, r.severity_text, r.attributes}

-----------------------------------------------------------------------------
\* Conversions.

LowerOf == [A |-> "a", B |-> "b", C |-> "c", D |-> "d", E |-> "e", F |-> "f"]
Lower(c) == IF c \in DOMAIN LowerOf THEN LowerOf[c] ELSE c
Folded(text) == [k \in DOMAIN text |-> Lower(text[k])]

\* LIKE, whose escape character is the backslash: where in the text the first
\* characters of a pattern may have got to, and whether the last one quotes the
\* next.
Step(text, before, c) ==
    IF c = "\\" /\ ~ before.quotes THEN [at |-> before.at, quotes |-> TRUE]
    ELSE [at |-> IF c = "%" /\ ~ before.quotes
                 THEN {k \in 0..Len(text) : \E j \in before.at : j <= k}
                 ELSE {k \in 1..Len(text) : /\ k - 1 \in before.at
                                            /\ text[k] = c \/ (c = "_" /\ ~ before.quotes)},
          quotes |-> FALSE]

Reading(text, p) ==
    LET read[n \in 0..Len(p)] ==
            IF n = 0 THEN [at |-> {0}, quotes |-> FALSE] ELSE Step(text, read[n - 1], p[n])
    IN read[Len(p)]

Like(text, p) == Len(text) \in Reading(text, p).at /\ ~ Reading(text, p).quotes

\* ILIKE.
Ilike(text, p) == Like(Folded(text), Folded(p))

Replace(text, c, by) == FlattenSeq([k \in DOMAIN text |-> IF text[k] = c THEN by ELSE <<text[k]>>])

\* Mutant of EscapeLike: the backslash is escaped last.
EscapeLike_BackslashLast(needle) ==
    Replace(Replace(Replace(needle, "%", <<"\\", "%">>), "_", <<"\\", "_">>), "\\", <<"\\", "\\">>)

EscapeLike(needle) ==
    Replace(Replace(Replace(needle, "\\", <<"\\", "\\">>), "%", <<"\\", "%">>), "_", <<"\\", "_">>)

Pattern(needle) == <<"%">> \o EscapeLike(needle) \o <<"%">>

Digits == <<"0", "1", "2", "3", "4", "5", "6", "7", "8", "9", "a", "b", "c", "d", "e", "f">>
IsDigit(c) == Lower(c) \in Range(Digits)
Digit(c) == CHOOSE n \in 0..15 : Digits[n + 1] = Lower(c)

\* Pairs of digits; from_str_radix takes a plus for the first one, too.
IsHex(text) ==
    /\ Len(text) % 2 = 0
    /\ \A k \in DOMAIN text : IsDigit(text[k]) \/ (k % 2 = 1 /\ text[k] = "+")

HexDecode(text) ==
    [k \in 1..(Len(text) \div 2) |->
        (IF text[2 * k - 1] = "+" THEN 0 ELSE 16 * Digit(text[2 * k - 1])) + Digit(text[2 * k])]

-----------------------------------------------------------------------------
\* find_logs.

SearchDepth(requested) ==
    Min({IF requested <= 0 THEN DefaultDepth ELSE requested, Max({MaxSearchDepth, 1})})

\* An error before the statement: invalid_argument.
Malformed(q) == q.trace_id # <<>> /\ ~ IsHex(q.trace_id)

Matches(q, r) ==
    /\ q.service_name \in {AnyService, r.service}
    /\ q.min_severity > 0 => r.severity >= q.min_severity
    /\ q.trace_id # <<>> => r.trace_id = HexDecode(q.trace_id) /\ Len(r.trace_id) = TraceIdBytes
    /\ q.time_min # NoTime => Time(r) >= q.time_min
    /\ q.time_max # NoTime => Time(r) < q.time_max
    /\ q.search # <<>> => \E text \in Searched(r) : Ilike(text, Pattern(q.search))

\* The record of a row.
Rec(row) == Req(row[1])[row[2]]

Hits(q) == {row \in table : Matches(q, Rec(row))}

\* ORDER BY time DESC LIMIT depth: the rows an answer may have, ties at the
\* limit broken either way.  The order they come in is left out.
FindLogs(q) ==
    {rows \in kSubset(Min({SearchDepth(q.search_depth), Cardinality(Hits(q))}), Hits(q)) :
        \A out \in Hits(q) \ rows, in \in rows : Time(Rec(out)) <= Time(Rec(in))}

-----------------------------------------------------------------------------
\* Properties.

\* What a search means: the text is there, letter for letter but for case.
HasText(text, needle) ==
    \E k \in 0..(Len(text) - Len(needle)) :
        \A j \in DOMAIN needle : Lower(text[k + j]) = Lower(needle[j])

\* The hexadecimal form of an id.
Hex(id) == [k \in 1..(2 * Len(id)) |->
               IF k % 2 = 1 THEN Digits[(id[(k + 1) \div 2] \div 16) + 1]
               ELSE Digits[(id[k \div 2] % 16) + 1]]

\* What the client meant by a query, without LIKE and without decoding.  An id
\* of another length than 16 bytes is found by nobody, though it may be stored,
\* and a plus in a trace id means nothing: see README.
Meant(q, r) ==
    /\ q.service_name # AnyService => r.service = q.service_name
    /\ r.severity >= q.min_severity
    /\ q.trace_id # <<>> => /\ Hex(r.trace_id) = Folded(q.trace_id)
                            /\ Len(q.trace_id) = 2 * TraceIdBytes
    /\ q.time_min # NoTime => q.time_min <= Time(r)
    /\ q.time_max # NoTime => Time(r) < q.time_max
    /\ q.search # <<>> => \E text \in Searched(r) : HasText(text, q.search)

Proper == {q \in Queries : ~ Malformed(q) /\ "+" \notin Range(q.trace_id)}

\* Rows at least as new use up the depth.
Crowded(q, rows, r) ==
    /\ Cardinality(rows) = SearchDepth(q.search_depth)
    /\ \A row \in rows : Time(Rec(row)) >= Time(r)

\* No character of a search means anything but itself, whatever the text.
SearchIsLiteral ==
    \A needle \in Needles, text \in Texts :
        Ilike(text, Pattern(needle)) <=> HasText(text, needle)

\* A search answers with the newest records the client meant and with no
\* other, whatever is stored: wildcards and backslashes in the search are
\* taken literally, and only the depth leaves a record out (find_logs).
FindsWhatIsMeant ==
    /\ SearchIsLiteral
    /\ \A q \in Proper : \A rows \in FindLogs(q) :
          /\ \A row \in rows : Meant(q, Rec(row))
          /\ \A row \in table \ rows : Meant(q, Rec(row)) => Crowded(q, rows, Rec(row))

\* What an exporter was told is stored, every search for it finds from then
\* on, unless newer records, which may be copies of one record that was sent
\* twice, use up the depth (write_logs, find_logs).
AckedIsFound ==
    \A e \in Exporters : answer[e] = "ok" =>
        \A q \in Proper : \A rows \in FindLogs(q) : \A i \in DOMAIN request[e] :
            Meant(q, request[e][i]) =>
                \/ \E row \in rows : row[1][1] = e /\ row[2] = i
                \/ Crowded(q, rows, request[e][i])
=============================================================================
