--------------------------- MODULE MetricSampling ---------------------------
(***************************************************************************)
(* FindMetrics: the points of a metric thinned per series, twice.  The SQL  *)
(* keeps every k-th point of a series and its last one, all series together *)
(* are cut to MAX_METRIC_ROWS, and `downsample` picks the requested number  *)
(* of what came back.  The state is the table the query reads, as far as it *)
(* matches the query's name, service and time bounds: a sequence of points  *)
(* in time order, of which only the series matters.  Two points of a series *)
(* have different times, or are copies of each other.                       *)
(***************************************************************************)
EXTENDS Integers, FiniteSets, Sequences, FiniteSetsExt

CONSTANTS Series,         \* values of (service_name, attributes)
          MaxRows,        \* MAX_METRIC_ROWS
          DefaultPoints,  \* DEFAULT_MAX_POINTS
          Requests,       \* values of max_points in queries
          MaxLog          \* bound: points in the table

ASSUME SamplingAssumption ==
    /\ MaxRows \in Nat \ {0}
    /\ DefaultPoints \in Nat \ {0}
    /\ Requests \subseteq Int
    /\ MaxLog \in Nat

VARIABLE points

Init == points = <<>>

\* A point becomes visible to queries.
AppendPoint(s) ==
    /\ Len(points) < MaxLog
    /\ points' = Append(points, s)

Next == \E s \in Series : AppendPoint(s)

Spec == Init /\ [][Next]_points

-----------------------------------------------------------------------------
\* The query.

Budget(max_points) == IF max_points <= 0 THEN DefaultPoints ELSE max_points

\* The place of a row among others, and the row at a place.
Place(rows, i) == Cardinality({j \in rows : j <= i})
Nth(rows, n) == CHOOSE i \in rows : Place(rows, i) = n

Rows(s) == {i \in DOMAIN points : points[i] = s}
Count(s) == Cardinality(Rows(s))        \* cnt
Rank(i) == Place(Rows(points[i]), i)    \* rn

\* Mutant of Stride: no `+ 1`.
Stride_Plain(s, b) == Count(s) \div b

Stride(s, b) == Count(s) \div b + 1

\* Mutant of Survives: the first points of the series, and its last.
Survives_FirstPoints(i, b) == Rank(i) <= b \/ Rank(i) = Count(points[i])

Survives(i, b) ==
    LET s == points[i] IN
    \/ Count(s) <= b
    \/ Rank(i) % Stride(s, b) = 1
    \/ Rank(i) = Count(s)

\* ORDER BY time_unix_nano ASC LIMIT MAX_METRIC_ROWS
Fetched(b) ==
    LET surviving == {i \in DOMAIN points : Survives(i, b)}
    IN {i \in surviving : Cardinality({j \in surviving : j < i}) < MaxRows}

\* Mutant of Downsample: steps that fall short of the last index.
Downsample_Short(rows, b) ==
    LET len == Cardinality(rows) IN
    IF len <= b THEN rows
    ELSE {Nth(rows, (i * len) \div b + 1) : i \in 0..(b - 1)}

Downsample(rows, b) ==
    LET len == Cardinality(rows) IN
    IF len <= b THEN rows
    ELSE IF b = 1 THEN {Max(rows)}
    ELSE {Nth(rows, (i * (len - 1)) \div (b - 1) + 1) : i \in 0..(b - 1)}

\* The points of series s in the answer, in time order like all indices here.
Shown(s, b) == Downsample(Rows(s) \cap Fetched(b), b)

-----------------------------------------------------------------------------
\* Properties, for every table and every max_points.

AnySeries(P(_, _)) ==
    \A s \in Series, m \in Requests : Count(s) > 0 => P(s, Budget(m))

Truncated(b) == \E i \in DOMAIN points : Survives(i, b) /\ i \notin Fetched(b)

\* A series is answered with at most the points asked for and, unless the
\* row limit cut the query, with at least half of them when it has them: the
\* SQL stage never thins a series away below what `downsample` can spread.
BudgetUsed ==
    AnySeries(LAMBDA s, b :
        /\ Cardinality(Shown(s, b)) <= b
        /\ Truncated(b) \/ 2 * Cardinality(Shown(s, b)) >= Min({b, Count(s)}))

\* The newest point of a series is shown, whatever the budget, and the oldest
\* too for a budget of at least two (unless the row limit cut the query):
\* both stages keep both ends.
EndsShown ==
    AnySeries(LAMBDA s, b :
        \/ Truncated(b)
        \/ /\ Max(Rows(s)) \in Shown(s, b)
           /\ b > 1 => Min(Rows(s)) \in Shown(s, b))

\* A chart has no hole: between two points shown one after the other lie
\* fewer than two strides of the series, although the two stages round
\* independently (for a budget of at least two, without the row limit).
NoHole ==
    AnySeries(LAMBDA s, b :
        Truncated(b) \/ b = 1 \/
        \A i \in Shown(s, b) :
            i = Max(Rows(s)) \/
            \E j \in Shown(s, b) :
                Rank(j) \in (Rank(i) + 1)..(Rank(i) + 2 * Stride(s, b)))

\* "sized so a series stays a little above the requested budget; the exact
\* evenly-spaced pass below then trims to it" (the comment on the SQL): a
\* series with more points than the budget is answered with all of it.  It
\* is not: one point above the budget halves the answer.
BudgetReached ==
    AnySeries(LAMBDA s, b : Count(s) >= b => Cardinality(Shown(s, b)) >= b)
=============================================================================
