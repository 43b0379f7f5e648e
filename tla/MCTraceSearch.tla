--------------------------- MODULE MCTraceSearch ---------------------------
(* Instances of TraceSearch for TLC. *)
EXTENDS TraceSearch

CONSTANTS t1, t2, t3, root, child, api, db, server, client

Row(t, i, p, s, op, k, from, to) ==
    [trace |-> t, id |-> i, parent |-> p, service |-> s, operation |-> op, kind |-> k,
     start |-> from, end |-> to]

\* A trace of two spans; the child of another that starts before it and ends
\* after it, in a request of its own, and its parent; the first trace again,
\* its root in another service and its child later, together with a span whose
\* parent nobody sends.
MCBatches == {
    {Row(t1, root, NoParent, api, 1, server, 1, 2), Row(t1, child, root, db, 0, server, 1, 2)},
    {Row(t2, child, root, api, 1, client, 2, 2)},
    {Row(t2, root, NoParent, db, 0, server, 0, 2)},
    {Row(t1, root, NoParent, db, 1, server, 1, 1), Row(t1, child, root, db, 0, client, 2, 2),
     Row(t3, child, root, api, 2, server, 0, 1)}}

Ask(service, until, shortest, longest, depth) ==
    [service_name |-> service, start_time_max |-> until, duration_min |-> shortest,
     duration_max |-> longest, search_depth |-> depth]

\* One service with depth one, everything with the default depth, spans of
\* exactly one nanosecond before a time.
MCQueries == {Ask(api, 3, 0, 0, 1), Ask(AnyService, 3, 0, 0, 0), Ask(AnyService, 2, 1, 1, 2)}
=============================================================================
