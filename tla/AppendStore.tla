---------------------------- MODULE AppendStore ----------------------------
(***************************************************************************)
(* What the logs and metric_points tables promise an exporter: a request is *)
(* stored as a whole or not at all, and success is reported only for one    *)
(* that is stored.  It may be stored several times, each time as a copy of  *)
(* its own, and even after success is reported: an attempt the exporter     *)
(* gave up may still arrive.  (SpanStore, with its keys, excludes that.)    *)
(***************************************************************************)
EXTENDS Naturals, Sequences

CONSTANTS Exporters, Requests, NoRequest,
          Copies   \* bound: the numbers a request's copies may have

VARIABLES table,    \* rows: <<copy, index>>, where a copy is <<exporter, number>>
          request,  \* exporter -> what it exports, a sequence of records
          answer    \* exporter -> "none", "open" (sent), "ok" (reported stored)

vars == <<table, request, answer>>

\* All rows of a copy.
Copy(e, n) == {<<<<e, n>>, i>> : i \in DOMAIN request[e]}

Init ==
    /\ table = {}
    /\ request = [e \in Exporters |-> NoRequest]
    /\ answer = [e \in Exporters |-> "none"]

Submit(e, r) ==
    /\ answer[e] = "none"
    /\ request' = [request EXCEPT ![e] = r]
    /\ answer' = [answer EXCEPT ![e] = "open"]
    /\ UNCHANGED table

Apply(e, n) ==
    /\ answer[e] # "none"
    /\ \A i \in DOMAIN request[e] : request[e][i].fits
    /\ Copy(e, n) \cap table = {}
    /\ table' = table \cup Copy(e, n)
    /\ UNCHANGED <<request, answer>>

Report(e) ==
    /\ answer[e] = "open"
    /\ \E n \in Copies : Copy(e, n) \subseteq table
    /\ answer' = [answer EXCEPT ![e] = "ok"]
    /\ UNCHANGED <<table, request>>

Next ==
    \E e \in Exporters :
        \/ \E r \in Requests : Submit(e, r)
        \/ \E n \in Copies : Apply(e, n)
        \/ Report(e)

Spec == Init /\ [][Next]_vars
=============================================================================
