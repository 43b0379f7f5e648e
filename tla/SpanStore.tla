----------------------------- MODULE SpanStore ------------------------------
(***************************************************************************)
(* What the span store promises an exporter, with no transactions, locks   *)
(* or retries in sight.  An export is applied as a whole or not at all, the *)
(* last occurrence of a key wins, an export with a span that cannot be      *)
(* stored is never applied, and success is reported only for an export that *)
(* was applied.  An export may be applied more than once while its exporter *)
(* still waits (a retry after an answer that got lost), never afterwards:   *)
(* once success is reported, newer data is safe from the old export.        *)
(***************************************************************************)
EXTENDS SpanRows

CONSTANTS Exporters, Requests, NoRow, NoRequest

VARIABLES table,     \* key -> the row stored under it
          request,   \* exporter -> what it exports
          answer,    \* exporter -> "none", "open" (sent), "ok" (reported stored)
          applied    \* the exporters whose request has been applied

vars == <<table, request, answer, applied>>

Init ==
    /\ table = [k \in Keys |-> NoRow]
    /\ request = [e \in Exporters |-> NoRequest]
    /\ answer = [e \in Exporters |-> "none"]
    /\ applied = {}

Submit(e, r) ==
    /\ answer[e] = "none"
    /\ request' = [request EXCEPT ![e] = r]
    /\ answer' = [answer EXCEPT ![e] = "open"]
    /\ UNCHANGED <<table, applied>>

\* The row a key holds afterwards: that of its last well-formed span in the
\* request, or what it held before.
Apply(e) ==
    /\ answer[e] = "open"
    /\ ~ Overflows(request[e])
    /\ table' \in [Keys -> (Exporters \X Nat) \cup {NoRow}]
    /\ \A k \in Keys : k \notin KeysOf(request[e], Collected(request[e]))
                         => table'[k] = table[k]
    /\ \A i \in Kept(request[e]) : table'[request[e][i].key] = <<e, i>>
    /\ applied' = applied \cup {e}
    /\ UNCHANGED <<request, answer>>

Report(e) ==
    /\ answer[e] = "open"
    /\ e \in applied
    /\ answer' = [answer EXCEPT ![e] = "ok"]
    /\ UNCHANGED <<table, request, applied>>

Next ==
    \E e \in Exporters :
        \/ \E r \in Requests : Submit(e, r)
        \/ Apply(e)
        \/ Report(e)

Spec == Init /\ [][Next]_vars
=============================================================================
