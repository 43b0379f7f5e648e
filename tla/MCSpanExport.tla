---------------------------- MODULE MCSpanExport ----------------------------
(* Instances of SpanExport for TLC. *)
EXTENDS SpanExport

CONSTANTS k1, k2, k3

Good(k) == [key |-> k, fits |-> TRUE]
BadIds == [key |-> Malformed, fits |-> TRUE]
TooLate(k) == [key |-> k, fits |-> FALSE]

\* Two orders of the same keys (of a repeated key the last one counts), with
\* ids that are rejected in between; nothing to store; an unstorable timestamp
\* on a row whose key is fine.  With statements of two rows, three need two.
SafetyRequests == {<<Good(k1), Good(k2), Good(k3)>>,
                   <<Good(k2), BadIds, Good(k2), Good(k1)>>,
                   <<BadIds>>,
                   <<Good(k1), TooLate(k2)>>}

\* The same with two keys, for the liveness run.
LivenessRequests == {<<Good(k1), Good(k2)>>,
                     <<Good(k2), BadIds, Good(k2), Good(k1)>>}

\* Exporters are interchangeable; used in the safety run only.
ExporterSymmetry == Permutations(Exporters)
=============================================================================
