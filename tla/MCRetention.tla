---------------------------- MODULE MCRetention -----------------------------
(* Instances of Retention for TLC. *)
EXTENDS Retention

CONSTANTS s1, s2, s3, l1, m1

\* Three spans against a batch of two: a full batch and a short one.
MCTableOf == [x \in Slots |-> IF x \in {s1, s2, s3} THEN "spans"
                              ELSE IF x = l1 THEN "logs" ELSE "metric_points"]

\* Span keys are interchangeable; not used for liveness.
SpanSymmetry == Permutations({s1, s2, s3})
=============================================================================
