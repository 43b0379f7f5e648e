-------------------------- MODULE MCMetricSampling --------------------------
(* Instances of MetricSampling for TLC. *)
EXTENDS MetricSampling

\* Budgets around every divisor of the series' lengths, and the default.
MCRequests == {-1, 0, 1, 2, 3, 4, 5}
=============================================================================
