--------------------------- MODULE MCMetricCatalog ---------------------------
(* Instances of MetricCatalog for TLC. *)
EXTENDS MetricCatalog
=============================================================================
