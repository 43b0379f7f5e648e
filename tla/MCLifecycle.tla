---------------------------- MODULE MCLifecycle ----------------------------
(* Instances of Lifecycle for TLC. *)
EXTENDS Lifecycle

\* 2^64, scaled down: 6 days of seconds.
MCWord == 2^19

Set(n, unit, m) == [retention |-> [n |-> n, unit |-> unit], interval |-> [n |-> m, unit |-> "h"]]

\* Two days; a sweep interval that comes out as zero seconds; a typo; none;
\* an interval that is no duration.
MCSettings == {Set(2, "d", 1), Set(2, "d", 2^15), Set(1, "other", 1),
               [retention |-> Unset, interval |-> [n |-> 1, unit |-> "h"]],
               [retention |-> [n |-> 2, unit |-> "d"], interval |-> [n |-> 1, unit |-> "other"]]}
=============================================================================
