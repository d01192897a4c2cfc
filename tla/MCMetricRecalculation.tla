------------------------ MODULE MCMetricRecalculation ------------------------
(* Small instances of MetricRecalculation for TLC. *)
EXTENDS MetricRecalculation

CONSTANTS r1, r2, v1, v2, m1, m2, a1, scheduler

\* The first request is in both layers, the second in one of them.
TwoLayers == [r \in Requests |-> IF r = r1 THEN {1, 2} ELSE {2}]
OneLayer == [r \in Requests |-> {1}]

\* Both events belong to the first request, or the second one to none.
SameRequest == [v \in Events |-> r1]
OneUnnamed == [v \in Events |-> IF v = v1 THEN r1 ELSE ""]

==============================================================================
