---------------------------- MODULE MCMetricGraph ----------------------------
(* MetricGraph on small sets of metrics, measures and writers. *)
EXTENDS MetricGraph, TLC

Symmetry == Permutations(Metrics)
=============================================================================
