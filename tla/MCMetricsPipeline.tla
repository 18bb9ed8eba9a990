-------------------------- MODULE MCMetricsPipeline --------------------------
(* Instances of MetricsPipeline for TLC: minutes of two ticks.               *)
EXTENDS MetricsPipeline

CONSTANTS a1, a2
=============================================================================
