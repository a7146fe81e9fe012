------------------------- MODULE MCMetricsCollector -------------------------
(* Small instances of MetricsCollector. *)
EXTENDS MetricsCollector

S(v, p) == [value |-> v, priority |-> p]

(* On target, at it, and far off with a lower priority. *)
MCSamples == {S(99, 0), S(100, 0), S(300, 1)}

(* Enough samples for the 95th percentile to differ from the maximum, and  *)
(* for two samples to be off target.                                       *)
MCMaxOf ==
  [k \in Kinds |-> [s \in MCSamples |->
     IF k = "e2e" THEN (IF s = S(99, 0) THEN 41 ELSE IF s = S(100, 0) THEN 3 ELSE 1)
     ELSE IF k = "consensus" /\ s = S(300, 1) THEN 1 ELSE 0]]

=============================================================================
