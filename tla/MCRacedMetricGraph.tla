-------------------------- MODULE MCRacedMetricGraph --------------------------
(* Two writers that start from a graph earlier writers have already spoilt. *)
EXTENDS MetricGraph

\* Bound: each writer starts one write.
VARIABLE begun

\* Graphs racing writers leave behind: none yet, or two metrics that depend on
\* each other, which the run graph_cycle reaches from the empty graph.
RacedInit ==
    /\ begun = {}
    /\ \E m, n \in Metrics, w \in Writers :
           /\ refs = {[metric |-> m, target |-> n, by |-> w], [metric |-> n, target |-> m, by |-> w]}
                        \ {[metric |-> m, target |-> m, by |-> w]}
           /\ expression = [x \in Metrics |-> Targets(refs, x)]
           /\ tx = [v \in Writers |-> Idle(m)]

Begins(w) == tx[w].pc = "idle" /\ tx'[w].pc # "idle"

RacedNext ==
    /\ Next
    /\ \A w \in begun : ~Begins(w)
    /\ begun' = begun \cup {w \in Writers : Begins(w)}

RacedSpec == RacedInit /\ [][RacedNext]_<<vars, begun>> /\ Fairness
=============================================================================
