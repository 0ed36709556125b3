--------------------------- MODULE PipelineContract ---------------------------
(* The pipeline implements the contract of the endpoint: its refinement map. *)
EXTENDS Pipeline

Phase(r) ==
    CASE pc[r] = "idle" -> "idle"
      [] pc[r] = "not_found" -> "refused"
      [] pc[r] = "answered" -> "answered"
      [] pc[r] = "error" -> "failed"
      [] OTHER -> IF ran[r] = 0 THEN "thinking" ELSE "queried"

Contract == INSTANCE AskContract WITH
    Bound <- IF MaxAttempts = 0 THEN 1 ELSE MaxAttempts,
    phase <- [r \in Requests |-> Phase(r)],
    opted <- [r \in Requests |-> state[r].execute],
    tries <- [r \in Requests |-> state[r].attempts],
    open  <- workspace,
    log   <- {[request |-> row.request, status |-> row.status] : row \in log}

\* Every behaviour of the pipeline is one the endpoint's contract allows.
ImplementsContract == Contract!Spec
=============================================================================
