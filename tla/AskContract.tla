----------------------------- MODULE AskContract -----------------------------
(***************************************************************************)
(* What POST /api/ask promises the people who pay for the language model,  *)
(* own the warehouse and read the audit log, whatever the pipeline does    *)
(* inside: a question consults the parser a bounded number of times, then  *)
(* runs at most one statement, and only if asked to; its answer and its    *)
(* record appear in one step and agree.                                    *)
(***************************************************************************)
EXTENDS Integers

CONSTANTS Requests, Bound

VARIABLES
    phase,   \* idle, thinking, queried, answered, refused or failed
    opted,   \* opted[r]: execution was asked for
    tries,   \* tries[r]: times the parser was consulted
    open,    \* whether the workspace exists
    log      \* the runs on record

vars == <<phase, opted, tries, open, log>>

Init ==
    /\ phase = [r \in Requests |-> "idle"]
    /\ opted = [r \in Requests |-> FALSE]
    /\ tries = [r \in Requests |-> 0]
    /\ open = TRUE
    /\ log = {}

Accept(r) ==
    /\ phase[r] = "idle"
    /\ phase' = [phase EXCEPT ![r] = "thinking"]
    /\ opted' \in {[opted EXCEPT ![r] = b] : b \in BOOLEAN}
    /\ UNCHANGED <<tries, open, log>>

Refuse(r) ==
    /\ phase[r] = "idle"
    /\ phase' = [phase EXCEPT ![r] = "refused"]
    /\ UNCHANGED <<opted, tries, open, log>>

Consult(r) ==
    /\ phase[r] = "thinking"
    /\ tries[r] < Bound
    /\ tries' = [tries EXCEPT ![r] = @ + 1]
    /\ UNCHANGED <<phase, opted, open, log>>

RunStatement(r) ==
    /\ phase[r] = "thinking"
    /\ opted[r]
    /\ tries[r] > 0
    /\ phase' = [phase EXCEPT ![r] = "queried"]
    /\ UNCHANGED <<opted, tries, open, log>>

\* A run is reported executed exactly when it was, compiled only when no
\* statement was asked for.
Answer(r, status) ==
    /\ open
    /\ tries[r] > 0
    /\ \/ phase[r] \in {"thinking", "queried"} /\ status = "failed"
       \/ phase[r] = "queried" /\ status = "executed"
       \/ phase[r] = "thinking" /\ ~opted[r] /\ status = "compiled"
    /\ phase' = [phase EXCEPT ![r] = "answered"]
    /\ log' = log \cup {[request |-> r, status |-> status]}
    /\ UNCHANGED <<opted, tries, open>>

Fail(r) ==
    /\ phase[r] \in {"thinking", "queried"}
    /\ phase' = [phase EXCEPT ![r] = "failed"]
    /\ UNCHANGED <<opted, tries, open, log>>

Close ==
    /\ open
    /\ open' = FALSE
    /\ log' = {}
    /\ UNCHANGED <<phase, opted, tries>>

Next ==
    \/ \E r \in Requests :
          \/ Accept(r) \/ Refuse(r) \/ Consult(r) \/ RunStatement(r) \/ Fail(r)
          \/ \E status \in {"failed", "executed", "compiled"} : Answer(r, status)
    \/ Close

Spec == Init /\ [][Next]_vars
=============================================================================
