--------------------------- MODULE CodeInterpreter ---------------------------
(***************************************************************************)
(* What a session promises its caller, whatever backend runs the code:     *)
(* DSPy's CodeInterpreter protocol as checks.py exercises it.              *)
(*                                                                         *)
(* Executions are admitted one at a time while the session is open; the    *)
(* code of an admitted execution takes effect on the session's one         *)
(* namespace at most once, in call order, and only while its caller waits; *)
(* a caller gets the result of its own code or an error; a session that    *)
(* was closed admits nothing more.                                         *)
(***************************************************************************)
EXTENDS Naturals

CONSTANT MaxRuns    \* bound: executions admitted

VARIABLES
    open,       \* the session still accepts work
    active,     \* the execution in progress, 0 if none
    latest,     \* the last execution whose code reached the namespace
    answer      \* [1..MaxRuns -> execution whose result was returned, 0 if none]

vars == <<open, active, latest, answer>>

Init ==
    /\ open = TRUE
    /\ active = 0
    /\ latest = 0
    /\ answer = [r \in 1..MaxRuns |-> 0]

\* lifecycle.shutdown_is_terminal: nothing begins in a closed session.
Begin(r) ==
    /\ open
    /\ active = 0
    /\ latest < r
    /\ answer[r] = 0
    /\ active' = r
    /\ UNCHANGED <<open, latest, answer>>

\* state.namespace_persists: the code of the execution in progress runs once,
\* after all earlier ones, in the same namespace.
Effect ==
    /\ active # 0
    /\ latest < active
    /\ latest' = active
    /\ UNCHANGED <<open, active, answer>>

\* execution.python_and_output: the caller gets what its code computed.
Return ==
    /\ active # 0
    /\ latest = active
    /\ answer' = [answer EXCEPT ![active] = active]
    /\ active' = 0
    /\ UNCHANGED <<open, latest>>

\* The caller gets an error, whether or not the code took effect.
Raise ==
    /\ active # 0
    /\ active' = 0
    /\ UNCHANGED <<open, latest, answer>>

\* shutdown, or an error that ends the session.
Close ==
    /\ open
    /\ open' = FALSE
    /\ UNCHANGED <<active, latest, answer>>

Next == (\E r \in 1..MaxRuns : Begin(r)) \/ Effect \/ Return \/ Raise \/ Close

Spec == Init /\ [][Next]_vars
=============================================================================
