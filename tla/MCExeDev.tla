------------------------------ MODULE MCExeDev ------------------------------
(* ExeDevInterpreter on small instances. *)
EXTENDS ExeDevInterpreter

CONSTANTS a, b, v0, v1, v2

OneThread == {a}
TwoThreads == {a, b}
ThreeVMs == {v0, v1, v2}
=============================================================================
