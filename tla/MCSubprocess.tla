---------------------------- MODULE MCSubprocess ----------------------------
(* SubprocessInterpreter on small instances. *)
EXTENDS SubprocessInterpreter

CONSTANTS a, b, w1, w2, main, helper

OneWorker == {w1}
TwoWorkers == {w1, w2}
OneThread == {a}
TwoThreads == {a, b}
NoThread == {}
NoHelper == {}
OneHelper == {helper}
=============================================================================
