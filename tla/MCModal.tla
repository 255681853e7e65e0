------------------------------- MODULE MCModal -------------------------------
(* ModalInterpreter on small instances. *)
EXTENDS ModalInterpreter

CONSTANTS a, b, w1, w2, main

TwoWorkers == {w1, w2}
OneThread == {a}
OtherThread == {b}
TwoThreads == {a, b}
NoHelper == {}

\* Reads with a deadline, as with exe.dev, and guests with child processes.
Calm == [overlap |-> FALSE, timed |-> TRUE, faults |-> FALSE,
         interrupts |-> FALSE, children |-> TRUE]

\* Everything at once, with no deadline.
Rough == [overlap |-> TRUE, timed |-> FALSE, faults |-> TRUE,
          interrupts |-> TRUE, children |-> FALSE]

BothSettings == {Calm, Rough}
=============================================================================
