------------------------------ MODULE MCIPython ------------------------------
(***************************************************************************)
(* IPythonInterpreter on small instances: two executes, so that messages   *)
(* of an abandoned cell meet the next one, and several tool calls, so that *)
(* a request meets another one in the queue.  Guest threads and interrupts *)
(* together have one tool call less, guest threads alone have two.         *)
(***************************************************************************)
EXTENDS IPythonInterpreter

QuietGuest == [helpers |-> FALSE, interrupts |-> FALSE, unkillable |-> FALSE,
               tools |-> 3, messages |-> 3]
Helping == [helpers |-> TRUE, interrupts |-> FALSE, unkillable |-> FALSE,
            tools |-> 2, messages |-> 1]
Abandoned == [helpers |-> TRUE, interrupts |-> TRUE, unkillable |-> TRUE,
              tools |-> 1, messages |-> 2]

AllSettings == {QuietGuest, Helping, Abandoned}
=============================================================================
