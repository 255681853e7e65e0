--------------------------- MODULE MCConformance ---------------------------
(***************************************************************************)
(* Conformance with the arguments of benchmark_interpreter on both sides   *)
(* of its limits: 0 is refused, and 6 is more than the five runs that the  *)
(* large variable gets.                                                    *)
(***************************************************************************)
EXTENDS Conformance

Cold == {0, 1, 2}
Warm == {0, 1, 6}
=============================================================================
