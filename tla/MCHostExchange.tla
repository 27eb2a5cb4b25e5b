---------------------------- MODULE MCHostExchange ----------------------------
(***************************************************************************)
(* HostExchange with two processes, which are interchangeable; the bytes   *)
(* are 0 and the one that reads -1, and a time is no answer to a question. *)
(***************************************************************************)
EXTENDS HostExchange, TLC
FewTimes == {<<200, 30>>}
Symmetry == Permutations(Processes)
=============================================================================
