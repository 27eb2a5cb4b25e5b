-------------------------- MODULE MCOriginalStation --------------------------
(***************************************************************************)
(* OriginalStation with the thresholds in the order of the firmware's and  *)
(* an int that no counter reaches the end of.                              *)
(***************************************************************************)
EXTENDS OriginalStation
=============================================================================
