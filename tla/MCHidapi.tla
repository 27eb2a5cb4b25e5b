------------------------------- MODULE MCHidapi -------------------------------
(***************************************************************************)
(* The four backends, each with one device that sends four reports; a      *)
(* queue of three reports is full (30 and 32 in the code).                 *)
(***************************************************************************)
EXTENDS HidapiBackends
=============================================================================
