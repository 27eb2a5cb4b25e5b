--------------------------- MODULE MCChargeControl ---------------------------
(***************************************************************************)
(* ChargeControl, and FaithfulUpdate over it, with a counter of two bytes  *)
(* of few values each, so that the time-out lies behind the carry, as 500  *)
(* lies behind 256, and below the check, as 500 is below 1000.             *)
(***************************************************************************)
EXTENDS FaithfulUpdate
=============================================================================
