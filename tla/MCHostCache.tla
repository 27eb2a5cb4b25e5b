----------------------------- MODULE MCHostCache -----------------------------
(***************************************************************************)
(* Any client of the library, and the programs, with two stations that the *)
(* system may show in either order.  One has a serial number like that of  *)
(* the repository's firmware, too large for a long of 32 bits; the lists   *)
(* make one id of two, or name the slot after the last.                    *)
(***************************************************************************)
EXTENDS HostPrograms
CONSTANTS d1, d2
SerialNumbers == d1 :> 200000 @@ d2 :> 100000
Lists == {<<1>>, <<1, 0>>, <<0, 1>>, <<2>>}

\* What SetsThoseNamed asks of the constants can be had, and is had here.
ASSUME InstanceAssumption == NumbersApart

Symmetry == Permutations(Paths) \cup Permutations(Handles)
=============================================================================
