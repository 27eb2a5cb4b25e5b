---------------------------- MODULE MCKeyHandler ----------------------------
(***************************************************************************)
(* KeyHandler with one repeat at each speed but the last and a window long *)
(* enough for two debounced presses to be counted.                         *)
(***************************************************************************)
EXTENDS KeyHandler
=============================================================================
