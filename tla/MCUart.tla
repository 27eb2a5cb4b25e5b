------------------------------- MODULE MCUart -------------------------------
(***************************************************************************)
(* UartRx, and UartTx in it, on three calls or commands of up to two       *)
(* bytes: enough for a command to fall into every step of a call of the    *)
(* main loop, and for the next call to meet both registers still full; and *)
(* with four bytes received, one more than fill the FIFO and overrun it.   *)
(***************************************************************************)
EXTENDS UartRx
=============================================================================
