---------------------------- MODULE MCEp0Control ----------------------------
(***************************************************************************)
(* Ep0Control with packets of two bytes, so that a read or write of three  *)
(* takes two packets, as the nine bytes of a report take two of eight, and *)
(* a status time-out of two frames.                                        *)
(***************************************************************************)
EXTENDS Ep0Control

Asks(kind, has, asks, val) == [kind |-> kind, has |-> has, asks |-> asks, val |-> val]

\* a clamped read, a read ended by a zero-length packet, a write of two packets,
\* a configuration, an address, a request nobody claims
All == { Asks("read", 3, 2, 0), Asks("read", 2, 3, 0), Asks("write", 0, 3, 0),
         Asks("configure", 0, 0, 1), Asks("address", 0, 0, 2), Asks("unknown", 0, 0, 0) }

\* SET_ADDRESS, and a GET_DESCRIPTOR of string 1
Addressing == { Asks("address", 0, 0, 2), Asks("read", 3, 3, 1) }
=============================================================================
