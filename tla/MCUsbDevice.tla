----------------------------- MODULE MCUsbDevice -----------------------------
(***************************************************************************)
(* UsbDevice with packets of two bytes, a status time-out of one frame and *)
(* the transfers that can hang a host: a write of two packets, a read ended*)
(* by a zero-length packet, a request nobody claims.  A host makes one of  *)
(* them, again and again; Ep0Control has them mixed.                       *)
(***************************************************************************)
EXTENDS UsbDevice

Asks(kind, has, asks, val) == [kind |-> kind, has |-> has, asks |-> asks, val |-> val]
Transfers == { Asks("write", 0, 3, 0), Asks("read", 2, 3, 0), Asks("unknown", 0, 0, 0) }
Repertoires == { {r} : r \in Transfers }
=============================================================================
