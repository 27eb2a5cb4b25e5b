----------------------------- MODULE HostHiddata -----------------------------
(***************************************************************************)
(* The library built over hiddata.c instead of hidapi                      *)
(* (cstbase-lib-lowlevel-hiddata.h): one handle, static_dev, which is not  *)
(* set back when it is closed and is returned by an open that fails too.   *)
(* Path and serial number are not looked at, and no slot is filled.        *)
(***************************************************************************)
EXTENDS HostCache

VARIABLE static_dev

\* usbhidOpenDevice: the first station that can be opened, in the order of the busses
UsbhidOpens == \/ \E d \in Plugged, h \in Handles \ Open :
                     of' = [of EXCEPT ![h] = d] /\ static_dev' = h
               \/ UNCHANGED <<of, static_dev>>

\* cstbase_open, which openByPath, openBySerial and openById come down to
HiddataOpens == UsbhidOpens /\ UNCHANGED <<system, alive, cache, call, current, listed>>

\* usb_close; what follows from closing a closed handle is not known.
Closing(h) == alive' \in IF h \in Open \cup {None} THEN {TRUE} ELSE BOOLEAN

HiddataCloses(h) == /\ of' = [g \in Handles |-> IF g = h THEN None ELSE of[g]]
                    /\ Closing(h)
                    /\ UNCHANGED <<system, cache, call, current, listed, static_dev>>

\* cstbase_enumerate opens a station, if it can, and closes static_dev.
HiddataEnumerates ==
    /\ \/ Plugged # {} /\ static_dev' \in Handles \ Open /\ alive' = TRUE
       \/ UNCHANGED static_dev /\ Closing(static_dev)
    /\ cstbase_cached_count' = IF static_dev' = None THEN 0 ELSE 1
    /\ current' = TRUE
    /\ UNCHANGED <<system, cstbase_infos, call, of, listed>>
=============================================================================
