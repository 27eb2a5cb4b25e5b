----------------------------- MODULE HidapiLinux -----------------------------
(***************************************************************************)
(* hidapi/linux/hid.c: no thread and no queue, the hidraw driver has the   *)
(* reports.  A time-out is left to poll, a blocking read to read.          *)
(* The number of bytes of a report is left out, and with it the byte that  *)
(* is chopped off for the kernels before 2.6.34.                           *)
(***************************************************************************)
EXTENDS HidapiDevice

VARIABLE failed    \* history: poll or read failed with the device there, in the call made last

Reading == {"enters", "reads"}

TypeOK == CommonTypeOK /\ failed \in BOOLEAN /\ reports = <<>> /\ pc.app \in {"closed", "open"} \cup Reading /\ pc.thread = "none"

Init == CommonInit /\ failed = FALSE
-----------------------------------------------------------------------------
HidOpenPath == /\ pc.app = "closed" /\ plugged /\ App("open") /\ result' = Timeout
               /\ UNCHANGED <<mode, last, reports, shutdown_thread, plugged, sent, os, failed>>

\* poll: there is a report, the time is over, the device is gone, or the call failed,
\* as it does when a signal interrupts it
Polls == /\ pc.app = "enters"
         /\ \/ (os # <<>> \/ mode = "blocking") /\ App("reads") /\ failed' = FALSE /\ UNCHANGED result
            \/ /\ mode # "blocking" /\ os = <<>> /\ App("open") /\ failed' = FALSE
               /\ result' = (IF plugged THEN Timeout ELSE Error)
            \/ mode # "blocking" /\ plugged /\ App("open") /\ failed' = TRUE /\ result' = Error
         /\ UNCHANGED <<mode, last, reports, shutdown_thread, plugged, sent, os>>

\* read: the oldest report, the end of the device, or a failure of the call
Reads == /\ pc.app = "reads" /\ App("open")
         /\ \/ os # <<>> /\ result' = Head(os) /\ last' = Head(os) /\ os' = Tail(os) /\ UNCHANGED failed
            \/ os = <<>> /\ ~plugged /\ result' = Error /\ UNCHANGED <<last, os, failed>>
            \/ os = <<>> /\ plugged /\ failed' = TRUE /\ result' = Error /\ UNCHANGED <<last, os>>
         /\ UNCHANGED <<mode, reports, shutdown_thread, plugged, sent>>

HidClose == /\ pc.app = "open" /\ App("closed") /\ os' = <<>>
            /\ UNCHANGED <<mode, result, last, reports, shutdown_thread, plugged, sent, failed>>

DeviceSends == pc.app # "closed" /\ Sends /\ UNCHANGED <<pc, mode, result, last, reports, shutdown_thread, plugged, failed>>

Unplug == plugged /\ plugged' = FALSE /\ UNCHANGED <<pc, mode, result, last, reports, shutdown_thread, sent, os, failed>>

PlugIn == Plug /\ UNCHANGED <<pc, mode, result, last, reports, shutdown_thread, sent, os, failed>>

HidRead == \E m \in Modes : Calls(m) /\ UNCHANGED <<result, last, reports, shutdown_thread, plugged, sent, os, failed>>

InCall == Polls \/ Reads
Others == HidOpenPath \/ HidRead \/ HidClose \/ DeviceSends \/ Unplug \/ PlugIn
Next == InCall \/ Others
-----------------------------------------------------------------------------
\* The properties are named and commented in HidapiBackends.
MustReturn == pc.app \in Reading /\ mode = "blocking" /\ (os # <<>> \/ ~plugged)
MayFail == ~plugged \/ failed
=============================================================================
