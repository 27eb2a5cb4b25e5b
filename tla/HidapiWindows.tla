---------------------------- MODULE HidapiWindows ----------------------------
(***************************************************************************)
(* hidapi/windows/hid.c: no thread.  A read is an overlapped ReadFile that *)
(* goes on when hid_read_timeout returns without it, so that the next call *)
(* finds it.  The event is one that WaitForSingleObject resets.            *)
(*                                                                         *)
(* CancelIo asks the system to end the read and does not wait for it:      *)
(* hid_close may free read_buf before the system has let go of it.         *)
(***************************************************************************)
EXTENDS HidapiDevice

VARIABLES read_pending,
          io,            \* the overlapped read: none, under way, complete or failed
          event,         \* dev->ol.hEvent is signalled
          failed         \* history: the read started last failed with the device there

own == <<read_pending, io, event, failed>>
Reading == {"enters", "waits", "results"}

TypeOK == /\ CommonTypeOK /\ Len(reports) <= 1 /\ read_pending \in BOOLEAN /\ event \in BOOLEAN /\ failed \in BOOLEAN
          /\ io \in {"none", "pending", "complete", "failed"}
          /\ pc.app \in {"closed", "open", "frees"} \cup Reading /\ pc.thread = "none"

Init == CommonInit /\ read_pending = FALSE /\ io = "none" /\ event = FALSE /\ failed = FALSE
-----------------------------------------------------------------------------
\* hid_open_path: the handle and the capabilities; one that fails leaves nothing behind
HidOpenPath == /\ pc.app = "closed" /\ plugged /\ App("open") /\ result' = Timeout
               /\ read_pending' = FALSE /\ io' = "none" /\ event' = FALSE /\ failed' = FALSE
               /\ UNCHANGED <<mode, last, reports, shutdown_thread, plugged, sent, os>>

\* ReadFile: at once, later, or not at all
StartsRead == /\ pc.app = "enters" /\ ~read_pending
              /\ \/ /\ os # <<>> /\ reports' = <<Head(os)>> /\ os' = Tail(os)
                    /\ io' = "complete" /\ event' = TRUE
                 \/ os = <<>> /\ plugged /\ io' = "pending" /\ event' = FALSE /\ reports' = <<>> /\ UNCHANGED os
                 \/ io' = "none" /\ event' = FALSE /\ reports' = <<>> /\ UNCHANGED os
              /\ IF io' = "none"
                 THEN read_pending' = FALSE /\ failed' = plugged /\ App("open") /\ result' = Error
                 ELSE read_pending' = TRUE /\ failed' = FALSE /\ App("waits") /\ UNCHANGED result
              /\ UNCHANGED <<mode, last, shutdown_thread, plugged, sent>>

GoesOn == /\ pc.app = "enters" /\ read_pending /\ App("waits")
          /\ UNCHANGED <<mode, result, last, reports, shutdown_thread, plugged, sent, os, own>>

\* WaitForSingleObject, which a blocking read does not call
Signalled == /\ pc.app = "waits" /\ (event \/ mode = "blocking") /\ App("results")
             /\ event' = (event /\ mode = "blocking")
             /\ UNCHANGED <<mode, result, last, reports, shutdown_thread, plugged, sent, os, read_pending, io, failed>>

\* Faulty: the read that goes on is forgotten.
ExpiresForgetting == /\ pc.app = "waits" /\ mode # "blocking" /\ ~event
                     /\ Returns(Timeout) /\ read_pending' = FALSE
                     /\ UNCHANGED <<mode, shutdown_thread, plugged, sent, os, io, event, failed>>

Expires == /\ pc.app = "waits" /\ mode # "blocking" /\ ~event
           /\ Returns(Timeout)
           /\ UNCHANGED <<mode, shutdown_thread, plugged, sent, os, own>>

\* GetOverlappedResult waits for the end of the read.
Results == /\ pc.app = "results" /\ io \in {"complete", "failed"}
           /\ read_pending' = FALSE /\ io' = "none"
           /\ IF io = "complete" THEN ReturnsData ELSE Returns(Error)
           /\ UNCHANGED <<mode, shutdown_thread, plugged, sent, os, event, failed>>

\* CancelIo
HidClose == /\ pc.app = "open" /\ App("frees")
            /\ UNCHANGED <<mode, result, last, reports, shutdown_thread, plugged, sent, os, own>>

\* free_hid_device
CloseFrees == /\ pc.app = "frees" /\ App("closed")
              /\ io' = "none" /\ read_pending' = FALSE /\ event' = FALSE /\ reports' = <<>> /\ os' = <<>>
              /\ UNCHANGED <<mode, result, last, shutdown_thread, plugged, sent, failed>>
-----------------------------------------------------------------------------
\* The system completes the read, or fails it.
Completes == /\ io = "pending" /\ os # <<>>
             /\ reports' = <<Head(os)>> /\ os' = Tail(os) /\ io' = "complete" /\ event' = TRUE
             /\ UNCHANGED <<pc, mode, result, last, shutdown_thread, plugged, sent, read_pending, failed>>

Fails == /\ io = "pending" /\ os = <<>> /\ io' = "failed" /\ event' = TRUE /\ failed' = plugged
         /\ UNCHANGED <<pc, mode, result, last, reports, shutdown_thread, plugged, sent, os, read_pending>>

DeviceSends == pc.app # "closed" /\ Sends /\ UNCHANGED <<pc, mode, result, last, reports, shutdown_thread, plugged, own>>

Unplug == plugged /\ plugged' = FALSE /\ UNCHANGED <<pc, mode, result, last, reports, shutdown_thread, sent, os, own>>

PlugIn == Plug /\ UNCHANGED <<pc, mode, result, last, reports, shutdown_thread, sent, os, own>>

HidRead == \E m \in Modes : Calls(m) /\ UNCHANGED <<result, last, reports, shutdown_thread, plugged, sent, os, own>>

\* the end of a read that was cancelled
Cancels == /\ pc.app = "frees" /\ io = "pending" /\ io' = "failed" /\ event' = TRUE
           /\ UNCHANGED <<pc, mode, result, last, reports, shutdown_thread, plugged, sent, os, read_pending, failed>>

\* A report that is there, and the end of the device, end a read.
Ends == Completes \/ (~plugged /\ Fails)
InCall == StartsRead \/ GoesOn \/ Signalled \/ Results \/ CloseFrees
Others == HidOpenPath \/ HidRead \/ Expires \/ HidClose \/ Cancels \/ DeviceSends \/ Unplug \/ PlugIn
Next == Completes \/ Fails \/ InCall \/ Others
-----------------------------------------------------------------------------
\* The properties are named and commented in HidapiBackends.
CloseSafe == pc.app = "frees" /\ io = "pending" => result = Timeout
MustReturn == pc.app \in Reading /\ mode = "blocking" /\ (reports # <<>> \/ os # <<>> \/ ~plugged)
MayFail == ~plugged \/ failed
=============================================================================
