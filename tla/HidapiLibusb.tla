---------------------------- MODULE HidapiLibusb ----------------------------
(***************************************************************************)
(* hidapi/libusb/hid.c: the read thread hands one interrupt transfer to    *)
(* libusb again and again; its callback queues the reports, hid_read takes *)
(* them, and hid_close has the thread end before it frees the transfer.    *)
(*                                                                         *)
(* libusb, as the code uses it: a transfer that is done stays in flight    *)
(* until someone who handles the events of usb_context has called its      *)
(* callback, and libusb_cancel_transfer succeeds only on a transfer that   *)
(* is not done and not cancelled yet.  libusb_handle_events calls some     *)
(* callbacks or none, and returns.  The application handles events too, in *)
(* its control transfers; the read threads of other open devices, which    *)
(* would share usb_context, are left out: a program of the library holds   *)
(* one handle at a time.                                                   *)
(***************************************************************************)
EXTENDS HidapiDevice

VARIABLES transfer,    \* dev->transfer: not in flight, in flight, or done in one way or another
          deaf,        \* history: the first submission failed, or libusb_handle_events did for good
          missed,      \* history: the transfer was done outside the thread's libusb_handle_events, not called since
          interrupted, \* history: the transfer was done, and the thread's last libusb_handle_events did not call it back
          failed       \* history: libusb_submit_transfer or libusb_handle_events failed with the device there

own == <<transfer, deaf, missed, interrupted, failed>>

Done == {"completed", "cancelled", "gone", "timedout"}
Reading == {"enters", "tests", "sleeps", "waits", "woken"}

TypeOK == /\ CommonTypeOK /\ deaf \in BOOLEAN /\ missed \in BOOLEAN
          /\ interrupted \in BOOLEAN /\ failed \in BOOLEAN
          /\ transfer \in {"none", "idle", "submitted"} \cup Done
          /\ pc.app \in {"closed", "opening", "open", "transfers", "queues", "resubmits", "cancels", "joins"} \cup Reading
          /\ pc.thread \in {"none", "starts", "arrives", "loop", "events", "queues", "resubmits", "cancels", "last", "broadcasts", "ends"}

Init == CommonInit /\ transfer = "none" /\ deaf = FALSE /\ missed = FALSE
        /\ interrupted = FALSE /\ failed = FALSE
-----------------------------------------------------------------------------
\* hid_open_path, once the interface is claimed; one that fails leaves nothing behind
HidOpenPath == /\ pc.app = "closed" /\ plugged
               /\ pc' = [app |-> "opening", thread |-> "starts"]
               /\ shutdown_thread' = FALSE /\ transfer' = "idle" /\ result' = Timeout
               /\ deaf' = FALSE /\ missed' = FALSE /\ interrupted' = FALSE /\ failed' = FALSE
               /\ UNCHANGED <<mode, last, reports, plugged, sent, os>>

\* read_thread: what the first submission returns is not looked at
ThreadStarts == /\ pc.thread = "starts" /\ Thread("arrives")
                /\ \/ plugged /\ transfer' = "submitted" /\ UNCHANGED deaf
                   \/ transfer' = "idle" /\ deaf' = TRUE
                /\ UNCHANGED <<mode, result, last, reports, shutdown_thread, plugged, sent, os, missed, interrupted, failed>>

\* pthread_barrier_wait of both
Barrier == /\ pc.thread = "arrives" /\ pc.app = "opening"
           /\ pc' = [app |-> "open", thread |-> "loop"]
           /\ UNCHANGED <<mode, result, last, reports, shutdown_thread, plugged, sent, os, own>>

ThreadTests == /\ pc.thread = "loop" /\ Thread(IF shutdown_thread THEN "cancels" ELSE "events")
               /\ missed' = (missed /\ shutdown_thread) /\ interrupted' = (interrupted /\ shutdown_thread)
               /\ UNCHANGED <<mode, result, last, reports, shutdown_thread, plugged, sent, os, transfer, deaf, failed>>

\* libusb calls read_callback, from libusb_handle_events of the read thread or from a
\* control transfer of the application.
CalledBack(t) == /\ pc[t] \in {"events", "last", "transfers"}
                 /\ transfer' = "idle" /\ missed' = FALSE /\ interrupted' = FALSE
                 /\ UNCHANGED <<mode, result, last, plugged, sent, deaf, failed>>

\* A report ...
HandlesReport(t) == /\ CalledBack(t) /\ transfer = "completed" /\ pc' = [pc EXCEPT ![t] = "queues"]
                    /\ UNCHANGED <<reports, os, shutdown_thread>>

\* ..., for which it takes the mutex, ...
Queues(t) == /\ pc[t] = "queues" /\ Unlocked
             /\ reports' = Queued(reports, Head(os)) /\ os' = <<>>
             /\ pc' = [pc EXCEPT !.app = IF reports = <<>> THEN Woken ELSE @, ![t] = "resubmits"]
             /\ UNCHANGED <<mode, result, last, shutdown_thread, plugged, sent, own>>

\* ... the end of a transfer that was cancelled or whose device is gone ...
HandlesEnd(t) == /\ CalledBack(t) /\ transfer \in {"cancelled", "gone"} /\ shutdown_thread' = TRUE
                 /\ UNCHANGED <<pc, reports, os>>

\* Faulty: a transfer that timed out ends the thread.
EndsOnTimeOut(t) == /\ CalledBack(t) /\ transfer = "timedout" /\ shutdown_thread' = TRUE
                    /\ UNCHANGED <<pc, reports, os>>

\* ... or its time-out, or an end with a code the callback does not know
HandlesTimeOut(t) == /\ CalledBack(t) /\ transfer = "timedout" /\ pc' = [pc EXCEPT ![t] = "resubmits"]
                     /\ UNCHANGED <<reports, os, shutdown_thread>>

\* the end of read_callback, and back to who called it; libusb may refuse the transfer
Resubmits(t) == /\ pc[t] = "resubmits" /\ pc' = [pc EXCEPT ![t] = IF t = "app" THEN "transfers" ELSE "events"]
                /\ \/ plugged /\ transfer' = "submitted" /\ UNCHANGED <<shutdown_thread, failed>>
                   \/ transfer' = "idle" /\ shutdown_thread' = TRUE /\ failed' = (failed \/ plugged)
                /\ UNCHANGED <<mode, result, last, reports, plugged, sent, os, deaf, missed, interrupted>>

\* libusb_handle_events returns; what the last one returns is not looked at.
EventsReturn == /\ \/ pc.thread = "events" /\ Thread("loop")
                   \/ pc.thread = "last" /\ Thread("broadcasts")
                /\ interrupted' = (transfer \in Done)
                /\ UNCHANGED <<mode, result, last, reports, shutdown_thread, plugged, sent, os, transfer, deaf, missed, failed>>

\* It returns with a fatal error: the loop is left, and no flag says so.
FatalError == /\ pc.thread = "events" /\ Thread("cancels") /\ deaf' = TRUE
              /\ failed' = (failed \/ plugged) /\ interrupted' = (transfer \in Done)
              /\ UNCHANGED <<mode, result, last, reports, shutdown_thread, plugged, sent, os, transfer, missed>>

\* Faulty: the cancelled transfer is not waited for.
CancelsOnly == /\ pc.thread = "cancels" /\ Thread("broadcasts")
               /\ transfer' = IF transfer = "submitted" THEN "cancelled" ELSE transfer
               /\ UNCHANGED <<mode, result, last, reports, shutdown_thread, plugged, sent, os, deaf, missed, interrupted, failed>>

\* The loop has ended.
ThreadCancels == /\ pc.thread = "cancels"
                 /\ \/ transfer = "submitted" /\ transfer' = "cancelled" /\ Thread("last")
                    \/ transfer # "submitted" /\ Thread("broadcasts") /\ UNCHANGED transfer
                 /\ UNCHANGED <<mode, result, last, reports, shutdown_thread, plugged, sent, os, deaf, missed, interrupted, failed>>

\* Faulty: the mutex is not taken for the broadcast.
BroadcastsUnlocked == /\ pc.thread = "broadcasts"
                      /\ pc' = [app |-> Woken, thread |-> "ends"]
                      /\ UNCHANGED <<mode, result, last, reports, shutdown_thread, plugged, sent, os, own>>

Broadcasts == /\ pc.thread = "broadcasts" /\ Unlocked
              /\ pc' = [app |-> Woken, thread |-> "ends"]
              /\ UNCHANGED <<mode, result, last, reports, shutdown_thread, plugged, sent, os, own>>
-----------------------------------------------------------------------------
\* hid_read_timeout; it takes the mutex, also after pthread_cond_wait
Locks == /\ pc.app \in {"enters", "woken"} /\ App("tests")
         /\ UNCHANGED <<mode, result, last, reports, shutdown_thread, plugged, sent, os, own>>

Tests == /\ pc.app = "tests"
         /\ IF reports # <<>> THEN ReturnsData
            ELSE IF shutdown_thread THEN Returns(Error)
            ELSE IF mode = "polling" THEN Returns(Timeout)
            ELSE App("sleeps") /\ UNCHANGED <<result, last, reports>>
         /\ UNCHANGED <<mode, shutdown_thread, plugged, sent, os, own>>

Waits == /\ pc.app = "sleeps" /\ App("waits")
         /\ UNCHANGED <<mode, result, last, reports, shutdown_thread, plugged, sent, os, own>>

WakesUp == /\ pc.app = "waits" /\ App("woken")        \* spurious
           /\ UNCHANGED <<mode, result, last, reports, shutdown_thread, plugged, sent, os, own>>

Expires == /\ pc.app = "waits" /\ mode = "timed" /\ Returns(Timeout)
           /\ UNCHANGED <<mode, shutdown_thread, plugged, sent, os, own>>

\* hid_send_feature_report and hid_get_feature_report: libusb_control_transfer handles
\* events until it is done or 1 s is over.
HidFeature == /\ pc.app = "open" /\ App("transfers")
              /\ UNCHANGED <<mode, result, last, reports, shutdown_thread, plugged, sent, os, own>>

TransferEnds == /\ pc.app = "transfers" /\ App("open")
                /\ UNCHANGED <<mode, result, last, reports, shutdown_thread, plugged, sent, os, own>>

\* hid_close, which the application does not call during another call
HidClose == /\ pc.app = "open" /\ App("cancels") /\ shutdown_thread' = TRUE
            /\ UNCHANGED <<mode, result, last, reports, plugged, sent, os, own>>

CloseCancels == /\ pc.app = "cancels" /\ App("joins")
                /\ transfer' = IF transfer = "submitted" THEN "cancelled" ELSE transfer
                /\ missed' = (missed \/ (transfer = "submitted" /\ pc.thread # "events"))
                /\ UNCHANGED <<mode, result, last, reports, shutdown_thread, plugged, sent, os, deaf, interrupted, failed>>

\* after pthread_join
CloseFrees == /\ pc.app = "joins" /\ pc.thread = "ends"
              /\ pc' = [app |-> "closed", thread |-> "none"] /\ transfer' = "none" /\ reports' = <<>> /\ os' = <<>>
              /\ UNCHANGED <<mode, result, last, shutdown_thread, plugged, sent, deaf, missed, interrupted, failed>>
-----------------------------------------------------------------------------
\* The system and the device end the transfer.
DeviceSends == /\ transfer = "submitted" /\ Sends /\ transfer' = "completed"
               /\ missed' = (pc.thread # "events")
               /\ UNCHANGED <<pc, mode, result, last, reports, shutdown_thread, plugged, deaf, interrupted, failed>>

Silence == /\ transfer = "submitted" /\ transfer' = "timedout"
           /\ missed' = (pc.thread # "events")
           /\ UNCHANGED <<common, deaf, interrupted, failed>>

Unplug == /\ plugged /\ plugged' = FALSE
          /\ transfer' = IF transfer = "submitted" THEN "gone" ELSE transfer
          /\ missed' = (missed \/ (transfer = "submitted" /\ pc.thread # "events"))
          /\ UNCHANGED <<pc, mode, result, last, reports, shutdown_thread, sent, os, deaf, interrupted, failed>>

PlugIn == Plug /\ UNCHANGED <<pc, mode, result, last, reports, shutdown_thread, sent, os, own>>

HidRead == \E m \in Modes : Calls(m) /\ UNCHANGED <<result, last, reports, shutdown_thread, plugged, sent, os, own>>

Handles(t) == HandlesReport(t) \/ HandlesEnd(t) \/ HandlesTimeOut(t)
ReadThread == ThreadStarts \/ ThreadTests \/ Queues("thread") \/ Resubmits("thread") \/ EventsReturn \/ ThreadCancels \/ Broadcasts
InCall == Barrier \/ Locks \/ Tests \/ Waits \/ TransferEnds \/ Queues("app") \/ Resubmits("app")
          \/ CloseCancels \/ CloseFrees
Others == HidOpenPath \/ HidRead \/ HidFeature \/ HidClose \/ WakesUp \/ Expires \/ FatalError
          \/ DeviceSends \/ Silence \/ Unplug \/ PlugIn

Next == (\E t \in DOMAIN pc : Handles(t)) \/ ReadThread \/ InCall \/ Others
-----------------------------------------------------------------------------
\* The properties are named and commented in HidapiBackends.
CloseSafe == pc.app = "joins" /\ pc.thread = "ends" => transfer = "idle" \/ missed \/ interrupted
MustReturn == pc.app \in Reading /\ mode = "blocking" /\ (reports # <<>> \/ ~plugged) /\ ~deaf
MayFail == ~plugged \/ failed
=============================================================================
