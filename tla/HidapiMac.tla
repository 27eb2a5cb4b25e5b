------------------------------ MODULE HidapiMac ------------------------------
(***************************************************************************)
(* hidapi/mac/hid.c: the read thread runs a run loop that calls the report *)
(* and the removal callback, and meets the application at two barriers:    *)
(* after its start, and at its end, so that hid_close finds a run loop to  *)
(* wake up.  The barrier is the one the file defines, which waits on its   *)
(* condition with no loop.                                                 *)
(*                                                                         *)
(* The run loop never finishes by itself: its mode holds dev->source.      *)
(***************************************************************************)
EXTENDS HidapiDevice

VARIABLES disconnected,
          registered,      \* the callbacks are registered and the device is scheduled with the thread's run loop
          signalled,       \* dev->source
          count,           \* of each barrier
          spurious         \* history: pthread_barrier_wait returned before the other side came

own == <<disconnected, registered, signalled, count, spurious>>

Barriers == {"start", "shutdown"}
Reading == {"enters", "tests", "sleeps", "waits", "woken"}

\* the labels of a barrier: on arrival, waiting, and behind it
Arrives == [start |-> [app |-> "opening", thread |-> "arrives"], shutdown |-> [app |-> "meets", thread |-> "meets"]]
Stays   == [start |-> [app |-> "atStart", thread |-> "atStart"], shutdown |-> [app |-> "atEnd", thread |-> "atEnd"]]
Passes  == [start |-> [app |-> "open", thread |-> "loop"], shutdown |-> [app |-> "joins", thread |-> "ends"]]
Other   == [app |-> "thread", thread |-> "app"]

TypeOK == /\ CommonTypeOK
          /\ disconnected \in BOOLEAN /\ registered \in BOOLEAN /\ signalled \in BOOLEAN
          /\ count \in [Barriers -> 0..1] /\ spurious \in BOOLEAN
          /\ pc.app \in {"closed", "opening", "atStart", "open", "flags", "signals", "wakes", "meets", "atEnd", "joins"} \cup Reading
          /\ pc.thread \in {"none", "starts", "arrives", "atStart", "loop", "runs", "stopped", "broadcasts", "meets", "atEnd", "ends"}

Init == /\ CommonInit /\ disconnected = FALSE /\ registered = FALSE /\ signalled = FALSE
        /\ count = [b \in Barriers |-> 0] /\ spurious = FALSE
-----------------------------------------------------------------------------
\* The first to come waits, the second sets the count back and wakes the first.
BarrierWait(b, t) ==
    /\ pc[t] = Arrives[b][t]
    /\ IF count[b] = 1
       THEN /\ count' = [count EXCEPT ![b] = 0]
            /\ pc' = [u \in DOMAIN pc |-> IF u = t \/ pc[u] = Stays[b][u] THEN Passes[b][u] ELSE pc[u]]
       ELSE /\ count' = [count EXCEPT ![b] = 1]
            /\ pc' = [pc EXCEPT ![t] = Stays[b][t]]
    /\ UNCHANGED <<mode, result, last, reports, shutdown_thread, plugged, sent, os, disconnected, registered, signalled, spurious>>

\* pthread_cond_wait may return with no signal.
BarrierLeaks(b, t) ==
    /\ pc[t] = Stays[b][t] /\ pc' = [pc EXCEPT ![t] = Passes[b][t]] /\ spurious' = TRUE
    /\ UNCHANGED <<mode, result, last, reports, shutdown_thread, plugged, sent, os, disconnected, registered, signalled, count>>

\* hid_open_path, once IOHIDDeviceOpen has succeeded; one that fails leaves nothing behind
HidOpenPath == /\ pc.app = "closed" /\ plugged
               /\ pc' = [app |-> "opening", thread |-> "starts"]
               /\ shutdown_thread' = FALSE /\ disconnected' = FALSE /\ signalled' = FALSE /\ registered' = FALSE
               /\ count' = [b \in Barriers |-> 0] /\ spurious' = FALSE /\ result' = Timeout
               /\ UNCHANGED <<mode, last, reports, plugged, sent, os>>

\* read_thread: schedules the device, makes dev->source and dev->run_loop
ThreadStarts == /\ pc.thread = "starts" /\ Thread("arrives") /\ registered' = TRUE
                /\ UNCHANGED <<mode, result, last, reports, shutdown_thread, plugged, sent, os, disconnected, signalled, count, spurious>>

ThreadTests == /\ pc.thread = "loop" /\ Thread(IF shutdown_thread \/ disconnected THEN "broadcasts" ELSE "runs")
               /\ UNCHANGED <<mode, result, last, reports, shutdown_thread, plugged, sent, os, own>>

\* CFRunLoopRunInMode calls hid_report_callback ...
ReportCallback == /\ pc.thread = "runs" /\ registered /\ os # <<>> /\ Unlocked
                  /\ reports' = Queued(reports, Head(os)) /\ os' = Tail(os) /\ App(Woken)
                  /\ UNCHANGED <<mode, result, last, shutdown_thread, plugged, sent, own>>

\* ... hid_device_removal_callback, which stops the run loop ...
RemovalCallback == /\ pc.thread = "runs" /\ registered /\ ~plugged /\ ~disconnected
                   /\ disconnected' = TRUE /\ Thread("stopped")
                   /\ UNCHANGED <<mode, result, last, reports, shutdown_thread, plugged, sent, os, registered, signalled, count, spurious>>

\* ... and perform_signal_callback, which does too.
SignalCallback == /\ pc.thread = "runs" /\ signalled /\ signalled' = FALSE /\ Thread("stopped")
                  /\ UNCHANGED <<mode, result, last, reports, shutdown_thread, plugged, sent, os, disconnected, registered, count, spurious>>

\* kCFRunLoopRunStopped is taken for an error.
Stopped == /\ pc.thread = "stopped" /\ Thread("broadcasts") /\ shutdown_thread' = TRUE
           /\ UNCHANGED <<mode, result, last, reports, plugged, sent, os, own>>

\* 1000 s with nothing to do
RunsOut == /\ pc.thread = "runs" /\ ~signalled /\ (registered => os = <<>> /\ plugged) /\ Thread("loop")
           /\ UNCHANGED <<mode, result, last, reports, shutdown_thread, plugged, sent, os, own>>

Broadcasts == /\ pc.thread = "broadcasts" /\ Unlocked
              /\ pc' = [app |-> Woken, thread |-> "meets"]
              /\ UNCHANGED <<mode, result, last, reports, shutdown_thread, plugged, sent, os, own>>
-----------------------------------------------------------------------------
\* hid_read_timeout
Locks == /\ pc.app = "enters" /\ App("tests")
         /\ UNCHANGED <<mode, result, last, reports, shutdown_thread, plugged, sent, os, own>>

Tests == /\ pc.app = "tests"
         /\ IF reports # <<>> THEN ReturnsData
            ELSE IF disconnected \/ shutdown_thread THEN Returns(Error)
            ELSE IF mode = "polling" THEN Returns(Timeout)
            ELSE App("sleeps") /\ UNCHANGED <<result, last, reports>>
         /\ UNCHANGED <<mode, shutdown_thread, plugged, sent, os, own>>

Waits == /\ pc.app = "sleeps" /\ App("waits")
         /\ UNCHANGED <<mode, result, last, reports, shutdown_thread, plugged, sent, os, own>>

\* cond_wait and cond_timedwait: woken with the mutex, they look at the flags first
CondWait == /\ pc.app = "woken"
            /\ IF disconnected \/ shutdown_thread THEN Returns(Error)
               ELSE IF reports # <<>> THEN ReturnsData
               ELSE App("sleeps") /\ UNCHANGED <<result, last, reports>>
            /\ UNCHANGED <<mode, shutdown_thread, plugged, sent, os, own>>

WakesUp == /\ pc.app = "waits" /\ App("woken")        \* spurious
           /\ UNCHANGED <<mode, result, last, reports, shutdown_thread, plugged, sent, os, own>>

Expires == /\ pc.app = "waits" /\ mode = "timed" /\ Returns(Timeout)
           /\ UNCHANGED <<mode, shutdown_thread, plugged, sent, os, own>>

\* hid_close, which the application does not call during a read: the callbacks first
HidClose == /\ pc.app = "open" /\ App("flags")
            /\ registered' = (registered /\ disconnected)
            /\ UNCHANGED <<mode, result, last, reports, shutdown_thread, plugged, sent, os, disconnected, signalled, count, spurious>>

Flags == /\ pc.app = "flags" /\ App("signals") /\ shutdown_thread' = TRUE
         /\ UNCHANGED <<mode, result, last, reports, plugged, sent, os, own>>

Signals == /\ pc.app = "signals" /\ App("wakes") /\ signalled' = TRUE
           /\ UNCHANGED <<mode, result, last, reports, shutdown_thread, plugged, sent, os, disconnected, registered, count, spurious>>

\* CFRunLoopWakeUp of the thread's run loop
WakesLoop == /\ pc.app = "wakes" /\ App("meets")
             /\ UNCHANGED <<mode, result, last, reports, shutdown_thread, plugged, sent, os, own>>

\* after pthread_join
CloseFrees == /\ pc.app = "joins" /\ pc.thread = "ends"
              /\ pc' = [app |-> "closed", thread |-> "none"] /\ reports' = <<>> /\ os' = <<>>
              /\ UNCHANGED <<mode, result, last, shutdown_thread, plugged, sent, own>>
-----------------------------------------------------------------------------
DeviceSends == /\ registered /\ ~disconnected /\ Sends
               /\ UNCHANGED <<pc, mode, result, last, reports, shutdown_thread, plugged, own>>

Unplug == plugged /\ plugged' = FALSE /\ UNCHANGED <<pc, mode, result, last, reports, shutdown_thread, sent, os, own>>

PlugIn == Plug /\ UNCHANGED <<pc, mode, result, last, reports, shutdown_thread, sent, os, own>>

HidRead == \E m \in Modes : Calls(m) /\ UNCHANGED <<result, last, reports, shutdown_thread, plugged, sent, os, own>>

ReadThread == \/ ThreadStarts \/ ThreadTests \/ ReportCallback \/ RemovalCallback \/ SignalCallback
              \/ Stopped \/ RunsOut \/ Broadcasts \/ (\E b \in Barriers : BarrierWait(b, "thread"))
InCall == Locks \/ Tests \/ Waits \/ CondWait \/ Flags \/ Signals \/ WakesLoop \/ CloseFrees
          \/ (\E b \in Barriers : BarrierWait(b, "app"))
Others == HidOpenPath \/ HidRead \/ HidClose \/ WakesUp \/ Expires \/ DeviceSends \/ Unplug \/ PlugIn
          \/ (\E b \in Barriers, t \in DOMAIN pc : BarrierLeaks(b, t))

Next == ReadThread \/ InCall \/ Others
-----------------------------------------------------------------------------
\* The properties are named and commented in HidapiBackends.
CloseSafe == pc.app \in {"signals", "wakes"} => pc.thread \notin {"starts", "ends"} \/ spurious
MustReturn == pc.app \in Reading /\ mode = "blocking" /\ (reports # <<>> \/ ~plugged)
MayFail == ~plugged
=============================================================================
