---------------------------- MODULE HidapiBackends ----------------------------
(***************************************************************************)
(* The four backends of hidapi, of which a build has one: the platform is  *)
(* chosen at the start, and what its backend does is the system.  All four *)
(* are held to the same properties and to the same ReportQueue.            *)
(***************************************************************************)
EXTENDS HidapiDevice

VARIABLES platform,
          transfer, deaf, missed, interrupted,                        \* HidapiLibusb
          disconnected, registered, signalled, count, spurious,      \* HidapiMac
          read_pending, io, event,                                    \* HidapiWindows
          failed                                                      \* all but HidapiMac

libusb  == <<transfer, deaf, missed, interrupted>>
mac     == <<disconnected, registered, signalled, count, spurious>>
windows == <<read_pending, io, event>>
vars    == <<platform, common, libusb, mac, windows, failed>>

L == INSTANCE HidapiLibusb
M == INSTANCE HidapiMac
W == INSTANCE HidapiWindows
X == INSTANCE HidapiLinux

Init == /\ platform \in {"libusb", "mac", "windows", "linux"}
        /\ L!Init /\ M!Init /\ W!Init /\ X!Init

Libusb  == platform = "libusb" /\ L!Next /\ UNCHANGED <<platform, mac, windows>>
Mac     == platform = "mac" /\ M!Next /\ UNCHANGED <<platform, libusb, windows, failed>>
Windows == platform = "windows" /\ W!Next /\ UNCHANGED <<platform, libusb, mac>>
Linux   == platform = "linux" /\ X!Next /\ UNCHANGED <<platform, libusb, mac, windows>>

Next == Libusb \/ Mac \/ Windows \/ Linux

\* Threads that can go on do, and a thread gets a mutex that is free again and
\* again; libusb_handle_events returns and, called again and again, calls the callback
\* of a transfer that is done.  The application need not call, nor the device send.
Fairness == /\ SF_vars(Libusb /\ L!Handles("thread")) /\ SF_vars(Libusb /\ L!EventsReturn)
            /\ SF_vars(Libusb /\ L!ReadThread) /\ WF_vars(Libusb /\ L!InCall)
            /\ SF_vars(Mac /\ M!ReadThread)    /\ WF_vars(Mac /\ M!InCall)
            /\ WF_vars(Windows /\ W!Ends)    /\ WF_vars(Windows /\ W!InCall)
            /\ WF_vars(Linux /\ X!InCall)

Spec == Init /\ [][Next]_vars /\ Fairness
-----------------------------------------------------------------------------
TypeOK == CASE platform = "libusb"  -> L!TypeOK
            [] platform = "mac"     -> M!TypeOK
            [] platform = "windows" -> W!TypeOK
            [] platform = "linux"   -> X!TypeOK

\* Reports are read in the order they were sent and none twice, by four different
\* ways of waiting for them; one is lost only to a full queue or to hid_close, not
\* to a time-out, a wake-up with no cause or a report that comes between the test
\* and the wait.
Queue == INSTANCE ReportQueue WITH queue <- reports \o os, Least <- Limit + 2
ImplementsQueue == Queue!Spec

\* A read that returns -1 has a cause: the device is gone, or a call of the system
\* failed with the device there, in this read (linux, windows) or since the device
\* was opened (libusb: a submission, or libusb_handle_events for good).  Silence, a
\* time-out, a wake-up with no cause, a read left over from an earlier call and a
\* transfer that timed out are none.
FailsOnlyForCause ==
    pc.app = "open" /\ result = Error => CASE platform = "libusb" -> L!MayFail [] platform = "mac" -> M!MayFail
                        [] platform = "windows" -> W!MayFail [] platform = "linux" -> X!MayFail

\* What hid_close frees, or uses last, is not in use, or no longer there, but in the
\* ways named here.  libusb: when the transfer is freed it is not in flight, unless it
\* was done (a report, a time-out, hid_close's own cancellation) after the read thread's
\* last libusb_handle_events (missed), or this one returned without its callback, as
\* also the one may that waits for the thread's own cancellation (interrupted).  Mac:
\* the run loop that is woken up exists, unless pthread_cond_wait returned with no
\* signal in the barrier, which has no loop (spurious).  Windows, which frees without
\* waiting for the read it cancels: there is one only if the last read had timed out.
CloseSafe == CASE platform = "libusb"  -> L!CloseSafe
               [] platform = "mac"     -> M!CloseSafe
               [] platform = "windows" -> W!CloseSafe
               [] OTHER -> TRUE

\* A read that blocks returns when there is a report or the device is gone, and
\* hid_close returns: no wake-up is lost between the two threads.  Not so if libusb
\* refused the first transfer or failed for good, which the code does not record.
MustReturn == CASE platform = "libusb" -> L!MustReturn [] platform = "mac" -> M!MustReturn
                [] platform = "windows" -> W!MustReturn [] platform = "linux" -> X!MustReturn
CallsReturn == /\ MustReturn ~> pc.app = "open" \/ deaf
               /\ pc.app \in {"cancels", "flags", "joins", "frees"} ~> pc.app = "closed"
=============================================================================
