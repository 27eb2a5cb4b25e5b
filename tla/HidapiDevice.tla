---------------------------- MODULE HidapiDevice ----------------------------
(***************************************************************************)
(* An open hid_device of hidapi as its four backends have it in common:    *)
(* the calls of the application, which are made by one thread, the device  *)
(* with its input reports, numbered as they are sent, and the read thread  *)
(* that two of the backends start.                                         *)
(*                                                                         *)
(* A mutex is held only between two labels of the application: the         *)
(* critical sections of the read thread are single steps.                  *)
(***************************************************************************)
EXTENDS Integers, Sequences

CONSTANTS Limit,       \* 30 in the code: links counted in the list of reports
          Reports,     \* bound: reports the device sends
          Pending      \* bound: reports the system holds

ASSUME DeviceAssumption == Limit \in Nat /\ Reports \in Nat /\ Pending \in Nat \ {0}

VARIABLES pc,               \* where the application and the read thread are
          mode,             \* of the call of hid_read_timeout: its time-out
          result,           \* what it returned last: a report, Timeout or Error
          last,             \* history: the report returned last
          reports,          \* input_reports; read_buf on Windows
          shutdown_thread,
          plugged, sent,    \* the device, and the number of reports it has sent
          os                \* reports the system has and the library not yet

common == <<pc, mode, result, last, reports, shutdown_thread, plugged, sent, os>>

Modes   == {"blocking", "timed", "polling"}
Timeout == 0
Error   == -1

CommonTypeOK == /\ mode \in Modes /\ result \in -1..Reports /\ last \in 0..Reports
                /\ shutdown_thread \in BOOLEAN /\ plugged \in BOOLEAN /\ sent \in 0..Reports
                /\ os \in Seq(1..sent) /\ reports \in Seq(1..sent)
                /\ Len(os) <= Pending /\ Len(reports) <= Limit + 2

CommonInit == /\ pc = [app |-> "closed", thread |-> "none"] /\ mode = "blocking"
              /\ result = Timeout /\ last = 0 /\ reports = <<>> /\ shutdown_thread = FALSE
              /\ plugged = TRUE /\ sent = 0 /\ os = <<>>

App(label)    == pc' = [pc EXCEPT !.app = label]
Thread(label) == pc' = [pc EXCEPT !.thread = label]

\* dev->mutex
Unlocked == pc.app \notin {"tests", "sleeps"}

\* pthread_cond_signal and pthread_cond_broadcast: the application, if it waits
Woken == IF pc.app = "waits" THEN "woken" ELSE pc.app

\* Faulty: the list grows while nobody reads.
QueuedAll(list, report) == Append(list, report)

\* The list of the callbacks: num_queued counts the links of the list.
Queued(list, report) == IF Len(list) - 1 > Limit THEN Append(Tail(list), report) ELSE Append(list, report)

\* The device sends a report when the system asks for one.
Sends == plugged /\ sent < Reports /\ Len(os) < Pending /\ sent' = sent + 1 /\ os' = Append(os, sent + 1)

\* Plugged in again it is another device: the old one is closed first.
Plug == ~plugged /\ pc.app = "closed" /\ plugged' = TRUE

Calls(m) == pc.app = "open" /\ App("enters") /\ mode' = m

\* hid_read_timeout returns with no report
Returns(r) == App("open") /\ result' = r /\ UNCHANGED <<last, reports>>

\* return_data, and hid_read_timeout returns
ReturnsData == App("open") /\ result' = Head(reports) /\ last' = Head(reports) /\ reports' = Tail(reports)
=============================================================================
