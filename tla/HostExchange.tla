----------------------------- MODULE HostExchange -----------------------------
(***************************************************************************)
(* The exchanges of the host library with one station, cstbase-lib.c and   *)
(* cstbase-lib-lowlevel-hidapi.h, by several processes.  A command is one  *)
(* feature report; a question is the report, the same report once more,    *)
(* and the read of hid_send_buf, which every report fills anew             *)
(* (handleMessage in main.c).  The watch and the keys go on in between and *)
(* any call of hidapi may fail, a failed send after the station has        *)
(* handled it too.                                                         *)
(*                                                                         *)
(* Of a report only the command and bytes 3 and 4 matter.  The bytes of a  *)
(* command that go to the watch are in UartTx and ChargeControl.           *)
(***************************************************************************)
EXTENDS Integers

CONSTANTS Processes, Nobody,
          Bytes,        \* what the watch may send
          Ports,        \* what PORTA may hold
          Times,        \* bytes 3 and 4 of the commands 'T' and 'S'
          Failures      \* bound on the calls of hidapi that fail

ASSUME ExchangeAssumption ==
    /\ Nobody \notin Processes
    /\ Bytes \subseteq 0..255 /\ 0 \in Bytes
    /\ Ports \subseteq 0..127 /\ 0 \in Ports
    /\ Times \subseteq (0..255) \X (0..255)
    /\ Failures \in Nat

VARIABLES hid_send_buf, lastRxByte, PORTA,   \* the station
          pc, buf, rc,      \* of each process: place in the call, report, result of the last call
          failures,
          owner,            \* history: whose report was handled last
          held,             \* history: the answers a question could have had since it began
          outcome           \* history: how the last call of a process ended

vars == <<hid_send_buf, lastRxByte, PORTA, pc, buf, rc, failures, owner, held, outcome>>

Questions == {"R", "b", "v"}
Commands  == {"T", "S"}
Byte      == 0..255
Report    == [cmd : Questions \cup Commands \cup {"none"}, b3 : Byte, b4 : Byte]
\* (b3 - '0') * 100 + (b4 - '0') of signed chars
MinResult == (-128 - 48) * 101
MaxResult == (127 - 48) * 101

TypeOK == /\ hid_send_buf \in Report /\ lastRxByte \in Byte /\ PORTA \in Byte
          /\ pc \in [Processes -> {"idle", "write", "read", "get"}]
          /\ buf \in [Processes -> Report]
          /\ rc \in [Processes -> MinResult..MaxResult]
          /\ failures \in 0..Failures
          /\ owner \in Processes \cup {Nobody}
          /\ held \in [Processes -> SUBSET Byte]
          /\ outcome \in [Processes -> {"none", "done", "answered", "overtaken", "failed"}]

Init == /\ hid_send_buf = [cmd |-> "none", b3 |-> 0, b4 |-> 0]
        /\ lastRxByte = 0 /\ PORTA = 0
        /\ pc = [p \in Processes |-> "idle"]
        /\ buf = [p \in Processes |-> [cmd |-> "none", b3 |-> 0, b4 |-> 0]]
        /\ rc = [p \in Processes |-> 0]
        /\ failures = 0 /\ owner = Nobody
        /\ held = [p \in Processes |-> {}]
        /\ outcome = [p \in Processes |-> "none"]
-----------------------------------------------------------------------------
\* cstbase_ver_major and cstbase_ver_minor, the characters 1 and 1
Version == <<49, 49>>

\* Byte 3 of the answer to a question, as the station is now
Answer(cmd, rx, port) == CASE cmd = "R" -> rx [] cmd = "b" -> port [] OTHER -> Version[1]

\* handleMessage: the request is the answer, except for the bytes the question is about.
Handled(r) == IF r.cmd \notin Questions THEN r
              ELSE [cmd |-> r.cmd,
                    b3  |-> Answer(r.cmd, lastRxByte, PORTA),
                    b4  |-> IF r.cmd = "v" THEN Version[2] ELSE r.b4]

Handles(p) == hid_send_buf' = Handled(buf[p]) /\ owner' = p

\* hid_send_feature_report
Sends(p) == Handles(p) /\ UNCHANGED failures
FailsToSend(p) == /\ failures < Failures /\ failures' = failures + 1
                  /\ \/ Handles(p)
                     \/ UNCHANGED <<hid_send_buf, owner>>

\* Faulty: a char is taken to be unsigned.
AsByte(b) == b

\* A char of the host is signed.
AsChar(b) == IF b < 128 THEN b ELSE b - 256

\* What a question returns, from the report then in its buffer
Result(cmd, r) == CASE cmd = "R" -> AsChar(r.b3)
                    [] cmd = "b" -> AsChar(r.b3) \div 8
                    [] OTHER -> (AsChar(r.b3) - 48) * 100 + (AsChar(r.b4) - 48)
-----------------------------------------------------------------------------
Returns(p, r, how) == /\ pc' = [pc EXCEPT ![p] = "idle"]
                      /\ rc' = [rc EXCEPT ![p] = r]
                      /\ outcome' = [outcome EXCEPT ![p] = how]
                      /\ UNCHANGED <<buf, held>>

Continues(p, to) == pc' = [pc EXCEPT ![p] = to] /\ UNCHANGED <<buf, rc, held, outcome>>

\* cstbase_getByteFromWatch, getButtons, getVersion, setTimeTo, sendBytesToWatch
Call(p, cmd, t) ==
    /\ pc[p] = "idle"
    /\ pc' = [pc EXCEPT ![p] = "write"]
    /\ buf' = [buf EXCEPT ![p] = [cmd |-> cmd, b3 |-> t[1], b4 |-> t[2]]]
    /\ held' = [held EXCEPT ![p] = {Answer(cmd, lastRxByte, PORTA)}]
    /\ rc' = [rc EXCEPT ![p] = 0] /\ outcome' = [outcome EXCEPT ![p] = "none"]
    /\ UNCHANGED <<hid_send_buf, lastRxByte, PORTA, failures, owner>>

\* Faulty: the error of the first write is not looked at.
WritesOn(p) ==
    /\ pc[p] = "write"
    /\ Sends(p) \/ FailsToSend(p)
    /\ IF buf[p].cmd \in Questions THEN Continues(p, "read") ELSE Returns(p, 0, "done")
    /\ UNCHANGED <<lastRxByte, PORTA>>

\* cstbase_write
Write(p) ==
    /\ pc[p] = "write"
    /\ \/ Sends(p) /\ IF buf[p].cmd \in Questions THEN Continues(p, "read") ELSE Returns(p, 9, "done")
       \/ FailsToSend(p) /\ Returns(p, -1, "failed")
    /\ UNCHANGED <<lastRxByte, PORTA>>

\* cstbase_read sends the report once more, whether that fails or not, ...
ReadSends(p) == /\ pc[p] = "read"
                /\ Sends(p) \/ FailsToSend(p)
                /\ Continues(p, "get")
                /\ UNCHANGED <<lastRxByte, PORTA>>

\* ... and reads; a read that fails leaves 1 in rc, and the caller goes on.
ReadGets(p) ==
    /\ pc[p] = "get"
    /\ \/ /\ Returns(p, Result(buf[p].cmd, hid_send_buf), IF owner = p THEN "answered" ELSE "overtaken")
          /\ UNCHANGED failures
       \/ /\ failures < Failures /\ failures' = failures + 1
          /\ Returns(p, Result(buf[p].cmd, buf[p]), "failed")
    /\ UNCHANGED <<hid_send_buf, lastRxByte, PORTA, owner>>

\* The station: a byte from the watch (ISRCode), keys pressed and released
StationHas(rx, port) ==
    /\ lastRxByte' = rx /\ PORTA' = port
    /\ held' = [p \in Processes |-> IF pc[p] = "idle" THEN held[p] ELSE held[p] \cup {Answer(buf[p].cmd, rx, port)}]
    /\ UNCHANGED <<hid_send_buf, pc, buf, rc, failures, owner, outcome>>

WatchSends(b) == StationHas(b, PORTA)
KeysMove(k)   == StationHas(lastRxByte, k)

Next == \/ \E p \in Processes : \/ \E cmd \in Questions : Call(p, cmd, <<0, 0>>)
                                \/ \E cmd \in Commands, t \in Times : Call(p, cmd, t)
                                \/ Write(p) \/ ReadSends(p) \/ ReadGets(p)
        \/ \E b \in Bytes : WatchSends(b)
        \/ \E k \in Ports : KeysMove(k)

Spec == Init /\ [][Next]_vars
-----------------------------------------------------------------------------
\* The report whose answer byte is b
AnswerWith(cmd, b) == [cmd |-> cmd, b3 |-> b, b4 |-> IF cmd = "v" THEN Version[2] ELSE 0]

\* A question that reads before the report of another process reaches the station
\* returns what the station held at some moment of this call, whatever the reports
\* in between its own two did, and if its second send failed too: never the answer
\* of an earlier call or of another question.
AnswerInTime ==
    \A p \in Processes : outcome[p] = "answered" =>
        \E b \in held[p] : rc[p] = Result(buf[p].cmd, AnswerWith(buf[p].cmd, b))

\* A command or question returns -1 when its report did not reach the station for
\* all hidapi knows; then nothing is read.  Comment in cstbase_getByteFromWatch:
\* "rc is now last received byte, or error -1".
FailureReported == \A p \in Processes : outcome[p] = "failed" => rc[p] = -1
=============================================================================
