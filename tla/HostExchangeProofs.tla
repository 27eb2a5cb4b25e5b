-------------------------- MODULE HostExchangeProofs --------------------------
(***************************************************************************)
(* For any number of processes, failures and bytes, a question that no     *)
(* other report overtakes is answered from its own call.                   *)
(***************************************************************************)
EXTENDS HostExchange, TLAPS

Asks(p) == pc[p] # "idle" /\ buf[p].cmd \in Questions

\* A question is sent with its answer bytes 0 ...
Blank == \A p \in Processes : Asks(p) => buf[p] = [cmd |-> buf[p].cmd, b3 |-> 0, b4 |-> 0]

\* ... and what the station would answer now is among what it could have answered.
Current == \A p \in Processes : pc[p] # "idle" => Answer(buf[p].cmd, lastRxByte, PORTA) \in held[p]

\* Past the first write, which did not fail, a buffer that is still this process's
\* was filled in this call.
FromThisCall == \A p \in Processes :
    pc[p] \in {"read", "get"} =>
       /\ buf[p].cmd \in Questions
       /\ owner = p => \E b \in held[p] : hid_send_buf = AnswerWith(buf[p].cmd, b)

IInv == TypeOK /\ Blank /\ Current /\ FromThisCall /\ AnswerInTime
-----------------------------------------------------------------------------
\* Both characters of the version are bytes.
LEMMA VersionTyped == Version[1] = 49 /\ Version[2] = 49
  BY DEF Version

\* What the station can answer is a byte.
LEMMA AnswerTyped ==
  ASSUME NEW cmd, NEW rx \in Byte, NEW port \in Byte PROVE Answer(cmd, rx, port) \in Byte
  BY VersionTyped DEF Answer, Byte

\* A handled report is a report, and a question's is filled with the answer.
LEMMA HandledTyped == ASSUME TypeOK, NEW r \in Report PROVE Handled(r) \in Report
  <1> DEFINE b3 == Answer(r.cmd, lastRxByte, PORTA)
             b4 == IF r.cmd = "v" THEN Version[2] ELSE r.b4
  <1>1. b3 \in Byte
    BY AnswerTyped DEF TypeOK
  <1>2. b4 \in Byte
    BY VersionTyped DEF Report, Byte
  <1>3. Handled(r) = IF r.cmd \notin Questions THEN r ELSE [cmd |-> r.cmd, b3 |-> b3, b4 |-> b4]
    BY DEF Handled
  <1> HIDE DEF b3, b4
  <1> QED  BY <1>1, <1>2, <1>3 DEF Report

\* The blank report of a question becomes its answer.
LEMMA HandledAnswers ==
  ASSUME NEW cmd \in Questions
  PROVE  Handled([cmd |-> cmd, b3 |-> 0, b4 |-> 0]) = AnswerWith(cmd, Answer(cmd, lastRxByte, PORTA))
  BY DEF Handled, AnswerWith

\* The range of the results, in numbers.
LEMMA Bounds == MinResult = -17776 /\ MaxResult = 7979
  BY DEF MinResult, MaxResult

\* What is made of two signed chars is in the range of the results.
LEMMA ResultRange ==
  ASSUME NEW x \in -128..127, NEW y \in -128..127, NEW v,
         v = x \/ v = x \div 8 \/ v = (x - 48) * 100 + (y - 48)
  PROVE  v \in MinResult..MaxResult
  <1>1. MinResult = -17776 /\ MaxResult = 7979
    BY Bounds
  <1>2. CASE v = x
    BY <1>1, <1>2
  <1>3. CASE v = x \div 8
    <2>1. x \div 8 \in Int /\ x \div 8 >= -128 /\ x \div 8 <= 127
      OBVIOUS
    <2> QED  BY ONLY <1>1, <1>3, <2>1
  <1>4. CASE v = (x - 48) * 100 + (y - 48)
    <2>1. x \in Int /\ -128 <= x /\ x <= 127 /\ y \in Int /\ -128 <= y /\ y <= 127
      OBVIOUS
    <2>2. v = 100 * x + y - 4848
      BY ONLY <1>4, <2>1
    <2> QED  BY ONLY <1>1, <2>1, <2>2
  <1> QED  BY <1>2, <1>3, <1>4

\* The result of any question read from any report is one of these.
LEMMA ResultTyped == ASSUME NEW cmd, NEW r \in Report PROVE Result(cmd, r) \in MinResult..MaxResult
  <1>1. AsChar(r.b3) \in -128..127 /\ AsChar(r.b4) \in -128..127
    BY DEF AsChar, Report, Byte
  <1>2. \/ Result(cmd, r) = AsChar(r.b3)
        \/ Result(cmd, r) = AsChar(r.b3) \div 8
        \/ Result(cmd, r) = (AsChar(r.b3) - 48) * 100 + (AsChar(r.b4) - 48)
    BY DEF Result
  <1> QED  BY <1>1, <1>2, ResultRange

-----------------------------------------------------------------------------
\* Nobody has called yet.
LEMMA Starts == Init => IInv
  BY ExchangeAssumption
  DEF Init, IInv, TypeOK, Blank, Current, FromThisCall, AnswerInTime, Asks, Report, Byte, MinResult, MaxResult

\* A report that is handled answers its own process, in this call, and takes the
\* buffer away from all others.
LEMMA HandlesKeeps ==
  ASSUME IInv, NEW p \in Processes, pc[p] # "idle", Handles(p)
  PROVE  /\ hid_send_buf' \in Report /\ owner' = p
         /\ buf[p].cmd \in Questions =>
              \E b \in held[p] : hid_send_buf' = AnswerWith(buf[p].cmd, b)
  <1>1. buf[p] \in Report
    BY DEF IInv, TypeOK
  <1>2. hid_send_buf' \in Report /\ owner' = p
    BY <1>1, HandledTyped DEF Handles, IInv
  <1>3. ASSUME buf[p].cmd \in Questions
        PROVE  hid_send_buf' = AnswerWith(buf[p].cmd, Answer(buf[p].cmd, lastRxByte, PORTA))
    <2>1. buf[p] = [cmd |-> buf[p].cmd, b3 |-> 0, b4 |-> 0]
      BY <1>3 DEF IInv, Blank, Asks
    <2>2. Handled(buf[p]) = AnswerWith(buf[p].cmd, Answer(buf[p].cmd, lastRxByte, PORTA))
      BY <1>3, <2>1, HandledAnswers
    <2> QED  BY <2>2 DEF Handles
  <1> QED  BY <1>2, <1>3 DEF IInv, Current

\* Each conjunct, after each step of a process and of the station.
LEMMA TypeStep == ASSUME IInv, [Next]_vars PROVE TypeOK'
  <1> USE ExchangeAssumption DEF IInv, TypeOK
  <1>1. ASSUME NEW p \in Processes, NEW cmd \in Questions \cup Commands, NEW t \in Byte \X Byte, Call(p, cmd, t)
        PROVE  TypeOK'
    <2>1. [cmd |-> cmd, b3 |-> t[1], b4 |-> t[2]] \in Report
      BY DEF Report
    <2>2. Answer(cmd, lastRxByte, PORTA) \in Byte
      BY AnswerTyped
    <2>3. buf' \in [Processes -> Report] /\ held' \in [Processes -> SUBSET Byte]
      BY <1>1, <2>1, <2>2 DEF Call
    <2>4. 0 \in MinResult..MaxResult
      BY ONLY Bounds
    <2> QED  BY <1>1, <2>3, <2>4 DEF Call
  <1>2. ASSUME NEW p \in Processes, Write(p) PROVE TypeOK'
    <2>1. hid_send_buf' \in Report /\ owner' \in Processes \cup {Nobody} /\ failures' \in 0..Failures
      BY <1>2, HandlesKeeps DEF Write, Sends, FailsToSend
    <2>2. -1 \in MinResult..MaxResult /\ 9 \in MinResult..MaxResult
      BY ONLY Bounds
    <2> QED  BY <1>2, <2>1, <2>2 DEF Write, Continues, Returns
  <1>3. ASSUME NEW p \in Processes, ReadSends(p) PROVE TypeOK'
    <2>1. hid_send_buf' \in Report /\ owner' \in Processes \cup {Nobody} /\ failures' \in 0..Failures
      BY <1>3, HandlesKeeps DEF ReadSends, Sends, FailsToSend
    <2> QED  BY <1>3, <2>1 DEF ReadSends, Continues
  <1>4. ASSUME NEW p \in Processes, ReadGets(p) PROVE TypeOK'
    <2>1. \A r \in Report : Result(buf[p].cmd, r) \in MinResult..MaxResult
      BY ResultTyped
    <2> QED  BY <1>4, <2>1 DEF ReadGets, Returns
  <1>5. ASSUME NEW rx \in Byte, NEW port \in Byte, StationHas(rx, port) PROVE TypeOK'
    <2>1. \A p \in Processes : Answer(buf[p].cmd, rx, port) \in Byte
      BY AnswerTyped
    <2> QED  BY <1>5, <2>1 DEF StationHas
  <1>6. CASE UNCHANGED vars
    BY <1>6 DEF vars
  <1>7. Questions \subseteq Questions \cup Commands /\ Commands \subseteq Questions \cup Commands
    OBVIOUS
  <1>8. /\ Bytes \subseteq Byte /\ Ports \subseteq Byte /\ Times \subseteq Byte \X Byte
        /\ <<0, 0>> \in Byte \X Byte
    BY DEF Byte
  <1> QED  BY <1>1, <1>2, <1>3, <1>4, <1>5, <1>6, <1>7, <1>8 DEF Next, WatchSends, KeysMove

\* A call that begins asks with answer bytes 0; no other step changes what is asked.
LEMMA BlankStep == ASSUME IInv, [Next]_vars PROVE Blank'
  <1> USE DEF IInv, TypeOK, Blank, Asks
  <1>1. ASSUME NEW p \in Processes, NEW cmd \in Questions, Call(p, cmd, <<0, 0>>) PROVE Blank'
    BY <1>1 DEF Call
  <1>2. ASSUME NEW p \in Processes, NEW cmd \in Commands, NEW t \in Times, Call(p, cmd, t) PROVE Blank'
    BY <1>2 DEF Call, Questions, Commands
  <1>3. ASSUME NEW p \in Processes, Write(p) \/ ReadSends(p) \/ ReadGets(p) PROVE Blank'
    BY <1>3 DEF Write, ReadSends, ReadGets, Continues, Returns
  <1>4. ASSUME NEW rx, NEW port, StationHas(rx, port) PROVE Blank'
    BY <1>4 DEF StationHas
  <1>5. CASE UNCHANGED vars
    BY <1>5 DEF vars
  <1> QED  BY <1>1, <1>2, <1>3, <1>4, <1>5 DEF Next, WatchSends, KeysMove

\* held follows the station while the call goes on.
LEMMA CurrentStep == ASSUME IInv, [Next]_vars PROVE Current'
  <1> USE DEF IInv, TypeOK, Current
  <1>1. ASSUME NEW p \in Processes, NEW cmd, NEW t, Call(p, cmd, t) PROVE Current'
    BY <1>1 DEF Call
  <1>2. ASSUME NEW p \in Processes, Write(p) \/ ReadSends(p) \/ ReadGets(p) PROVE Current'
    BY <1>2 DEF Write, ReadSends, ReadGets, Continues, Returns
  <1>3. ASSUME NEW rx, NEW port, StationHas(rx, port) PROVE Current'
    BY <1>3 DEF StationHas
  <1>4. CASE UNCHANGED vars
    BY <1>4 DEF vars
  <1> QED  BY <1>1, <1>2, <1>3, <1>4 DEF Next, WatchSends, KeysMove

\* A handled report makes the buffer its own; a send that the station does not see
\* leaves it.
LEMMA FromThisCallStep == ASSUME IInv, [Next]_vars PROVE FromThisCall'
  <1> USE DEF IInv, TypeOK, FromThisCall
  <1>1. ASSUME NEW p \in Processes, NEW cmd, NEW t, Call(p, cmd, t) PROVE FromThisCall'
    BY <1>1 DEF Call
  <1>2. ASSUME NEW p \in Processes, Write(p) PROVE FromThisCall'
    <2>1. CASE Sends(p)
      <3>1. /\ owner' = p
            /\ buf[p].cmd \in Questions => \E b \in held[p] : hid_send_buf' = AnswerWith(buf[p].cmd, b)
        BY <1>2, <2>1, HandlesKeeps DEF Write, Sends
      <3> QED  BY <1>2, <2>1, <3>1 DEF Write, Continues, Returns
    <2>2. CASE FailsToSend(p) /\ Returns(p, -1, "failed")
      <3>1. owner' = p \/ UNCHANGED <<hid_send_buf, owner>>
        BY <2>2, <1>2, HandlesKeeps DEF Write, FailsToSend
      <3> QED  BY <1>2, <2>2, <3>1 DEF Write, Returns
    <2> QED  BY <1>2, <2>1, <2>2 DEF Write
  <1>3. ASSUME NEW p \in Processes, ReadSends(p) PROVE FromThisCall'
    <2>1. CASE Handles(p)
      <3>1. owner' = p /\ \E b \in held[p] : hid_send_buf' = AnswerWith(buf[p].cmd, b)
        BY <1>3, <2>1, HandlesKeeps DEF ReadSends
      <3> QED  BY <1>3, <3>1 DEF ReadSends, Continues
    <2>2. CASE UNCHANGED <<hid_send_buf, owner>>
      BY <1>3, <2>2 DEF ReadSends, Continues
    <2> QED  BY <1>3, <2>1, <2>2 DEF ReadSends, Sends, FailsToSend
  <1>4. ASSUME NEW p \in Processes, ReadGets(p) PROVE FromThisCall'
    BY <1>4 DEF ReadGets, Returns
  <1>5. ASSUME NEW rx, NEW port, StationHas(rx, port) PROVE FromThisCall'
    BY <1>5 DEF StationHas
  <1>6. CASE UNCHANGED vars
    BY <1>6 DEF vars
  <1> QED  BY <1>1, <1>2, <1>3, <1>4, <1>5, <1>6 DEF Next, WatchSends, KeysMove

\* An answer is taken from a buffer filled in this call.
LEMMA AnswerStep == ASSUME IInv, [Next]_vars PROVE AnswerInTime'
  <1> USE DEF IInv, TypeOK, AnswerInTime
  <1>1. ASSUME NEW p \in Processes, NEW cmd, NEW t, Call(p, cmd, t) PROVE AnswerInTime'
    BY <1>1 DEF Call
  <1>2. ASSUME NEW p \in Processes, Write(p) \/ ReadSends(p) PROVE AnswerInTime'
    BY <1>2 DEF Write, ReadSends, Continues, Returns
  <1>3. ASSUME NEW p \in Processes, ReadGets(p) PROVE AnswerInTime'
    <2>1. ASSUME outcome'[p] = "answered"
          PROVE  \E b \in held[p] : rc'[p] = Result(buf[p].cmd, AnswerWith(buf[p].cmd, b))
      <3>1. owner = p /\ rc'[p] = Result(buf[p].cmd, hid_send_buf) /\ pc[p] = "get"
        BY <1>3, <2>1 DEF ReadGets, Returns
      <3> QED  BY <3>1 DEF FromThisCall
    <2> QED  BY <1>3, <2>1 DEF ReadGets, Returns
  <1>4. ASSUME NEW rx, NEW port, StationHas(rx, port) PROVE AnswerInTime'
    BY <1>4 DEF StationHas
  <1>5. CASE UNCHANGED vars
    BY <1>5 DEF vars
  <1> QED  BY <1>1, <1>2, <1>3, <1>4, <1>5 DEF Next, WatchSends, KeysMove
-----------------------------------------------------------------------------
\* What a process finds in the station's buffer is right at every step of a call.
THEOREM Invariance == Spec => []IInv
  <1>1. IInv /\ [Next]_vars => IInv'
    BY TypeStep, BlankStep, CurrentStep, FromThisCallStep, AnswerStep DEF IInv
  <1> QED  BY Starts, <1>1, PTL DEF Spec

\* Reports and results keep their ranges, also when the answers of processes mix.
THEOREM TypeCorrect == Spec => []TypeOK
  <1>1. IInv => TypeOK
    BY DEF IInv
  <1> QED  BY Invariance, <1>1, PTL

\* A question that is not overtaken is answered with what the station held in its
\* own call, for any number of processes and failures.
THEOREM AnsweredInTime == Spec => []AnswerInTime
  <1>1. IInv => AnswerInTime
    BY DEF IInv
  <1> QED  BY Invariance, <1>1, PTL
=============================================================================
