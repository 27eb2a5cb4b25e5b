------------------------------ MODULE UsbProofs ------------------------------
(***************************************************************************)
(* What the control endpoint promises, for any requests, packet size,      *)
(* time-out and number of lost ACKs, and what of it is left on a bus that  *)
(* is suspended and reset (UsbDevice).                                     *)
(*                                                                         *)
(* DeviceOK is about the station alone: where the two copies of the        *)
(* ping-pong pointers stand, what each descriptor of the SIE is there for  *)
(* (ArmedOut), what each finished transaction in the FIFO is (DataOf,      *)
(* StatusOf, or a SETUP, which is the last), and at which places of the    *)
(* interrupt routine.  It needs the host for one thing only, that a packet *)
(* of a control write is the one the pipe expects (OutTakenOK), and so     *)
(* cannot be had without InStep, which relates the counts, toggles and     *)
(* contents of both sides while they are at the same transfer; Announced   *)
(* carries it over the time between a SETUP and the interrupt routine that *)
(* serves it.  Fresh stands in for InStep where a late USBDeviceInit has   *)
(* wiped out what the host had begun.                                      *)
(*                                                                         *)
(* In a lemma "...OK" is a step's effect on DeviceOK, "...Link" on InStep. *)
(***************************************************************************)
EXTENDS UsbDevice, TLAPS

OutDescriptor == [own : BOOLEAN, dts : 0..1, chk : BOOLEAN, stall : BOOLEAN, cnt : 0..Packet,
                  adr : {"SetupPkt", "CtrlTrfData"}, pid : {"none", "setup", "out"}]
InDescriptor == [own : BOOLEAN, dts : 0..1, stall : BOOLEAN, cnt : 0..Packet]
Contents == [what : {"setup", "data"}, turn : 0..1, pos : Nat, req : Request]
Transaction == [dir : {"out", "in"}, buf : 0..1]

\* The descriptors whose finished transaction waits in the FIFO.
InFifo  == {b \in 0..1 : \E i \in 1..Len(ustat) : ustat[i] = [dir |-> "in", buf |-> b]}
OutFifo == {b \in 0..1 : \E i \in 1..Len(ustat) : ustat[i] = [dir |-> "out", buf |-> b]}
SetupWaits(b) == b \in OutFifo /\ outBD[b].pid = "setup"
DataWaits(b)  == b \in OutFifo /\ outBD[b].pid = "out"

\* No transaction is there twice, a SETUP is the last, and none but a SETUP follows the status
\* stage of a control write.
FifoOK ==
  /\ ustat \in Seq(Transaction)
  /\ \A i, j \in 1..Len(ustat) : ustat[i] = ustat[j] => i = j
  /\ \A i, j \in 1..Len(ustat) : i < j /\ ustat[i].dir = "out" => outBD[ustat[i].buf].pid = "out"
  /\ \A i, j \in 1..Len(ustat) : i < j /\ ustat[i].dir = "in" /\ ustat[j].dir = "out" /\ ctrl = "RX"
                                   => outBD[ustat[j].buf].pid = "setup"

\* TypeOK, by kind of variable.
Descriptors == outBD \in [0..1 -> OutDescriptor] /\ inBD \in [0..1 -> InDescriptor]
Pointers == sieOut \in 0..1 /\ sieIn \in 0..1 /\ outCur \in 0..1 /\ outNext \in 0..1 /\ inPtr \in 0..1
Modes == /\ ctrl \in {"WAIT_SETUP", "TX", "RX"} /\ short \in {"NOT_USED", "PENDING", "SENT"}
         /\ USBDeviceState \in {"DEFAULT", "ADR_PENDING", "ADDRESS", "CONFIGURED"}
         /\ pc \in {"idle", "complete", "arm", "stallIn", "status", "statusNext", "handle", "handleEarly"}
Flags == /\ pktdis \in BOOLEAN /\ stallIF \in BOOLEAN /\ inBusy \in BOOLEAN /\ outBusy \in BOOLEAN
         /\ bothOwned \in BOOLEAN /\ statusEnabled \in BOOLEAN
Numbers == /\ inCount \in Nat /\ outCount \in Nat /\ U1ADDR \in Nat /\ handled \in Nat
           /\ timer \in 0..Timeout /\ serving \in 0..1
Data == SetupPkt \in Contents /\ CtrlTrfData \in Contents /\ pSrc \in Contents
Fifo == ustat \in Seq(Transaction) /\ Len(ustat) <= 3
Host == /\ stage \in {"idle", "data", "status", "done", "stalled"} /\ req \in Request
        /\ turn \in 0..1 /\ hDts \in 0..1 /\ hLeft \in Nat /\ hAddr \in Nat /\ lost \in Nat
Types == Descriptors /\ Pointers /\ Modes /\ Flags /\ Numbers /\ Data /\ Fifo /\ Host

\* USBDeviceInit has been here and no SETUP since: only BD 0 of the OUT side is armed.
Fresh == /\ ustat = <<>> /\ pc = "idle" /\ ~pktdis /\ statusEnabled
         /\ sieOut = 0 /\ outBD[0] = ForSetup /\ ~outBD[1].own
         /\ ~inBD[0].own /\ ~inBD[1].own

\* The IN side: one packet at a time, at inPtr, and none while the firmware has yet to arm it.
InOK ==
  /\ ~inBD[1 - inPtr].own
  /\ \A b \in InFifo : b = inPtr /\ ~inBD[b].own /\ ~inBD[b].stall /\ sieIn = 1 - inPtr
  /\ InFifo = {} => sieIn = inPtr
  /\ pc \in {"complete", "arm", "stallIn", "handleEarly"} \/ (ctrl = "RX" /\ ~statusEnabled)
       => InFifo = {} /\ ~inBD[inPtr].own

\* What an OUT descriptor handed to the SIE is there for: a SETUP, the data of a control write,
\* or the status stage of a control read.
ArmedForData(b) ==
  /\ ~outBD[b].stall /\ outBD[b].chk /\ outBD[b].adr = "CtrlTrfData" /\ b = sieOut
  /\ ctrl = "WAIT_SETUP" \/ (ctrl = "RX" /\ outBusy /\ outCount > 0)
ArmedOut(b) ==
  /\ outBD[b].pid = "none"
  /\ \/ outBD[b].stall /\ outBD[b].adr = "SetupPkt"
     \/ ArmedForData(b)
     \/ outBD[b] = ForStatus /\ ctrl = "TX" /\ b = sieOut /\ b = outNext /\ b # outCur

\* A packet of a control write that waits, and the status packet of a control read.
DataOf(b) ==
  /\ ctrl = "RX" /\ outBusy /\ outCount > 0 /\ sieOut = 1 - b /\ OutFifo = {b} /\ ~outBD[1 - b].own
  /\ outBD[b].cnt = Least(Packet, outCount)
  /\ CtrlTrfData = Content("data", serving, SetupPkt.req.asks - outCount, SetupPkt.req)
  /\ pc \in {"idle", "status"}
StatusOf(b) ==
  /\ ctrl = "TX" /\ bothOwned /\ pc = "idle" /\ outBD[b].cnt = 0
  /\ SetupWaits(1 - b) \/ (sieOut = 1 - b /\ outBD[1 - b].own /\ outBD[1 - b].stall)

Where(b) == IF outBD[b].adr = "SetupPkt" THEN SetupPkt ELSE CtrlTrfData

OutOK ==
  /\ \A b \in 0..1 : outBD[b].own => ArmedOut(b)
  /\ \A b \in OutFifo : ~outBD[b].own /\ outBD[b].pid \in {"setup", "out"}
  /\ \A b \in OutFifo : outBD[b].pid = "out" => DataOf(b) \/ StatusOf(b)
  /\ \A b \in OutFifo : outBD[b].pid = "setup" =>
       /\ pktdis /\ sieOut = 1 - b /\ pc \in {"idle", "status", "stallIn", "handle", "handleEarly"}
       /\ ctrl = "TX" => pc = "idle" /\ outBD[b].adr = "SetupPkt"
       /\ Where(b).what = "setup" /\ Where(b).pos = 0 /\ Where(b).req \in Requests
  /\ pktdis => pc = "complete" \/ \E b \in OutFifo : outBD[b].pid = "setup"

\* Between USBCtrlTrfSetupHandler and the arming of the pipe the SIE has nothing.
Claimed ==
  LET r == SetupPkt.req
  IN /\ ustat = <<>> /\ ~outBD[0].own /\ ~outBD[1].own /\ ctrl = "WAIT_SETUP"
     /\ sieOut = outNext /\ (r.kind # "configure" => outCur = 1 - outNext)
     /\ SetupPkt = Content("setup", serving, 0, r) /\ r \in Requests /\ handled = 0 /\ short = "NOT_USED"
     /\ (inBusy <=> r.kind \in {"read", "address", "configure"}) /\ (outBusy <=> r.kind = "write")
     /\ (r.kind = "read" => inCount = r.has /\ pSrc = Content("data", serving, 0, r))
     /\ (r.kind = "write" => outCount = r.asks)
     /\ (r.kind = "address" => USBDeviceState = "ADR_PENDING")

ReadPhases ==
  /\ pc \in {"idle", "status", "statusNext"}
  /\ pc # "status" => statusEnabled
  /\ pc = "status" => /\ OutFifo = {} /\ ~outBD[0].own /\ ~outBD[1].own
                      /\ sieOut = outNext /\ outCur = 1 - outNext
  /\ pc = "statusNext" => /\ OutFifo = {} /\ sieOut = outNext /\ outCur = 1 - outNext /\ bothOwned
                          /\ ~outBD[outNext].own /\ outBD[outCur].own /\ outBD[outCur].stall
  /\ pc = "idle" /\ OutFifo = {} /\ ~Fresh =>
       /\ sieOut = outNext /\ outCur = 1 - outNext /\ bothOwned
       /\ outBD[outNext] = ForStatus /\ outBD[outCur].own /\ outBD[outCur].stall

Phases ==
  /\ pc \in {"complete", "arm"} => Claimed /\ (pktdis <=> pc = "complete")
  /\ pc = "status" => ~statusEnabled
  /\ ctrl = "TX" => ReadPhases
  /\ ctrl = "RX" => pc \in {"idle", "status", "handle", "handleEarly"} /\ ~outBD[1 - sieOut].own
  /\ ctrl = "WAIT_SETUP" => pc \in {"idle", "complete", "arm", "stallIn", "status"}
  /\ ctrl # "TX" /\ pc \notin {"complete", "arm"} /\ OutFifo = {} => outBD[sieOut].own
  /\ pc \in {"handle", "handleEarly"} => outBusy
  /\ outBusy => handled = 0 /\ (ctrl = "RX" \/ pc \in {"complete", "arm"})
  /\ handled \in 0..1
  /\ pc = "handle" => outCount = 0 /\ CtrlTrfData.what = "data" /\ CtrlTrfData.turn = serving

\* The station's part.
DeviceOK == FifoOK /\ InOK /\ OutOK /\ Phases

-----------------------------------------------------------------------------
LEMMA TransactionIs ==
    ASSUME NEW e \in Transaction
    PROVE  e.dir \in {"out", "in"} /\ e.buf \in 0..1 /\ e = [dir |-> e.dir, buf |-> e.buf]
  BY DEF Transaction

\* What is left of the FIFO when the interrupt routine takes its head.
LEMMA FifoServed ==
    ASSUME FifoOK, ustat # <<>>, ustat' = Tail(ustat)
    PROVE  /\ Entry \in Transaction /\ ustat' \in Seq(Transaction)
           /\ \A i, j \in 1..Len(ustat') : ustat'[i] = ustat'[j] => i = j
           /\ Entry.dir = "in" => /\ Entry.buf \in InFifo /\ OutFifo' = OutFifo
                                  /\ InFifo' = InFifo \ {Entry.buf}
                                  /\ ctrl = "RX" => \A b \in OutFifo : outBD[b].pid = "setup"
           /\ Entry.dir = "out" => /\ Entry.buf \in OutFifo /\ InFifo' = InFifo
                                   /\ OutFifo' = OutFifo \ {Entry.buf}
                                   /\ outBD[Entry.buf].pid # "out" => ustat' = <<>> /\ InFifo = {} /\ OutFifo' = {}
  <1> DEFINE n == Len(ustat)
  <1>1. /\ n \in Nat \ {0} /\ Entry = ustat[1] /\ Len(ustat') = n - 1 /\ ustat' \in Seq(Transaction)
        /\ \A i \in 1..n : ustat[i] \in Transaction
        /\ \A i \in 1..(n - 1) : ustat'[i] = ustat[i + 1]
        /\ n = 1 => ustat' = <<>>
    BY DEF FifoOK, Entry
  <1>2. Entry \in Transaction
    BY <1>1
  <1>3. \A i, j \in 1..Len(ustat') : ustat'[i] = ustat'[j] => i = j
    BY <1>1 DEF FifoOK
  <1>4. ASSUME NEW e \in Transaction
        PROVE  /\ (\E i \in 1..Len(ustat') : ustat'[i] = e) <=> (\E i \in 1..n : ustat[i] = e) /\ e # Entry
    <2>1. ASSUME NEW i \in 1..Len(ustat'), ustat'[i] = e
          PROVE  i + 1 \in 1..n /\ ustat[i + 1] = e /\ e # Entry
      BY <1>1, <2>1 DEF FifoOK
    <2>2. ASSUME NEW i \in 1..n, ustat[i] = e, e # Entry
          PROVE  i - 1 \in 1..Len(ustat') /\ ustat'[i - 1] = e
      BY <1>1, <2>2
    <2>. QED BY <2>1, <2>2
  <1>5. \A b \in 0..1 : [dir |-> "in", buf |-> b] \in Transaction /\ [dir |-> "out", buf |-> b] \in Transaction
    BY DEF Transaction
  <1>6. /\ Entry.dir \in {"out", "in"} /\ Entry.buf \in 0..1
        /\ Entry = [dir |-> Entry.dir, buf |-> Entry.buf]
    BY <1>2 DEF Transaction
  <1>7. CASE Entry.dir = "in"
    <2>1. OutFifo' = OutFifo /\ InFifo' = InFifo \ {Entry.buf} /\ Entry.buf \in InFifo
      BY <1>1, <1>4, <1>5, <1>6, <1>7 DEF InFifo, OutFifo
    <2>2. ASSUME ctrl = "RX", NEW b \in OutFifo PROVE outBD[b].pid = "setup"
      BY <1>1, <1>7, <2>2 DEF FifoOK, OutFifo
    <2>. QED BY <1>1, <1>2, <1>3, <1>7, <2>1, <2>2
  <1>8. CASE Entry.dir = "out"
    <2>1. InFifo' = InFifo /\ OutFifo' = OutFifo \ {Entry.buf} /\ Entry.buf \in OutFifo
      BY <1>1, <1>4, <1>5, <1>6, <1>8 DEF InFifo, OutFifo
    <2>2. ASSUME outBD[Entry.buf].pid # "out" PROVE ustat' = <<>> /\ InFifo' = {} /\ OutFifo' = {}
      <3>1. n = 1
        BY <1>1, <1>8, <2>2 DEF FifoOK
      <3>2. ustat' = <<>> /\ Len(ustat') = 0
        BY <1>1, <3>1
      <3>3. \A i \in 1..Len(ustat') : FALSE
        BY <3>2
      <3>. QED BY ONLY <3>2, <3>3 DEF InFifo, OutFifo
    <2>. QED BY <1>1, <1>2, <1>3, <1>8, <2>1, <2>2
  <1>. QED BY <1>6, <1>7, <1>8

\* What is in the FIFO after the SIE has put a transaction there.
LEMMA FifoAdded ==
    ASSUME FifoOK, NEW e \in Transaction, ustat' = Append(ustat, e)
    PROVE  /\ ustat' \in Seq(Transaction)
           /\ e.dir = "in" => InFifo' = InFifo \cup {e.buf} /\ OutFifo' = OutFifo
           /\ e.dir = "out" => OutFifo' = OutFifo \cup {e.buf} /\ InFifo' = InFifo
  <1> DEFINE n == Len(ustat)
  <1>1. /\ n \in Nat /\ Len(ustat') = n + 1 /\ ustat' \in Seq(Transaction)
        /\ \A i \in 1..n : ustat'[i] = ustat[i]
        /\ ustat'[n + 1] = e
    BY DEF FifoOK
  <1>2. ASSUME NEW x \in Transaction
        PROVE  (\E i \in 1..Len(ustat') : ustat'[i] = x) <=> (\E i \in 1..n : ustat[i] = x) \/ x = e
    <2>1. ASSUME NEW i \in 1..Len(ustat'), ustat'[i] = x PROVE x = e \/ (i \in 1..n /\ ustat[i] = x)
      BY <1>1, <2>1
    <2>2. ASSUME NEW i \in 1..n, ustat[i] = x PROVE i \in 1..Len(ustat') /\ ustat'[i] = x
      BY <1>1, <2>2
    <2>3. n + 1 \in 1..Len(ustat') /\ ustat'[n + 1] = e
      BY <1>1
    <2>. QED BY <2>1, <2>2, <2>3
  <1>3. \A b \in 0..1 : [dir |-> "in", buf |-> b] \in Transaction /\ [dir |-> "out", buf |-> b] \in Transaction
    BY DEF Transaction
  <1>4. e.dir \in {"out", "in"} /\ e.buf \in 0..1 /\ e = [dir |-> e.dir, buf |-> e.buf]
    BY DEF Transaction
  <1>. QED BY <1>1, <1>2, <1>3, <1>4 DEF InFifo, OutFifo

\* Serving the FIFO, or leaving it, keeps its order as long as no descriptor in it is written.
LEMMA FifoStays ==
    ASSUME FifoOK, ustat' = ustat \/ (ustat # <<>> /\ ustat' = Tail(ustat)),
           \A b \in OutFifo' : outBD'[b].pid = outBD[b].pid,
           ctrl' = "RX" => ctrl = "RX" \/ ustat = <<>>
    PROVE  FifoOK'
  <1>1. CASE ustat' = ustat
    <2>1. \A i \in 1..Len(ustat) : ustat[i].dir = "out" => ustat[i].buf \in OutFifo'
      <3>1. \A i \in 1..Len(ustat) : ustat[i] \in Transaction
        BY DEF FifoOK
      <3>. QED BY <1>1, <3>1, TransactionIs DEF OutFifo
    <2>2. ustat = <<>> => \A i \in 1..Len(ustat) : FALSE
      OBVIOUS
    <2>. QED BY <1>1, <2>1, <2>2 DEF FifoOK
  <1>2. CASE ustat # <<>> /\ ustat' = Tail(ustat)
    <2>1. /\ Len(ustat) \in Nat /\ Len(ustat') = Len(ustat) - 1 /\ ustat' \in Seq(Transaction)
          /\ \A i \in 1..Len(ustat') : i + 1 \in 1..Len(ustat) /\ ustat'[i] = ustat[i + 1]
      BY <1>2 DEF FifoOK
    <2>2. \A i \in 1..Len(ustat') : ustat'[i].dir = "out" => ustat'[i].buf \in OutFifo'
      <3>1. \A i \in 1..Len(ustat') : ustat'[i] \in Transaction
        BY <2>1
      <3>. QED BY <3>1, TransactionIs DEF OutFifo
    <2>3. \A i, j \in 1..Len(ustat') : ustat'[i] = ustat'[j] => i = j
      BY <1>2, FifoServed
    <2>4. \A i, j \in 1..Len(ustat') : i < j /\ ustat'[i].dir = "out" => outBD'[ustat'[i].buf].pid = "out"
      <3>1. ASSUME NEW i \in 1..Len(ustat'), NEW j \in 1..Len(ustat'), i < j, ustat'[i].dir = "out"
            PROVE  outBD[ustat'[i].buf].pid = "out"
        <4>1. i + 1 \in 1..Len(ustat) /\ j + 1 \in 1..Len(ustat) /\ i + 1 < j + 1
          BY <2>1, <3>1
        <4>2. ustat'[i] = ustat[i + 1] /\ ustat[i + 1].dir = "out"
          BY <2>1, <3>1
        <4>3. outBD[ustat[i + 1].buf].pid = "out"
          BY <4>1, <4>2 DEF FifoOK
        <4>. QED BY <4>2, <4>3
      <3>. QED BY <2>2, <3>1
    <2>5. \A i, j \in 1..Len(ustat') : i < j /\ ustat'[i].dir = "in" /\ ustat'[j].dir = "out" /\ ctrl' = "RX"
                                     => outBD'[ustat'[j].buf].pid = "setup"
      <3>1. ASSUME NEW i \in 1..Len(ustat'), NEW j \in 1..Len(ustat'), i < j, ustat'[i].dir = "in",
                   ustat'[j].dir = "out", ctrl' = "RX"
            PROVE  outBD[ustat'[j].buf].pid = "setup"
        <4>1. i + 1 \in 1..Len(ustat) /\ j + 1 \in 1..Len(ustat) /\ i + 1 < j + 1
          BY <2>1, <3>1
        <4>2. ctrl = "RX" /\ ustat[i + 1].dir = "in" /\ ustat[j + 1].dir = "out"
          BY <1>2, <2>1, <3>1
        <4>3. outBD[ustat[j + 1].buf].pid = "setup"
          BY <4>1, <4>2 DEF FifoOK
        <4>. QED BY <2>1, <4>3
      <3>. QED BY <2>2, <3>1
    <2>. QED BY <2>1, <2>3, <2>4, <2>5 DEF FifoOK
  <1>. QED BY <1>1, <1>2

\* A transaction may follow those that wait when none of them is a SETUP.
LEMMA FifoGrows ==
    ASSUME FifoOK, NEW e \in Transaction, ustat' = Append(ustat, e), ctrl' = ctrl,
           e.dir = "in" => e.buf \notin InFifo,
           e.dir = "out" => e.buf \notin OutFifo,
           \A b \in OutFifo : outBD[b].pid = "out" /\ outBD'[b].pid = "out",
           e.dir = "out" /\ ctrl = "RX" => InFifo = {} \/ outBD'[e.buf].pid = "setup"
    PROVE  FifoOK'
  <1> DEFINE n == Len(ustat)
  <1>1. /\ n \in Nat /\ Len(ustat') = n + 1 /\ ustat' \in Seq(Transaction)
        /\ \A i \in 1..n : ustat'[i] = ustat[i] /\ ustat[i] \in Transaction
        /\ ustat'[n + 1] = e
        /\ \A i \in 1..(n + 1) : i \in 1..n \/ i = n + 1
    BY DEF FifoOK
  <1>2. \A i \in 1..n : /\ ustat[i].dir = "out" => ustat[i].buf \in OutFifo
                        /\ ustat[i].dir = "in" => ustat[i].buf \in InFifo
                        /\ ustat[i] # e
    BY <1>1 DEF InFifo, OutFifo, Transaction
  <1>3. \A i, j \in 1..Len(ustat') : ustat'[i] = ustat'[j] => i = j
    BY <1>1, <1>2 DEF FifoOK
  <1>4. \A i, j \in 1..Len(ustat') : i < j /\ ustat'[i].dir = "out" => outBD'[ustat'[i].buf].pid = "out"
    BY <1>1, <1>2
  <1>5. ASSUME NEW i \in 1..Len(ustat'), NEW j \in 1..Len(ustat'), i < j, ustat'[i].dir = "in",
               ustat'[j].dir = "out", ctrl' = "RX"
        PROVE  outBD'[ustat'[j].buf].pid = "setup"
    <2>1. i \in 1..n /\ ustat[i].dir = "in" /\ ustat[i].buf \in InFifo
      BY <1>1, <1>2, <1>5
    <2>2. CASE j \in 1..n
      <3>1. outBD[ustat[j].buf].pid = "setup" /\ ustat[j].buf \in OutFifo
        BY <1>1, <1>2, <1>5, <2>1, <2>2 DEF FifoOK
      <3>. QED BY <3>1
    <2>3. CASE j = n + 1
      BY <1>1, <1>5, <2>1, <2>3
    <2>. QED BY <1>1, <2>2, <2>3
  <1>. QED BY <1>1, <1>3, <1>4, <1>5 DEF FifoOK

\* One IN and two OUT transactions fill it.
LEMMA FifoShort ==
    ASSUME FifoOK', NEW x, InFifo' \subseteq {x}
    PROVE  Len(ustat') <= 3
  <1>1. Len(ustat') \in Nat /\ \A i \in 1..Len(ustat') : ustat'[i] \in Transaction
    BY DEF FifoOK
  <1>2. \A i \in 1..Len(ustat') : /\ ustat'[i] = [dir |-> ustat'[i].dir, buf |-> ustat'[i].buf]
                                 /\ ustat'[i].dir \in {"out", "in"} /\ ustat'[i].buf \in 0..1
    BY <1>1 DEF Transaction
  <1>3. ASSUME NEW i \in 1..Len(ustat')
        PROVE  \/ ustat'[i] = [dir |-> "in", buf |-> x] \/ ustat'[i] = [dir |-> "out", buf |-> 0]
               \/ ustat'[i] = [dir |-> "out", buf |-> 1]
    <2>1. CASE ustat'[i].dir = "in"
      <3>1. ustat'[i] = [dir |-> "in", buf |-> ustat'[i].buf] /\ ustat'[i].buf \in 0..1
        BY <1>2, <2>1
      <3>. QED BY <3>1 DEF InFifo
    <2>2. CASE ustat'[i].dir = "out"
      <3>1. ustat'[i] = [dir |-> "out", buf |-> ustat'[i].buf] /\ ustat'[i].buf \in {0, 1}
        BY <1>2, <2>2
      <3>. QED BY <3>1
    <2>. QED BY <1>2, <2>1, <2>2
  <1>4. ASSUME Len(ustat') > 3 PROVE FALSE
    <2>1. \A i \in {1, 2, 3, 4} : i \in 1..Len(ustat')
      BY <1>1, <1>4
    <2>2. \A i, j \in {1, 2, 3, 4} : i # j => ustat'[i] # ustat'[j]
      BY <2>1 DEF FifoOK
    <2>. QED BY <1>3, <2>1, <2>2
  <1>. QED BY <1>1, <1>4

\* An empty FIFO has no descriptor waiting, and the other way round.
LEMMA FifoEmpty ==
    ASSUME FifoOK
    PROVE  ustat = <<>> <=> InFifo = {} /\ OutFifo = {}
  <1>1. CASE ustat = <<>>
    <2>1. \A i \in 1..Len(ustat) : FALSE
      BY <1>1
    <2>. QED BY ONLY <1>1, <2>1 DEF InFifo, OutFifo
  <1>2. CASE ustat # <<>>
    <2>1. 1 \in 1..Len(ustat) /\ ustat[1] \in Transaction
      BY <1>2 DEF FifoOK
    <2>2. PICK b \in 0..1 : ustat[1] = [dir |-> "in", buf |-> b] \/ ustat[1] = [dir |-> "out", buf |-> b]
      BY <2>1 DEF Transaction
    <2>. QED BY <1>2, <2>1, <2>2 DEF InFifo, OutFifo
  <1>. QED BY <1>1, <1>2

-----------------------------------------------------------------------------
LEMMA TypesAreOK == Types => TypeOK
  BY DEF Types, Descriptors, Pointers, Modes, Flags, Numbers, Data, Fifo, Host, TypeOK, OutDescriptor, InDescriptor,
         Contents, Transaction

\* What waits is a matter of the FIFO alone.
LEMMA FifoSame ==
    ASSUME ustat' = ustat
    PROVE  InFifo' = InFifo /\ OutFifo' = OutFifo
  BY DEF InFifo, OutFifo

\* What is armed has a type.
LEMMA ArmedTypes ==
    /\ FreeOut \in OutDescriptor /\ FreeIn \in InDescriptor /\ ForSetup \in OutDescriptor
    /\ [ForSetup EXCEPT !.chk = TRUE] \in OutDescriptor /\ ForStatus \in OutDescriptor /\ StalledIn \in InDescriptor
    /\ \A d \in 0..1 : ForData(d) \in OutDescriptor
    /\ \A n \in Nat : /\ Least(Packet, n) \in 0..Packet /\ Least(Packet, n) \in Nat /\ Least(Packet, n) <= n
                      /\ Sending(0, Least(Packet, n)) \in InDescriptor
                      /\ Sending(1, Least(Packet, n)) \in InDescriptor
                      /\ [StalledIn EXCEPT !.cnt = Least(Packet, n)] \in InDescriptor
  <1>1. \A n \in Nat : /\ Least(Packet, n) \in 0..Packet /\ Least(Packet, n) <= n /\ Least(Packet, n) \in Nat
    BY Ep0Assumption DEF Least
  <1>2. 0 \in 0..Packet
    BY Ep0Assumption
  <1>4. FreeOut \in OutDescriptor /\ FreeIn \in InDescriptor
    BY <1>2 DEF FreeOut, FreeIn, OutDescriptor, InDescriptor
  <1>5. ForSetup \in OutDescriptor /\ ForStatus \in OutDescriptor /\ StalledIn \in InDescriptor
    BY <1>4 DEF ForSetup, ForStatus, StalledIn, OutDescriptor, InDescriptor
  <1>3. ASSUME NEW c \in 0..Packet, NEW d \in 0..1
        PROVE  Sending(d, c) \in InDescriptor /\ [StalledIn EXCEPT !.cnt = c] \in InDescriptor
    <2>1. [FreeIn EXCEPT !.own = TRUE, !.dts = d, !.cnt = c] \in InDescriptor
      BY <1>4 DEF InDescriptor
    <2>2. [StalledIn EXCEPT !.cnt = c] \in InDescriptor
      BY <1>5 DEF InDescriptor
    <2>. QED BY <2>1, <2>2 DEF Sending
  <1>6. [ForSetup EXCEPT !.chk = TRUE] \in OutDescriptor
    BY <1>5 DEF OutDescriptor
  <1>7. \A d \in 0..1 : ForData(d) \in OutDescriptor
    BY <1>4 DEF ForData, OutDescriptor
  <1>8. ASSUME NEW n \in Nat
        PROVE  /\ Sending(0, Least(Packet, n)) \in InDescriptor
               /\ Sending(1, Least(Packet, n)) \in InDescriptor
               /\ [StalledIn EXCEPT !.cnt = Least(Packet, n)] \in InDescriptor
    <2>1. Least(Packet, n) \in 0..Packet
      BY <1>1
    <2>2. 0 \in 0..1 /\ 1 \in 0..1
      OBVIOUS
    <2>. QED BY <1>3, <2>1, <2>2, Zenon
  <1>. QED BY <1>1, <1>4, <1>5, <1>6, <1>7, <1>8

\* Taking a descriptor back, or pointing it at SetupPkt, leaves it a descriptor.
LEMMA DescriptorTypes ==
    ASSUME Descriptors
    PROVE  /\ \A b \in 0..1 : outBD[b] \in OutDescriptor /\ inBD[b] \in InDescriptor
           /\ \A d \in OutDescriptor : /\ [d EXCEPT !.own = FALSE] \in OutDescriptor
                                       /\ [d EXCEPT !.adr = "SetupPkt"] \in OutDescriptor
           /\ \A d \in InDescriptor : [d EXCEPT !.own = FALSE] \in InDescriptor
  BY DEF Descriptors, OutDescriptor, InDescriptor

\* A SETUP at the head is alone in the FIFO, and the IN side has nothing finished.
LEMMA SetupHead ==
    ASSUME Types, DeviceOK, ServesSetup
    PROVE  /\ Entry.buf \in 0..1 /\ pc = "idle" /\ pktdis /\ sieOut = 1 - Entry.buf
           /\ ~outBD[Entry.buf].own
           /\ ustat' = <<>> /\ InFifo' = {} /\ OutFifo' = {} /\ sieIn = inPtr /\ ~inBD[1 - inPtr].own
           /\ FifoOK'
           /\ SetupPkt' = Where(Entry.buf) /\ SetupPkt'.what = "setup" /\ SetupPkt'.pos = 0 /\ SetupPkt'.req \in Requests
  <1>1. Serves("out") /\ ustat # <<>> /\ outBD[Entry.buf].pid = "setup" /\ Entry.dir = "out" /\ pc = "idle"
        /\ ustat' = Tail(ustat)
    BY DEF ServesSetup, Serves, Idle
  <1>2. Entry.buf \in OutFifo /\ ustat' = <<>> /\ InFifo = {} /\ InFifo' = {} /\ OutFifo' = {}
    BY <1>1, FifoServed DEF DeviceOK
  <1>3. Entry.buf \in 0..1 /\ pktdis /\ sieOut = 1 - Entry.buf /\ ~outBD[Entry.buf].own
    BY <1>1, <1>2 DEF DeviceOK, OutOK, OutFifo
  <1>4. sieIn = inPtr /\ ~inBD[1 - inPtr].own
    BY <1>2 DEF DeviceOK, InOK
  <1>5. FifoOK'
    <2>1. \A i \in 1..Len(ustat') : FALSE
      BY <1>2
    <2>2. ustat' \in Seq(Transaction)
      BY <1>2
    <2>. QED BY <2>1, <2>2 DEF FifoOK
  <1>6. SetupPkt' = Where(Entry.buf) /\ SetupPkt'.what = "setup" /\ SetupPkt'.pos = 0 /\ SetupPkt'.req \in Requests
    BY <1>1, <1>2 DEF DeviceOK, OutOK, ServesSetup, SetupData, Where
  <1>. QED BY <1>1, <1>2, <1>3, <1>4, <1>5, <1>6

\* USBCtrlTrfSetupHandler takes back whatever was armed and claims a pipe.
LEMMA ServesSetupOK ==
    ASSUME Types, DeviceOK, ServesSetup
    PROVE  Types' /\ DeviceOK'
  <1> DEFINE b == Entry.buf
             s == SetupPkt'
  <1>1. /\ b \in 0..1 /\ pc = "idle" /\ pktdis /\ sieOut = 1 - b /\ ~outBD[b].own
        /\ ustat' = <<>> /\ InFifo' = {} /\ OutFifo' = {} /\ sieIn = inPtr /\ ~inBD[1 - inPtr].own
        /\ FifoOK' /\ s = Where(b) /\ s.what = "setup" /\ s.pos = 0 /\ s.req \in Requests
    BY SetupHead
  <1>2. /\ pc' = "complete" /\ ctrl' = "WAIT_SETUP" /\ bothOwned' = FALSE /\ short' = "NOT_USED" /\ handled' = 0
        /\ serving' = s.turn /\ pktdis' = pktdis /\ timer' = Timeout
        /\ UNCHANGED <<stallIF, wire, statusEnabled, U1ADDR, CtrlTrfData>>
    BY DEF ServesSetup, Serves
  <1>3. /\ inBusy' = (s.req.kind \in {"read", "address", "configure"}) /\ outBusy' = (s.req.kind = "write")
        /\ inCount' = (IF s.req.kind = "read" THEN s.req.has ELSE 0)
        /\ outCount' = (IF s.req.kind = "write" THEN s.req.asks ELSE 0)
        /\ pSrc' = (IF s.req.kind = "read" THEN Content("data", serving', 0, s.req) ELSE Zeroes)
        /\ USBDeviceState' \in {"ADR_PENDING", "ADDRESS", "CONFIGURED", USBDeviceState}
        /\ (s.req.kind = "address" => USBDeviceState' = "ADR_PENDING")
    BY DEF ServesSetup, Claims
  <1>4. /\ ~outBD'[0].own /\ ~outBD'[1].own /\ ~inBD'[0].own /\ ~inBD'[1].own
        /\ sieOut' = outNext' /\ (s.req.kind # "configure" => outCur' = 1 - outNext') /\ sieIn' = inPtr'
        /\ {sieOut', sieIn', outCur', outNext', inPtr'} \subseteq 0..1
        /\ outBD' \in [0..1 -> OutDescriptor] /\ inBD' \in [0..1 -> InDescriptor]
    <2>1. CASE s.req.kind = "configure"
      <3>1. Configures
        BY <2>1 DEF ServesSetup
      <3>2. FreeOut \in OutDescriptor /\ FreeIn \in InDescriptor /\ ~FreeOut.own /\ ~FreeIn.own
        BY Ep0Assumption DEF FreeOut, FreeIn, OutDescriptor, InDescriptor
      <3>. QED BY <2>1, <3>1, <3>2 DEF Configures
    <2>2. CASE s.req.kind # "configure"
      <3>1. Abandons
        BY <2>2 DEF ServesSetup
      <3>2. /\ sieOut' = 1 - b /\ sieIn' = inPtr /\ outCur' = b /\ outNext' = 1 - b /\ inPtr' = inPtr
        BY <1>1, <3>1 DEF Abandons, PointsAtOut
      <3>3. /\ outBD' \in [0..1 -> OutDescriptor] /\ inBD' \in [0..1 -> InDescriptor]
            /\ ~outBD'[0].own /\ ~outBD'[1].own /\ ~inBD'[0].own /\ ~inBD'[1].own
        <4>1. /\ outBD' = [outBD EXCEPT ![1 - b].own = FALSE, ![b].adr = "SetupPkt"]
              /\ inBD' = [c \in 0..1 |-> [inBD[c] EXCEPT !.own = FALSE]]
          BY <1>1, <3>1 DEF Abandons, PointsAtOut
        <4>2. outBD = [c \in 0..1 |-> outBD[c]]
          BY DEF Types, Descriptors
        <4>3. /\ outBD' = [c \in 0..1 |-> outBD'[c]]
              /\ outBD'[b] = [outBD[b] EXCEPT !.adr = "SetupPkt"]
              /\ outBD'[1 - b] = [outBD[1 - b] EXCEPT !.own = FALSE]
          <5> DEFINE g == [outBD EXCEPT ![1 - b] = [outBD[1 - b] EXCEPT !.own = FALSE]]
          <5>1. 1 - b \in 0..1 /\ 1 - b # b
            BY <1>1
          <5>2. outBD' = [g EXCEPT ![b] = [g[b] EXCEPT !.adr = "SetupPkt"]]
            BY <4>1
          <5>3. g[b] = outBD[b] /\ g[1 - b] = [outBD[1 - b] EXCEPT !.own = FALSE] /\ g = [c \in 0..1 |-> g[c]]
            BY <1>1, <5>1, <4>2
          <5> HIDE DEF g
          <5>. QED BY <1>1, <5>1, <5>2, <5>3
        <4>4. outBD'[b] \in OutDescriptor /\ outBD'[1 - b] \in OutDescriptor
          <5>1. outBD[b] \in OutDescriptor /\ outBD[1 - b] \in OutDescriptor
            BY <1>1, DescriptorTypes DEF Types
          <5>2. /\ [outBD[b] EXCEPT !.adr = "SetupPkt"] \in OutDescriptor
                /\ [outBD[1 - b] EXCEPT !.own = FALSE] \in OutDescriptor
            BY <5>1, DescriptorTypes, Zenon DEF Types
          <5>. QED BY <4>3, <5>2
        <4>5. \A c \in 0..1 : inBD'[c] \in InDescriptor /\ (c = b \/ c = 1 - b)
          BY <1>1, <4>1, DescriptorTypes DEF Types
        <4>6. \A c \in 0..1 : ~outBD'[c].own
          <5>1. ~outBD'[b].own
            BY <1>1, <4>3, DescriptorTypes DEF Types, OutDescriptor
          <5>2. ~outBD'[1 - b].own
            BY <1>1, <4>3, DescriptorTypes DEF Types, OutDescriptor
          <5>. QED BY <4>5, <5>1, <5>2
        <4>7. \A c \in 0..1 : ~inBD'[c].own
          BY <4>1, DescriptorTypes DEF Types, InDescriptor
        <4>8. outBD' \in [0..1 -> OutDescriptor]
          BY <4>3, <4>4, <4>5
        <4>9. inBD' \in [0..1 -> InDescriptor]
          BY <4>1, <4>5
        <4>. QED BY <4>6, <4>7, <4>8, <4>9
      <3>4. {sieOut', sieIn', outCur', outNext', inPtr'} \subseteq 0..1
        BY <1>1, <3>2 DEF Types, Pointers
      <3>. QED BY <3>2, <3>3, <3>4
    <2>. QED BY <2>1, <2>2
  <1>5. Types'
    <2>1. s \in Contents
      BY <1>1 DEF Where, Types, Data
    <2>2. s.turn \in 0..1 /\ s.req \in Request /\ inCount' \in Nat /\ outCount' \in Nat
      BY <1>3, <2>1 DEF Request, Contents
    <2>3. Data'
      <3>1. pSrc' \in Contents
        BY <1>2, <1>3, <2>2 DEF Contents, Content, Zeroes, NoRequest, Request
      <3>. QED BY <1>2, <2>1, <3>1 DEF Types, Data
    <2>4. Flags'
      <3>1. inBusy' \in BOOLEAN
        <4>1. CASE s.req.kind \in {"read", "address", "configure"}
          BY <1>3, <4>1
        <4>2. CASE s.req.kind \notin {"read", "address", "configure"}
          BY <1>3, <4>2
        <4>. QED BY <4>1, <4>2
      <3>. QED BY <1>2, <1>3, <3>1 DEF Types, Flags
    <2>5. Modes'
      BY <1>2, <1>3 DEF Types, Modes
    <2>6. Numbers' /\ Fifo' /\ Host'
      BY <1>1, <1>2, <2>2, Ep0Assumption DEF Types, Numbers, Fifo, Host, wire
    <2>. QED BY <1>4, <2>3, <2>4, <2>5, <2>6 DEF Types, Descriptors, Pointers
  <1>6. InOK'
    BY <1>1, <1>2, <1>4 DEF InOK
  <1>7. OutOK'
    BY <1>1, <1>2, <1>4 DEF OutOK
  <1>8. Phases'
    <2>1. s = Content("setup", serving', 0, s.req)
      BY <1>1, <1>2 DEF Where, Types, Data, Contents, Content
    <2>2. Claimed'
      BY <1>1, <1>2, <1>3, <1>4, <2>1 DEF Claimed
    <2>. QED BY <1>1, <1>2, <1>3, <1>4, <2>2 DEF Phases
  <1>. QED BY <1>1, <1>5, <1>6, <1>7, <1>8 DEF DeviceOK

\* The fields of the descriptor values the firmware writes.
LEMMA ArmedFields ==
    /\ ForSetup.own /\ ForSetup.stall /\ ForSetup.adr = "SetupPkt" /\ ForSetup.pid = "none"
    /\ [ForSetup EXCEPT !.chk = TRUE].own /\ [ForSetup EXCEPT !.chk = TRUE].stall
    /\ [ForSetup EXCEPT !.chk = TRUE].adr = "SetupPkt" /\ [ForSetup EXCEPT !.chk = TRUE].pid = "none"
    /\ ForStatus.own /\ ~ForStatus.stall /\ ForStatus.adr = "SetupPkt" /\ ForStatus.pid = "none" /\ ~ForStatus.chk
    /\ \A d : /\ ForData(d).own /\ ~ForData(d).stall /\ ForData(d).adr = "CtrlTrfData" /\ ForData(d).pid = "none"
              /\ ForData(d).chk /\ ForData(d).dts = d
    /\ StalledIn.own /\ StalledIn.stall
    /\ \A n : [StalledIn EXCEPT !.cnt = n].own /\ [StalledIn EXCEPT !.cnt = n].stall /\ [StalledIn EXCEPT !.cnt = n].cnt = n
    /\ \A d, n : Sending(d, n).own /\ ~Sending(d, n).stall /\ Sending(d, n).dts = d /\ Sending(d, n).cnt = n
  BY DEF ForSetup, ForStatus, ForData, StalledIn, Sending, FreeOut, FreeIn

\* Between the claim of a pipe and its arming nothing is armed and nothing waits.
LEMMA ClaimedFacts ==
    ASSUME Types, DeviceOK, pc \in {"complete", "arm"}
    PROVE  /\ Claimed /\ (pktdis <=> pc = "complete")
           /\ ustat = <<>> /\ InFifo = {} /\ OutFifo = {} /\ inPtr \in 0..1 /\ outNext \in 0..1
           /\ sieIn = inPtr /\ ~inBD[0].own /\ ~inBD[1].own /\ ~outBD[0].own /\ ~outBD[1].own
           /\ ctrl = "WAIT_SETUP" /\ sieOut = outNext /\ handled = 0 /\ short = "NOT_USED"
           /\ \A b \in 0..1 : ~outBD[b].own /\ ~inBD[b].own
  <1>1. Claimed /\ (pktdis <=> pc = "complete")
    BY DEF DeviceOK, Phases
  <1>2. ustat = <<>> /\ InFifo = {} /\ OutFifo = {}
    BY <1>1, FifoEmpty DEF Claimed, DeviceOK
  <1>3. sieIn = inPtr /\ ~inBD[inPtr].own /\ ~inBD[1 - inPtr].own /\ inPtr \in {0, 1}
    BY <1>2 DEF DeviceOK, InOK, Types, Pointers
  <1>. QED BY <1>1, <1>2, <1>3 DEF Claimed, Types, Pointers

\* Clearing PKTDIS finds nothing a packet could use.
LEMMA CompletesOK ==
    ASSUME Types, DeviceOK, Completes
    PROVE  Types' /\ DeviceOK'
  <1>1. /\ pc = "complete" /\ pktdis' = FALSE /\ pc' = "arm"
        /\ UNCHANGED <<outBD, inBD, sieOut, sieIn, ustat, stallIF, outCur, outNext, inPtr, ctrl, pipes, flags,
                       USBDeviceState, U1ADDR, SetupPkt, CtrlTrfData, serving, handled, wire>>
    BY DEF Completes
  <1>2. InFifo' = InFifo /\ OutFifo' = OutFifo
    BY <1>1, FifoSame
  <1>3. Types'
    <2>1. Descriptors' /\ Pointers' /\ Modes' /\ Fifo'
      BY <1>1 DEF Types, Descriptors, Pointers, Modes, Fifo, pipes
    <2>2. Flags' /\ Numbers' /\ Data' /\ Host'
      BY <1>1 DEF Types, Flags, Numbers, Data, Host, pipes, flags, wire
    <2>. QED BY <2>1, <2>2 DEF Types
  <1>4. FifoOK'
    BY <1>1, <1>2, FifoStays DEF DeviceOK
  <1>5. InOK'
    BY <1>1, <1>2, ClaimedFacts DEF InOK, flags
  <1>6. OutOK'
    BY <1>1, <1>2, ClaimedFacts DEF OutOK
  <1>7. Phases'
    <2>1. Claimed'
      BY <1>1, ClaimedFacts DEF Claimed, pipes
    <2>. QED BY <1>1, <2>1, ClaimedFacts DEF Phases, DeviceOK
  <1>. QED BY <1>3, <1>4, <1>5, <1>6, <1>7 DEF DeviceOK

\* What ArmsPipe leaves alone, and what it finds.
LEMMA ArmsPipeFacts ==
    ASSUME Types, DeviceOK, ArmsPipe
    PROVE  /\ UNCHANGED <<sieOut, sieIn, ustat, pktdis, stallIF, outCur, outNext, inPtr, inBusy, outBusy, outCount, bothOwned,
                          timer, USBDeviceState, U1ADDR, SetupPkt, serving, handled, wire, InFifo, OutFifo>>
           /\ pc = "arm" /\ ustat = <<>> /\ InFifo = {} /\ OutFifo = {} /\ ~pktdis
           /\ sieIn = inPtr /\ sieOut = outNext /\ outNext \in 0..1 /\ inPtr \in 0..1
           /\ \A b \in 0..1 : ~outBD[b].own /\ ~inBD[b].own
           /\ ctrl = "WAIT_SETUP" /\ handled = 0 /\ short = "NOT_USED" /\ Claimed
           /\ outBD \in [0..1 -> OutDescriptor] /\ inBD \in [0..1 -> InDescriptor]
           /\ (ctrl' \in {"WAIT_SETUP", "TX", "RX"} => FifoOK')
  <1>1. /\ UNCHANGED <<sieOut, sieIn, ustat, pktdis, stallIF, outCur, outNext, inPtr, inBusy, outBusy, outCount, bothOwned,
                       timer, USBDeviceState, U1ADDR, SetupPkt, serving, handled, wire>>
        /\ pc = "arm"
    BY DEF ArmsPipe, sie
  <1>2. UNCHANGED <<InFifo, OutFifo>>
    BY <1>1, FifoSame
  <1>3. FifoOK'
    BY <1>1, <1>2, FifoStays, ClaimedFacts DEF DeviceOK
  <1>. QED BY <1>1, <1>2, <1>3, ClaimedFacts DEF Types, Descriptors, Pointers

\* Arming for the data of a control write.
LEMMA AwaitsDataOK ==
    ASSUME Types, DeviceOK, AwaitsData
    PROVE  Types' /\ DeviceOK'
  <1>1. /\ ~inBusy /\ outBusy /\ ctrl' = "RX" /\ outBD' = [outBD EXCEPT ![outNext] = ForData(1)]
        /\ statusEnabled' = FALSE /\ pc' = "idle"
        /\ UNCHANGED <<inBD, short, inCount, pSrc, CtrlTrfData>>
    BY DEF AwaitsData, Arms
  <1>2. ArmsPipe
    BY DEF AwaitsData
  <1>3. /\ SetupPkt.req.kind = "write" /\ outCount = SetupPkt.req.asks /\ outCount > 0
    <2>1. SetupPkt.req.kind = "write" /\ outCount = SetupPkt.req.asks
      BY <1>1, <1>2, ArmsPipeFacts DEF Claimed
    <2>2. SetupPkt.req \in Requests
      BY <1>2, ArmsPipeFacts DEF Claimed
    <2>. QED BY <2>1, <2>2, Ep0Assumption DEF Types, Numbers
  <1>4. outBD'[outNext] = ForData(1) /\ \A b \in 0..1 : b # outNext => ~outBD'[b].own
    BY <1>1, <1>2, ArmsPipeFacts
  <1>5. Types'
    <2>1. Descriptors'
      BY <1>1, <1>2, ArmsPipeFacts, ArmedTypes DEF Descriptors
    <2>2. Pointers' /\ Modes' /\ Fifo' /\ Flags'
      BY <1>1, <1>2, ArmsPipeFacts DEF Types, Pointers, Modes, Fifo, Flags
    <2>3. Numbers' /\ Data' /\ Host'
      BY <1>1, <1>2, ArmsPipeFacts DEF Types, Numbers, Data, Host, wire
    <2>. QED BY <2>1, <2>2, <2>3 DEF Types
  <1>6. InOK'
    BY <1>1, <1>2, ArmsPipeFacts DEF InOK
  <1>7. OutOK'
    BY <1>1, <1>2, <1>3, <1>4, ArmsPipeFacts, ArmedFields DEF OutOK, ArmedOut, ArmedForData
  <1>8. Phases'
    BY <1>1, <1>2, <1>3, <1>4, ArmsPipeFacts, ArmedFields DEF Phases
  <1>. QED BY <1>1, <1>2, <1>5, <1>6, <1>7, <1>8, ArmsPipeFacts DEF DeviceOK

\* Stalling OUT for a request no handler claims.
LEMMA StallsOutOK ==
    ASSUME Types, DeviceOK, StallsOut
    PROVE  Types' /\ DeviceOK'
  <1>1. /\ ~inBusy /\ ~outBusy /\ outBD' = [outBD EXCEPT ![outNext] = [ForSetup EXCEPT !.chk = TRUE]] /\ pc' = "stallIn"
        /\ UNCHANGED <<inBD, ctrl, short, inCount, pSrc, statusEnabled, CtrlTrfData>>
    BY DEF StallsOut, Arms
  <1>2. ArmsPipe
    BY DEF StallsOut
  <1>3. outBD'[outNext] = [ForSetup EXCEPT !.chk = TRUE] /\ \A b \in 0..1 : b # outNext => ~outBD'[b].own
    BY <1>1, <1>2, ArmsPipeFacts
  <1>4. Types'
    <2>1. Descriptors'
      BY <1>1, <1>2, ArmsPipeFacts, ArmedTypes DEF Descriptors
    <2>2. Pointers' /\ Modes' /\ Fifo' /\ Flags'
      BY <1>1, <1>2, ArmsPipeFacts DEF Types, Pointers, Modes, Fifo, Flags
    <2>3. Numbers' /\ Data' /\ Host'
      BY <1>1, <1>2, ArmsPipeFacts DEF Types, Numbers, Data, Host, wire
    <2>. QED BY <2>1, <2>2, <2>3 DEF Types
  <1>5. InOK'
    BY <1>1, <1>2, ArmsPipeFacts DEF InOK
  <1>6. OutOK'
    BY <1>1, <1>2, <1>3, ArmsPipeFacts, ArmedFields DEF OutOK, ArmedOut
  <1>7. Phases'
    BY <1>1, <1>2, <1>3, ArmsPipeFacts, ArmedFields DEF Phases
  <1>. QED BY <1>1, <1>2, <1>4, <1>5, <1>6, <1>7, ArmsPipeFacts DEF DeviceOK

\* Arming for the SETUP after a request without data.
LEMMA AwaitsSetupOK ==
    ASSUME Types, DeviceOK, AwaitsSetup
    PROVE  Types' /\ DeviceOK'
  <1>1. /\ inBusy /\ SetupPkt.req.kind # "read" /\ outBD' = [outBD EXCEPT ![outNext] = ForSetup] /\ pc' = "status"
        /\ ctrl' = "RX" /\ statusEnabled' = FALSE
        /\ UNCHANGED <<inBD, short, inCount, pSrc, CtrlTrfData>>
    BY DEF AwaitsSetup, Arms
  <1>2. ArmsPipe
    BY DEF AwaitsSetup
  <1>3. outBD'[outNext] = ForSetup /\ \A b \in 0..1 : b # outNext => ~outBD'[b].own
    BY <1>1, <1>2, ArmsPipeFacts
  <1>4. Types'
    <2>1. Descriptors'
      BY <1>1, <1>2, ArmsPipeFacts, ArmedTypes DEF Descriptors
    <2>2. Pointers' /\ Modes' /\ Fifo' /\ Flags'
      BY <1>1, <1>2, ArmsPipeFacts DEF Types, Pointers, Modes, Fifo, Flags
    <2>3. Numbers' /\ Data' /\ Host'
      BY <1>1, <1>2, ArmsPipeFacts DEF Types, Numbers, Data, Host, wire
    <2>. QED BY <2>1, <2>2, <2>3 DEF Types
  <1>5. InOK'
    BY <1>1, <1>2, ArmsPipeFacts DEF InOK
  <1>6. OutOK'
    BY <1>1, <1>2, <1>3, ArmsPipeFacts, ArmedFields DEF OutOK, ArmedOut
  <1>7. Phases'
    BY <1>1, <1>2, <1>3, ArmsPipeFacts, ArmedFields DEF Phases
  <1>. QED BY <1>1, <1>2, <1>4, <1>5, <1>6, <1>7, ArmsPipeFacts DEF DeviceOK

\* USBCtrlTrfTxService, with n bytes left.
LEMMA TxServiceFacts ==
    ASSUME Types, NEW n \in Nat, TxService(n)
    PROVE  /\ inCount' = n - Least(Packet, n) /\ inCount' \in Nat
           /\ short' \in {"NOT_USED", "PENDING", "SENT"} /\ CtrlTrfData' \in Contents /\ pSrc' \in Contents
           /\ pSrc' = [pSrc EXCEPT !.pos = @ + Least(Packet, n)]
           /\ Least(Packet, n) = 0 => CtrlTrfData' = CtrlTrfData
           /\ Least(Packet, n) # 0 => CtrlTrfData' = pSrc
  <1> DEFINE m == Least(Packet, n)
  <1>1. m \in Nat /\ m <= n
    BY ArmedTypes
  <1>2. /\ inCount' = n - m /\ pSrc' = [pSrc EXCEPT !.pos = @ + m]
        /\ CtrlTrfData' = (IF m = 0 THEN CtrlTrfData ELSE pSrc)
        /\ short' \in {short, "PENDING", "SENT"}
    BY DEF TxService
  <1>3. pSrc' \in Contents
    BY <1>1, <1>2 DEF Types, Data, Contents
  <1>. QED BY <1>1, <1>2, <1>3 DEF Types, Data, Modes

\* Arming the first packet of a control read.
LEMMA SendsFirstOK ==
    ASSUME Types, DeviceOK, SendsFirst
    PROVE  Types' /\ DeviceOK'
  <1> DEFINE n == Least(SetupPkt.req.asks, inCount)
  <1>1. /\ inBusy /\ SetupPkt.req.kind = "read" /\ inBD' = [inBD EXCEPT ![inPtr] = Sending(1, Least(Packet, n))]
        /\ pc' = "status" /\ ctrl' = "TX" /\ statusEnabled' = FALSE /\ outBD' = outBD /\ TxService(n)
    BY DEF SendsFirst, ArmsIn
  <1>2. ArmsPipe
    BY DEF SendsFirst
  <1>3. n \in Nat
    BY DEF Types, Data, Contents, Request, Numbers, Least
  <1>4. inBD'[inPtr] = Sending(1, Least(Packet, n)) /\ \A b \in 0..1 : b # inPtr => ~inBD'[b].own
    BY <1>1, <1>2, ArmsPipeFacts
  <1>5. Types'
    <2>1. Sending(1, Least(Packet, n)) \in InDescriptor
      BY <1>3, ArmedTypes
    <2>2. Descriptors'
      BY <1>1, <1>2, <2>1, ArmsPipeFacts DEF Descriptors
    <2>3. Pointers' /\ Modes' /\ Fifo' /\ Flags'
      BY <1>1, <1>2, <1>3, TxServiceFacts, ArmsPipeFacts DEF Types, Pointers, Modes, Fifo, Flags
    <2>4. Numbers' /\ Data' /\ Host'
      BY <1>1, <1>2, <1>3, TxServiceFacts, ArmsPipeFacts DEF Types, Numbers, Data, Host, wire
    <2>. QED BY <2>2, <2>3, <2>4 DEF Types
  <1>6. InOK'
    BY <1>1, <1>2, <1>4, ArmsPipeFacts DEF InOK
  <1>7. OutOK'
    BY <1>1, <1>2, ArmsPipeFacts DEF OutOK
  <1>8. Phases'
    <2>1. outCur' = 1 - outNext' /\ ~outBusy'
      BY <1>1, <1>2, ArmsPipeFacts DEF Claimed
    <2>2. ReadPhases'
      BY <1>1, <1>2, <2>1, ArmsPipeFacts DEF ReadPhases
    <2>. QED BY <1>1, <1>2, <2>1, <2>2, ArmsPipeFacts DEF Phases
  <1>. QED BY <1>1, <1>2, <1>5, <1>6, <1>7, <1>8, ArmsPipeFacts DEF DeviceOK

\* What the actions that write one descriptor leave alone.
LEMMA HeldFacts ==
    ASSUME Types, DeviceOK, UNCHANGED held
    PROVE  /\ UNCHANGED <<sieOut, sieIn, ustat, pktdis, stallIF, outCur, outNext, inPtr, U1ADDR, USBDeviceState, SetupPkt,
                          CtrlTrfData, timer, serving, wire, InFifo, OutFifo>>
           /\ Pointers' /\ Fifo' /\ Host'
           /\ outBD \in [0..1 -> OutDescriptor] /\ inBD \in [0..1 -> InDescriptor]
           /\ outNext \in 0..1 /\ outCur \in 0..1 /\ inPtr \in 0..1 /\ sieOut \in 0..1
  <1>1. UNCHANGED <<sieOut, sieIn, ustat, pktdis, stallIF, outCur, outNext, inPtr, U1ADDR, USBDeviceState, SetupPkt,
                    CtrlTrfData, timer, serving, wire>>
    BY DEF held, sie
  <1>2. Host'
    BY <1>1 DEF Types, Host, wire
  <1>. QED BY <1>1, <1>2, FifoSame DEF Types, Pointers, Fifo, Descriptors

\* Stalling IN after OUT.
LEMMA StallsInOK ==
    ASSUME Types, DeviceOK, StallsIn
    PROVE  Types' /\ DeviceOK'
  <1>1. /\ pc = "stallIn" /\ inBD' = [inBD EXCEPT ![inPtr] = StalledIn] /\ pc' = "idle"
        /\ UNCHANGED <<held, outBD, ctrl, pipes, bothOwned, statusEnabled, handled>>
    BY DEF StallsIn, ArmsIn
  <1>2. inBD'[inPtr] = StalledIn /\ \A b \in 0..1 : b # inPtr => inBD'[b] = inBD[b]
    BY <1>1, HeldFacts
  <1>3. Types'
    <2>1. Descriptors'
      BY <1>1, HeldFacts, ArmedTypes DEF Descriptors
    <2>2. Modes' /\ Flags' /\ Numbers' /\ Data'
      BY <1>1, HeldFacts DEF Types, Modes, Flags, Numbers, Data, pipes
    <2>. QED BY <1>1, <2>1, <2>2, HeldFacts DEF Types
  <1>4. FifoOK'
    BY <1>1, HeldFacts, FifoStays DEF DeviceOK
  <1>5. ctrl = "WAIT_SETUP" /\ InFifo = {} /\ sieIn = inPtr
    BY <1>1 DEF DeviceOK, Phases, ReadPhases, InOK, Types, Modes
  <1>6. InOK'
    BY <1>1, <1>2, <1>5, HeldFacts DEF InOK, DeviceOK
  <1>7. OutOK'
    BY <1>1, <1>5, HeldFacts DEF OutOK, ArmedOut, ArmedForData, DataOf, StatusOf, Where, DeviceOK
  <1>8. Phases'
    BY <1>1, <1>5, HeldFacts DEF Phases, DeviceOK, pipes
  <1>. QED BY <1>3, <1>4, <1>6, <1>7, <1>8 DEF DeviceOK

\* Arming the status packet of a request without data, or of a control write.
LEMMA AllowsStatusInOK ==
    ASSUME Types, DeviceOK, AllowsStatusIn
    PROVE  Types' /\ DeviceOK'
  <1>1. /\ pc = "status" /\ ctrl = "RX" /\ inBD' = [inBD EXCEPT ![inPtr] = Sending(1, 0)] /\ pc' = "idle"
        /\ statusEnabled' = TRUE
        /\ UNCHANGED <<held, outBD, ctrl, pipes, bothOwned, handled>>
    BY DEF AllowsStatusIn, ArmsIn
  <1>2. inBD'[inPtr] = Sending(1, 0) /\ \A b \in 0..1 : b # inPtr => inBD'[b] = inBD[b]
    BY <1>1, HeldFacts
  <1>3. Types'
    <2>1. Sending(1, 0) \in InDescriptor
      <3>1. 0 \in 0..Packet
        BY Ep0Assumption
      <3>. QED BY ArmedTypes, <3>1 DEF Sending, InDescriptor
    <2>2. Descriptors'
      BY <1>1, <2>1, HeldFacts DEF Descriptors
    <2>3. Modes' /\ Flags' /\ Numbers' /\ Data'
      BY <1>1, HeldFacts DEF Types, Modes, Flags, Numbers, Data, pipes
    <2>. QED BY <1>1, <2>2, <2>3, HeldFacts DEF Types
  <1>4. FifoOK'
    BY <1>1, HeldFacts, FifoStays DEF DeviceOK
  <1>5. InFifo = {} /\ sieIn = inPtr /\ ~statusEnabled
    BY <1>1 DEF DeviceOK, Phases, InOK, Types, Flags
  <1>6. InOK'
    BY <1>1, <1>2, <1>5, HeldFacts DEF InOK, DeviceOK
  <1>7. OutOK'
    BY <1>1, HeldFacts DEF OutOK, ArmedOut, ArmedForData, DataOf, StatusOf, Where, DeviceOK, pipes
  <1>8. Phases'
    BY <1>1, HeldFacts DEF Phases, DeviceOK, pipes
  <1>. QED BY <1>3, <1>4, <1>6, <1>7, <1>8 DEF DeviceOK

\* Arming the descriptor behind the status packet of a control read, before that of the packet.
LEMMA AllowsStatusOutOK ==
    ASSUME Types, DeviceOK, AllowsStatusOut
    PROVE  Types' /\ DeviceOK'
  <1>1. /\ pc = "status" /\ ctrl = "TX" /\ outBD' = [outBD EXCEPT ![outCur] = ForSetup] /\ pc' = "statusNext"
        /\ bothOwned' = TRUE /\ statusEnabled' = TRUE
        /\ UNCHANGED <<held, inBD, ctrl, pipes, handled>>
    BY DEF AllowsStatusOut, Arms
  <1>2. /\ OutFifo = {} /\ ~outBD[0].own /\ ~outBD[1].own /\ sieOut = outNext /\ outCur = 1 - outNext
    BY <1>1 DEF DeviceOK, Phases, ReadPhases
  <1>3. outBD'[outCur] = ForSetup /\ ~outBD'[outNext].own
    BY <1>1, <1>2, HeldFacts
  <1>4. Types'
    <2>1. Descriptors'
      BY <1>1, HeldFacts, ArmedTypes DEF Descriptors
    <2>2. Modes' /\ Flags' /\ Numbers' /\ Data'
      BY <1>1, HeldFacts DEF Types, Modes, Flags, Numbers, Data, pipes
    <2>. QED BY <1>1, <2>1, <2>2, HeldFacts DEF Types
  <1>5. FifoOK'
    BY <1>1, <1>2, HeldFacts, FifoStays DEF DeviceOK
  <1>6. InOK'
    BY <1>1, HeldFacts DEF InOK, DeviceOK
  <1>7. ~pktdis
    BY <1>1, <1>2 DEF DeviceOK, OutOK
  <1>8. OutOK'
    BY <1>1, <1>2, <1>3, <1>7, HeldFacts, ArmedFields DEF OutOK, ArmedOut
  <1>9. Phases'
    <2>1. ReadPhases'
      BY <1>1, <1>2, <1>3, HeldFacts, ArmedFields DEF ReadPhases
    <2>. QED BY <1>1, <2>1, HeldFacts DEF Phases, DeviceOK, pipes
  <1>. QED BY <1>4, <1>5, <1>6, <1>8, <1>9 DEF DeviceOK

\* Arming for the status packet of a control read.
LEMMA ArmsStatusOutOK ==
    ASSUME Types, DeviceOK, ArmsStatusOut
    PROVE  Types' /\ DeviceOK'
  <1>1. /\ pc = "statusNext" /\ outBD' = [outBD EXCEPT ![outNext] = ForStatus] /\ pc' = "idle"
        /\ UNCHANGED <<held, inBD, ctrl, pipes, bothOwned, statusEnabled, handled>>
    BY DEF ArmsStatusOut, Arms
  <1>2. ctrl = "TX"
    BY <1>1 DEF DeviceOK, Phases, Types, Modes
  <1>3. /\ OutFifo = {} /\ sieOut = outNext /\ outCur = 1 - outNext /\ bothOwned
        /\ outBD[outCur].own /\ outBD[outCur].stall /\ ArmedOut(outCur) /\ statusEnabled
    BY <1>1, <1>2 DEF DeviceOK, Phases, ReadPhases, OutOK, Types, Pointers
  <1>4. outBD'[outNext] = ForStatus /\ outBD'[outCur] = outBD[outCur]
    BY <1>1, <1>3, HeldFacts
  <1>5. Types'
    <2>1. Descriptors'
      BY <1>1, HeldFacts, ArmedTypes DEF Descriptors
    <2>2. Modes' /\ Flags' /\ Numbers' /\ Data'
      BY <1>1, HeldFacts DEF Types, Modes, Flags, Numbers, Data, pipes
    <2>. QED BY <1>1, <2>1, <2>2, HeldFacts DEF Types
  <1>6. FifoOK'
    BY <1>1, <1>3, HeldFacts, FifoStays DEF DeviceOK
  <1>7. InOK'
    BY <1>1, <1>2, HeldFacts DEF InOK, DeviceOK
  <1>8. ~pktdis
    BY <1>1, <1>3 DEF DeviceOK, OutOK
  <1>9. OutOK'
    BY <1>1, <1>2, <1>3, <1>4, <1>8, HeldFacts, ArmedFields DEF OutOK, ArmedOut, ArmedForData
  <1>10. Phases'
    <2>1. ReadPhases'
      BY <1>1, <1>2, <1>3, <1>4, HeldFacts, ArmedFields DEF ReadPhases
    <2>. QED BY <1>1, <1>2, <2>1, HeldFacts DEF Phases, DeviceOK, pipes
  <1>. QED BY <1>5, <1>6, <1>7, <1>9, <1>10 DEF DeviceOK

\* A status stage allowed when there is none to arm.
LEMMA AllowsNothingOK ==
    ASSUME Types, DeviceOK, AllowsNothing
    PROVE  Types' /\ DeviceOK'
  <1>1. /\ pc = "status" /\ ctrl = "WAIT_SETUP" /\ statusEnabled' = TRUE /\ pc' = "idle"
        /\ UNCHANGED <<held, outBD, inBD, ctrl, pipes, bothOwned, handled>>
    BY DEF AllowsNothing
  <1>2. Types'
    <2>1. Descriptors' /\ Modes' /\ Flags' /\ Numbers' /\ Data'
      BY <1>1, HeldFacts DEF Types, Descriptors, Modes, Flags, Numbers, Data, pipes
    <2>. QED BY <1>1, <2>1, HeldFacts DEF Types
  <1>3. FifoOK'
    BY <1>1, HeldFacts, FifoStays DEF DeviceOK
  <1>4. InOK'
    BY <1>1, HeldFacts DEF InOK, DeviceOK
  <1>5. OutOK'
    BY <1>1, HeldFacts DEF OutOK, ArmedOut, ArmedForData, DataOf, StatusOf, Where, DeviceOK, pipes
  <1>6. Phases'
    BY <1>1, HeldFacts DEF Phases, DeviceOK, pipes
  <1>. QED BY <1>2, <1>3, <1>4, <1>5, <1>6 DEF DeviceOK

\* The report of a control write is handled.
LEMMA HandlesOK ==
    ASSUME Types, DeviceOK, Handles
    PROVE  Types' /\ DeviceOK'
  <1>1. /\ pc = "handle" /\ handled' = handled + 1 /\ outBusy' = FALSE
        /\ pc' = (IF statusEnabled THEN "idle" ELSE "status")
        /\ UNCHANGED <<held, outBD, inBD, ctrl, short, inBusy, inCount, outCount, pSrc, bothOwned, statusEnabled>>
    BY DEF Handles, AfterStatus
  <1>2. ctrl = "RX" /\ outBusy /\ outCount = 0 /\ handled = 0
    BY <1>1 DEF DeviceOK, Phases, Types, Modes, ReadPhases
  <1>3. Types'
    <2>1. Descriptors'
      BY <1>1 DEF Types, Descriptors
    <2>2. Modes'
      BY <1>1, HeldFacts DEF Types, Modes
    <2>3. Flags'
      BY <1>1, HeldFacts DEF Types, Flags
    <2>4. Numbers' /\ Data'
      BY <1>1, HeldFacts DEF Types, Numbers, Data
    <2>. QED BY <1>1, <2>1, <2>2, <2>3, <2>4, HeldFacts DEF Types
  <1>4. FifoOK'
    BY <1>1, HeldFacts, FifoStays DEF DeviceOK
  <1>5. InOK'
    BY <1>1, HeldFacts DEF InOK, DeviceOK
  <1>6. OutOK'
    BY <1>1, <1>2, HeldFacts DEF OutOK, ArmedOut, ArmedForData, DataOf, StatusOf, Where, DeviceOK
  <1>7. Phases'
    BY <1>1, <1>2, HeldFacts DEF Phases, DeviceOK, Types, Numbers
  <1>. QED BY <1>3, <1>4, <1>5, <1>6, <1>7 DEF DeviceOK

\* The report is handled of a control write whose status stage came first.
LEMMA HandlesEarlyOK ==
    ASSUME Types, DeviceOK, HandlesEarly
    PROVE  Types' /\ DeviceOK'
  <1>1. /\ pc = "handleEarly" /\ handled' = handled + 1 /\ outBusy' = FALSE /\ ctrl' = "WAIT_SETUP" /\ pc' = "idle"
        /\ UNCHANGED <<held, outBD, inBD, short, inBusy, inCount, outCount, pSrc, bothOwned, statusEnabled>>
    BY DEF HandlesEarly
  <1>2. ctrl = "RX" /\ outBusy /\ handled = 0
    BY <1>1 DEF DeviceOK, Phases, Types, Modes, ReadPhases
  <1>3. Types'
    <2>1. Descriptors'
      BY <1>1 DEF Types, Descriptors
    <2>2. Modes'
      BY <1>1, HeldFacts DEF Types, Modes
    <2>3. Flags'
      BY <1>1, HeldFacts DEF Types, Flags
    <2>4. Numbers' /\ Data'
      BY <1>1, HeldFacts DEF Types, Numbers, Data
    <2>. QED BY <1>1, <2>1, <2>2, <2>3, <2>4, HeldFacts DEF Types
  <1>4. FifoOK'
    BY <1>1, HeldFacts, FifoStays DEF DeviceOK
  <1>5. InOK'
    BY <1>1, HeldFacts DEF InOK, DeviceOK
  <1>6. OutOK'
    BY <1>1, <1>2, HeldFacts DEF OutOK, ArmedOut, ArmedForData, DataOf, StatusOf, Where, DeviceOK
  <1>7. Phases'
    BY <1>1, <1>2, HeldFacts DEF Phases, DeviceOK, Types, Numbers
  <1>. QED BY <1>3, <1>4, <1>5, <1>6, <1>7 DEF DeviceOK

\* A millisecond of the time-out only writes the counter and the place of the routine.
LEMMA FrameStartsOK ==
    ASSUME Types, DeviceOK, FrameStarts
    PROVE  Types' /\ DeviceOK'
  <1>1. /\ pc = "idle" /\ timer' = (IF timer = 0 THEN 0 ELSE timer - 1)
        /\ pc' = "idle" \/ (pc' = "status" /\ ~statusEnabled)
        /\ UNCHANGED <<outBD, inBD, sieOut, sieIn, ustat, pktdis, stallIF, outCur, outNext, inPtr, ctrl, pipes, bothOwned,
                       statusEnabled, USBDeviceState, U1ADDR, SetupPkt, CtrlTrfData, serving, handled, wire>>
    BY DEF FrameStarts, AfterStatus, Idle, sie
  <1>2. InFifo' = InFifo /\ OutFifo' = OutFifo
    BY <1>1, FifoSame
  <1>3. ctrl = "TX" => pc' = "idle"
    BY <1>1 DEF DeviceOK, Phases, ReadPhases
  <1>4. Types'
    <2>1. Descriptors' /\ Pointers' /\ Modes' /\ Fifo'
      BY <1>1 DEF Types, Descriptors, Pointers, Modes, Fifo, pipes
    <2>2. timer' \in 0..Timeout
      BY <1>1, Ep0Assumption DEF Types, Numbers
    <2>3. Flags' /\ Numbers' /\ Data' /\ Host'
      BY <1>1, <2>2 DEF Types, Flags, Numbers, Data, Host, pipes, wire
    <2>. QED BY <2>1, <2>3 DEF Types
  <1>5. FifoOK'
    BY <1>1, <1>2, FifoStays DEF DeviceOK
  <1>6. InOK'
    BY <1>1, <1>2 DEF InOK, DeviceOK
  <1>7. OutOK'
    BY <1>1, <1>2, <1>3 DEF OutOK, ArmedOut, ArmedForData, DataOf, StatusOf, SetupWaits, Where, DeviceOK, pipes
  <1>8. Phases'
    <2>1. ctrl = "TX" => ReadPhases'
      BY <1>1, <1>2, <1>3 DEF Phases, ReadPhases, Fresh, DeviceOK
    <2>. QED BY <1>1, <1>2, <1>3, <2>1 DEF Phases, DeviceOK, pipes
  <1>. QED BY <1>4, <1>5, <1>6, <1>7, <1>8 DEF DeviceOK

\* USBDeviceInit starts afresh from wherever the transfer was.
LEMMA ResetsOK ==
    ASSUME Types, DeviceOK, NEW hostStage \in {"idle", "data", "status", "done", "stalled"}, NEW address \in Nat,
           Resets(hostStage, address)
    PROVE  Types' /\ DeviceOK' /\ Fresh'
  <1>1. /\ pc = "idle" /\ outBD' = [b \in 0..1 |-> IF b = 0 THEN ForSetup ELSE FreeOut]
        /\ inBD' = [b \in 0..1 |-> FreeIn]
        /\ sieOut' = 0 /\ sieIn' = 0 /\ inPtr' = 0 /\ ustat' = <<>> /\ pktdis' = FALSE /\ stallIF' = FALSE
        /\ statusEnabled' = TRUE /\ U1ADDR' = 0 /\ USBDeviceState' = "DEFAULT"
        /\ (outBusy' = FALSE /\ inBusy' = FALSE) \/ (outBusy' = outBusy /\ inBusy' = inBusy)
        /\ outCount' \in {0, outCount}
        /\ stage' = hostStage /\ hAddr' = address
        /\ UNCHANGED <<outCur, outNext, ctrl, short, inCount, pSrc, bothOwned, timer, SetupPkt, CtrlTrfData, pc, serving,
                       handled, req, turn, hLeft, hDts, lost>>
    BY DEF Resets, Idle
  <1>2. /\ outBD'[0] = ForSetup /\ outBD'[1] = FreeOut /\ inBD'[0] = FreeIn /\ inBD'[1] = FreeIn
        /\ ~FreeOut.own /\ ~FreeIn.own
    BY <1>1 DEF FreeOut, FreeIn
  <1>3. FifoOK' /\ InFifo' = {} /\ OutFifo' = {} /\ Fifo'
    <2>1. \A i \in 1..Len(ustat') : FALSE
      BY <1>1
    <2>2. ustat' \in Seq(Transaction) /\ Len(ustat') = 0
      BY <1>1
    <2>. QED BY <2>1, <2>2 DEF FifoOK, InFifo, OutFifo, Fifo
  <1>4. Types'
    <2>1. Descriptors'
      BY <1>1, ArmedTypes DEF Descriptors
    <2>2. Pointers' /\ Modes'
      BY <1>1 DEF Types, Pointers, Modes
    <2>3. Flags'
      BY <1>1 DEF Types, Flags
    <2>4. Numbers' /\ Data' /\ Host'
      BY <1>1 DEF Types, Numbers, Data, Host
    <2>. QED BY <1>3, <2>1, <2>2, <2>3, <2>4 DEF Types
  <1>5. Fresh'
    BY <1>1, <1>2 DEF Fresh
  <1>6. InOK'
    BY <1>1, <1>2, <1>3 DEF InOK
  <1>7. OutOK'
    BY <1>1, <1>2, <1>3, ArmedFields DEF OutOK, ArmedOut
  <1>8. Phases'
    <2>1. ReadPhases' 
      BY <1>1, <1>3, <1>5 DEF ReadPhases
    <2>. QED BY <1>1, <1>2, <1>3, <2>1, ArmedFields DEF Phases, DeviceOK, Types, Modes
  <1>. QED BY <1>3, <1>4, <1>5, <1>6, <1>7, <1>8 DEF DeviceOK

\* USBStallHandler finds its descriptors never as it tests for, and writes none.
LEMMA SeesStallOK ==
    ASSUME Types, DeviceOK, SeesStall
    PROVE  /\ UNCHANGED <<outBD, inBD, sie, firmware, SetupPkt, CtrlTrfData, wire>> /\ stallIF' = FALSE
           /\ pc = "idle"
  <1>1. /\ pc = "idle" /\ UNCHANGED <<inBD, sie, firmware, SetupPkt, CtrlTrfData, wire>> /\ stallIF' = FALSE
        /\ outBD[outCur] # ForStatus => outBD' = outBD
    BY DEF SeesStall, Idle
  <1>2. outBD[outCur] # ForStatus
    <2>1. outBD[outCur].own => ArmedOut(outCur)
      BY DEF DeviceOK, OutOK, Types, Pointers
    <2>. QED BY <2>1, ArmedFields DEF ArmedOut, ArmedForData
  <1>. QED BY <1>1, <1>2

\* What USBCtrlEPService leaves alone, and what the transaction served is.
LEMMA ServesFacts ==
    ASSUME Types, DeviceOK, NEW dir \in {"out", "in"}, Serves(dir)
    PROVE  /\ pc = "idle" /\ ustat # <<>> /\ ustat' = Tail(ustat) /\ Entry.buf \in 0..1 /\ Entry.dir = dir
           /\ UNCHANGED <<pktdis, stallIF, wire>> /\ timer' \in 0..Timeout
           /\ Fifo' /\ ~Fresh
           /\ dir = "in" => /\ Entry.buf \in InFifo /\ OutFifo' = OutFifo /\ InFifo' = InFifo \ {Entry.buf}
                            /\ ctrl = "RX" => \A b \in OutFifo : outBD[b].pid = "setup"
           /\ dir = "out" => /\ Entry.buf \in OutFifo /\ InFifo' = InFifo /\ OutFifo' = OutFifo \ {Entry.buf}
  <1>1. /\ pc = "idle" /\ ustat # <<>> /\ ustat' = Tail(ustat) /\ Entry.dir = dir
        /\ UNCHANGED <<pktdis, stallIF, wire>> /\ timer' = Timeout
    BY DEF Serves, Idle
  <1>2. timer' \in 0..Timeout /\ ~Fresh
    BY <1>1, Ep0Assumption DEF Fresh
  <1>3. Fifo'
    <2>1. ustat \in Seq(Transaction) /\ Len(ustat) <= 3
      BY DEF Types, Fifo
    <2>. QED BY <1>1, <2>1 DEF Fifo
  <1>. QED BY <1>1, <1>2, <1>3, FifoServed DEF DeviceOK, Transaction

\* A packet of a control write is counted and the next descriptor armed.
LEMMA TakesDataOK ==
    ASSUME Types, DeviceOK, TakesData
    PROVE  Types' /\ DeviceOK'
  <1> DEFINE b == Entry.buf
             left == outCount - Least(outBD[b].cnt, outCount)
             d == IF left > 0 THEN ForData(1 - outBD[b].dts) ELSE ForSetup
  <1>1. /\ outBD[b].pid # "setup" /\ ctrl = "RX" /\ outCur' = b /\ outNext' = 1 - b /\ outCount' = left
        /\ outBD' = [outBD EXCEPT ![1 - b] = d]
        /\ pc' = (IF left > 0 THEN "idle" ELSE "handle")
        /\ UNCHANGED <<inBD, sieOut, sieIn, inPtr, ctrl, short, inBusy, outBusy, inCount, pSrc, bothOwned,
                       statusEnabled, USBDeviceState, U1ADDR, SetupPkt, CtrlTrfData, serving, handled>>
    BY DEF TakesData, PointsAtOut, Arms
  <1>2. Serves("out")
    BY DEF TakesData
  <1>3. b \in OutFifo /\ b \in 0..1 /\ ~outBD[b].own /\ DataOf(b)
    <2>1. b \in OutFifo /\ b \in 0..1
      BY <1>2, ServesFacts
    <2>. QED BY <1>1, <2>1 DEF DeviceOK, OutOK, StatusOf
  <1>4. /\ outBusy /\ outCount > 0 /\ sieOut = 1 - b /\ OutFifo = {b} /\ ~outBD[1 - b].own
        /\ CtrlTrfData.what = "data" /\ CtrlTrfData.turn = serving /\ OutFifo' = {} /\ ~pktdis
    <2>1. /\ outBusy /\ outCount > 0 /\ sieOut = 1 - b /\ OutFifo = {b} /\ ~outBD[1 - b].own
          /\ CtrlTrfData.what = "data" /\ CtrlTrfData.turn = serving
      BY <1>3 DEF DataOf, Content
    <2>2. OutFifo' = {}
      BY <1>2, <2>1, ServesFacts
    <2>3. pc = "idle" /\ outBD[b].pid # "setup"
      BY <1>1, <1>2, ServesFacts
    <2>. QED BY <2>1, <2>2, <2>3 DEF DeviceOK, OutOK
  <1>5. left \in Nat
    BY <1>3 DEF Types, Numbers, Descriptors, OutDescriptor, Least
  <1>6. d \in OutDescriptor /\ d.own /\ d.pid = "none" /\ (left > 0 => ~d.stall /\ d.chk /\ d.adr = "CtrlTrfData")
        /\ (~(left > 0) => d.stall /\ d.adr = "SetupPkt")
    <2>1. 1 - outBD[b].dts \in 0..1
      BY <1>3, DescriptorTypes DEF Types, OutDescriptor
    <2>. QED BY <2>1, ArmedTypes, ArmedFields
  <1> HIDE DEF d, left
  <1>7. 1 - b \in 0..1 /\ outBD'[1 - b] = d /\ outBD'[b] = outBD[b] /\ outBD' \in [0..1 -> OutDescriptor]
        /\ \A c \in 0..1 : c = b \/ c = 1 - b
    BY <1>1, <1>3, <1>6 DEF Types, Descriptors
  <1>8. Types'
    <2>1. Descriptors' /\ Pointers' /\ Modes' /\ Flags'
      BY <1>1, <1>2, <1>3, <1>7, ServesFacts DEF Types, Descriptors, Pointers, Modes, Flags
    <2>2. Numbers' /\ Data' /\ Host'
      BY <1>1, <1>2, <1>5, ServesFacts DEF Types, Numbers, Data, Host, wire
    <2>. QED BY <1>2, <2>1, <2>2, ServesFacts DEF Types
  <1>9. FifoOK'
    BY <1>1, <1>2, <1>4, ServesFacts, FifoStays DEF DeviceOK
  <1>10. InOK'
    BY <1>1, <1>2, ServesFacts DEF InOK, DeviceOK
  <1>11. OutOK'
    BY <1>1, <1>2, <1>3, <1>4, <1>5, <1>6, <1>7, ServesFacts DEF OutOK, ArmedOut, ArmedForData
  <1>12. Phases'
    BY <1>1, <1>2, <1>3, <1>4, <1>5, <1>6, <1>7, ServesFacts DEF Phases, DeviceOK
  <1>. QED BY <1>8, <1>9, <1>10, <1>11, <1>12 DEF DeviceOK

\* The status packet of a control read leaves the next descriptor armed, or holding a SETUP.
LEMMA TakesStatusOK ==
    ASSUME Types, DeviceOK, TakesStatus
    PROVE  Types' /\ DeviceOK'
  <1> DEFINE b == Entry.buf
  <1>1. /\ outBD[b].pid # "setup" /\ ctrl # "RX" /\ outCur' = b /\ outNext' = 1 - b /\ ctrl' = "WAIT_SETUP"
        /\ bothOwned' = FALSE /\ (bothOwned => outBD' = outBD)
        /\ UNCHANGED <<inBD, sieOut, sieIn, inPtr, pipes, statusEnabled, USBDeviceState, U1ADDR, SetupPkt,
                       CtrlTrfData, pc, serving, handled>>
    BY DEF TakesStatus, PointsAtOut
  <1>2. Serves("out")
    BY DEF TakesStatus
  <1>3. b \in OutFifo /\ b \in 0..1 /\ ~outBD[b].own /\ StatusOf(b) /\ OutFifo' = OutFifo \ {b} /\ pc = "idle"
    <2>1. b \in OutFifo /\ b \in 0..1 /\ OutFifo' = OutFifo \ {b} /\ pc = "idle"
      BY <1>2, ServesFacts
    <2>. QED BY <1>1, <2>1 DEF DeviceOK, OutOK, DataOf
  <1>4. ctrl = "TX" /\ bothOwned /\ outBD' = outBD /\ ~outBusy
        /\ (SetupWaits(1 - b) \/ (sieOut = 1 - b /\ outBD[1 - b].own /\ outBD[1 - b].stall))
        /\ (\A c \in 0..1 : c = b \/ c = 1 - b)
    BY <1>1, <1>3 DEF StatusOf, DeviceOK, Phases
  <1>5. Types'
    <2>1. Descriptors' /\ Pointers' /\ Modes' /\ Flags'
      <3>1. Descriptors' /\ Pointers' /\ Modes'
        BY <1>1, <1>3, <1>4 DEF Types, Descriptors, Pointers, Modes, pipes
      <3>2. Flags'
        BY <1>1, <1>2, ServesFacts DEF Types, Flags, pipes
      <3>. QED BY <3>1, <3>2
    <2>2. Numbers' /\ Data' /\ Host'
      BY <1>1, <1>2, ServesFacts DEF Types, Numbers, Data, Host, wire, pipes
    <2>. QED BY <1>2, <2>1, <2>2, ServesFacts DEF Types
  <1>6. FifoOK'
    BY <1>1, <1>2, <1>4, ServesFacts, FifoStays DEF DeviceOK
  <1>7. InOK'
    BY <1>1, <1>2, <1>4, ServesFacts DEF InOK, DeviceOK
  <1>8. OutOK'
    <2>1. \A c \in 0..1 : outBD[c].own => outBD[c].stall /\ outBD[c].pid = "none" /\ outBD[c].adr = "SetupPkt"
      BY <1>3, <1>4, ArmedFields DEF DeviceOK, OutOK, ArmedOut, ArmedForData, SetupWaits
    <2>2. \A c \in OutFifo' : c = 1 - b /\ outBD[c].pid = "setup"
      <3>1. ASSUME NEW c \in OutFifo, c # b PROVE c = 1 - b /\ outBD[c].pid = "setup"
        BY <1>3, <1>4, <3>1 DEF SetupWaits, OutFifo, DeviceOK, OutOK
      <3>. QED BY <1>3, <3>1
    <2>3. pktdis => \E c \in OutFifo' : outBD[c].pid = "setup"
      BY <1>1, <1>3 DEF DeviceOK, OutOK
    <2>. QED BY <1>1, <1>2, <1>3, <1>4, <2>1, <2>2, <2>3, ServesFacts DEF OutOK, ArmedOut, DeviceOK, Where
  <1>9. Phases'
    <2>1. OutFifo' = {} => outBD[sieOut].own
      BY <1>3, <1>4 DEF SetupWaits
    <2>. QED BY <1>1, <1>2, <1>3, <1>4, <2>1, ServesFacts DEF Phases, DeviceOK, pipes
  <1>. QED BY <1>5, <1>6, <1>7, <1>8, <1>9 DEF DeviceOK

\* The IN transaction served is the packet at inPtr; the address and the device state are typed.
LEMMA ServesInFacts ==
    ASSUME Types, DeviceOK, ServesIn
    PROVE  /\ pc = "idle" /\ ustat # <<>> /\ ustat' = Tail(ustat) /\ ~Fresh
           /\ inPtr' = 1 - inPtr /\ inPtr \in 0..1 /\ inPtr' \in 0..1 /\ ~inBD[0].own /\ ~inBD[1].own
           /\ inPtr \in InFifo /\ InFifo' = {} /\ OutFifo' = OutFifo /\ sieIn = inPtr' /\ ~inBD[inPtr].stall
           /\ ctrl = "RX" => \A b \in OutFifo : outBD[b].pid = "setup"
           /\ UNCHANGED <<outBD, sieOut, sieIn, pktdis, stallIF, outCur, outNext, inBusy, outBusy, outCount, bothOwned,
                          statusEnabled, SetupPkt, serving, handled, wire>>
           /\ Fifo' /\ Host' /\ timer' \in 0..Timeout /\ U1ADDR' \in Nat
           /\ USBDeviceState' \in {"DEFAULT", "ADR_PENDING", "ADDRESS", "CONFIGURED"}
           /\ USBDeviceState # "ADR_PENDING" => U1ADDR' = U1ADDR /\ USBDeviceState' = USBDeviceState
           /\ USBDeviceState = "ADR_PENDING" => U1ADDR' = SetupPkt.req.val
  <1>1. /\ inPtr' = 1 - inPtr /\ Serves("in")
        /\ UNCHANGED <<outBD, sieOut, sieIn, outCur, outNext, inBusy, outBusy, outCount, bothOwned, statusEnabled,
                       SetupPkt, serving, handled>>
    BY DEF ServesIn
  <1>2. /\ pc = "idle" /\ ustat # <<>> /\ ustat' = Tail(ustat) /\ ~Fresh /\ Entry.buf \in InFifo
        /\ InFifo' = InFifo \ {Entry.buf} /\ OutFifo' = OutFifo /\ Fifo' /\ timer' \in 0..Timeout
        /\ UNCHANGED <<pktdis, stallIF, wire>>
        /\ (ctrl = "RX" => \A b \in OutFifo : outBD[b].pid = "setup")
    BY <1>1, ServesFacts
  <1>3. /\ Entry.buf = inPtr /\ InFifo = {inPtr} /\ sieIn = 1 - inPtr /\ ~inBD[inPtr].own /\ ~inBD[1 - inPtr].own
        /\ ~inBD[inPtr].stall
    BY <1>2 DEF DeviceOK, InOK
  <1>4. inPtr \in {0, 1}
    BY DEF Types, Pointers
  <1>5. ~inBD[0].own /\ ~inBD[1].own
    BY <1>3, <1>4
  <1>6. Host'
    BY <1>2 DEF Types, Host, wire
  <1>7. /\ U1ADDR' \in Nat /\ USBDeviceState' \in {"DEFAULT", "ADR_PENDING", "ADDRESS", "CONFIGURED"}
        /\ (USBDeviceState # "ADR_PENDING" => U1ADDR' = U1ADDR /\ USBDeviceState' = USBDeviceState)
        /\ (USBDeviceState = "ADR_PENDING" => U1ADDR' = SetupPkt.req.val)
    BY DEF ServesIn, Types, Numbers, Modes, Data, Contents, Request
  <1>. QED BY <1>1, <1>2, <1>3, <1>4, <1>5, <1>6, <1>7

\* The next packet of a control read, or the stall behind the last.
LEMMA SendsNextOK ==
    ASSUME Types, DeviceOK, SendsNext
    PROVE  Types' /\ DeviceOK'
  <1> DEFINE d == IF short' = "SENT" THEN [StalledIn EXCEPT !.cnt = Least(Packet, inCount)]
                  ELSE Sending(1 - inBD[inPtr].dts, Least(Packet, inCount))
  <1>1. /\ ServesIn /\ ctrl = "TX" /\ TxService(inCount) /\ inBD' = [inBD EXCEPT ![inPtr'] = d]
        /\ UNCHANGED <<ctrl, pc>>
    BY DEF SendsNext, ArmsIn
  <1>2. inCount \in Nat
    BY DEF Types, Numbers
  <1>3. d \in InDescriptor
    <2>1. 1 - inBD[inPtr].dts \in {0, 1}
      BY <1>1, ServesInFacts, DescriptorTypes DEF Types, InDescriptor
    <2>. QED BY <1>2, <2>1, ArmedTypes
  <1> HIDE DEF d
  <1>4. /\ ~inBD'[1 - inPtr'].own /\ inBD' \in [0..1 -> InDescriptor]
    BY <1>1, <1>3, ServesInFacts DEF Types, Descriptors
  <1>5. Types'
    <2>1. Descriptors' /\ Pointers' /\ Modes'
      BY <1>1, <1>2, <1>4, ServesInFacts, TxServiceFacts DEF Types, Descriptors, Pointers, Modes
    <2>2. Flags' /\ Fifo' /\ Host'
      BY <1>1, ServesInFacts DEF Types, Flags
    <2>3. Numbers' /\ Data'
      BY <1>1, <1>2, ServesInFacts, TxServiceFacts DEF Types, Numbers, Data
    <2>. QED BY <2>1, <2>2, <2>3 DEF Types
  <1>6. FifoOK'
    BY <1>1, ServesInFacts, FifoStays DEF DeviceOK
  <1>7. InOK'
    BY <1>1, <1>4, ServesInFacts DEF InOK
  <1>8. OutOK'
    <2>1. \A b \in OutFifo : outBD[b].pid = "setup" => outBD[b].adr = "SetupPkt"
      BY <1>1 DEF DeviceOK, OutOK
    <2>2. \A b \in OutFifo : outBD[b].pid = "out" => StatusOf(b)
      BY <1>1 DEF DeviceOK, OutOK, DataOf
    <2>. QED BY <1>1, <2>1, <2>2, ServesInFacts
         DEF OutOK, ArmedOut, ArmedForData, DataOf, StatusOf, SetupWaits, Where, DeviceOK
  <1>9. Phases'
    <2>1. ReadPhases'
      BY <1>1, ServesInFacts DEF Phases, ReadPhases, DeviceOK
    <2>. QED BY <1>1, <2>1, ServesInFacts DEF Phases, DeviceOK
  <1>. QED BY <1>5, <1>6, <1>7, <1>8, <1>9 DEF DeviceOK

\* The status packet of a control write, or of a request without data, has gone.
LEMMA EndsStatusOK ==
    ASSUME Types, DeviceOK, EndsStatus
    PROVE  Types' /\ DeviceOK'
  <1>1. /\ ServesIn /\ ctrl # "TX" /\ UNCHANGED <<inBD, short, inCount, pSrc, CtrlTrfData>>
        /\ (outBusy /\ pc' = "handleEarly" /\ ctrl' = ctrl) \/ (~outBusy /\ ctrl' = "WAIT_SETUP" /\ pc' = pc)
    BY DEF EndsStatus
  <1>2. outBusy => ctrl = "RX"
    BY <1>1, ServesInFacts DEF DeviceOK, Phases
  <1>3. Types'
    <2>1. Descriptors' /\ Pointers' /\ Modes'
      BY <1>1, ServesInFacts DEF Types, Descriptors, Pointers, Modes
    <2>2. Flags' /\ Fifo' /\ Host'
      BY <1>1, ServesInFacts DEF Types, Flags
    <2>3. Numbers' /\ Data'
      BY <1>1, ServesInFacts DEF Types, Numbers, Data
    <2>. QED BY <2>1, <2>2, <2>3 DEF Types
  <1>4. FifoOK'
    BY <1>1, ServesInFacts, FifoStays DEF DeviceOK
  <1>5. InOK'
    <2>1. ~inBD'[1 - inPtr'].own /\ ~inBD'[inPtr'].own
      BY <1>1, ServesInFacts
    <2>. QED BY <1>1, <2>1, ServesInFacts DEF InOK
  <1>6. OutOK'
    <2>1. \A b \in OutFifo : outBD[b].pid = "setup"
      BY <1>1, ServesInFacts DEF DeviceOK, OutOK, DataOf, StatusOf
    <2>2. \A b \in 0..1 : outBD[b].own => ArmedOut(b)'
      BY <1>1, <1>2, ServesInFacts DEF DeviceOK, OutOK, ArmedOut, ArmedForData
    <2>. QED BY <1>1, <1>2, <2>1, <2>2, ServesInFacts DEF OutOK, Where, DeviceOK
  <1>7. Phases'
    BY <1>1, <1>2, ServesInFacts DEF Phases, DeviceOK
  <1>. QED BY <1>3, <1>4, <1>5, <1>6, <1>7 DEF DeviceOK

-----------------------------------------------------------------------------
(* The bus. *)

\* What the bus does to the host alone.
LEMMA DeviceSame ==
    ASSUME Types, DeviceOK, UNCHANGED <<outBD, inBD, sie, firmware, SetupPkt, CtrlTrfData>>, stallIF' \in BOOLEAN, Host'
    PROVE  Types' /\ DeviceOK' /\ (Fresh' <=> Fresh) /\ InFifo' = InFifo /\ OutFifo' = OutFifo
  <1>1. UNCHANGED <<outBD, inBD, sieOut, sieIn, ustat, pktdis, outCur, outNext, inPtr, ctrl, pipes, bothOwned, statusEnabled,
                    timer, USBDeviceState, U1ADDR, pc, serving, handled, SetupPkt, CtrlTrfData>>
    BY DEF sie, firmware, flags
  <1>2. InFifo' = InFifo /\ OutFifo' = OutFifo
    BY <1>1, FifoSame
  <1>3. Fresh' <=> Fresh
    BY <1>1 DEF Fresh
  <1>4. Types'
    <2>1. Descriptors' /\ Pointers' /\ Modes' /\ Fifo'
      BY <1>1 DEF Types, Descriptors, Pointers, Modes, Fifo, pipes
    <2>2. Flags' /\ Numbers' /\ Data'
      BY <1>1 DEF Types, Flags, Numbers, Data, pipes
    <2>. QED BY <2>1, <2>2 DEF Types
  <1>5. FifoOK' /\ InOK'
    BY <1>1, <1>2, FifoStays DEF InOK, DeviceOK
  <1>6. OutOK'
    BY <1>1, <1>2 DEF OutOK, ArmedOut, ArmedForData, DataOf, StatusOf, SetupWaits, Where, DeviceOK, pipes
  <1>7. Phases'
    <2>1. Claimed <=> Claimed'
      BY <1>1 DEF Claimed, pipes
    <2>2. ReadPhases <=> ReadPhases'
      BY <1>1, <1>2, <1>3 DEF ReadPhases
    <2>. QED BY <1>1, <1>2, <2>1, <2>2 DEF Phases, DeviceOK, pipes
  <1>. QED BY <1>2, <1>3, <1>4, <1>5, <1>6, <1>7 DEF DeviceOK

\* While packets are processed no SETUP waits, and every OUT packet that waits is not a SETUP.
LEMMA NoSetupWaits ==
    ASSUME DeviceOK, ~pktdis
    PROVE  \A b \in OutFifo : outBD[b].pid = "out" /\ (DataOf(b) \/ StatusOf(b))
  BY DEF DeviceOK, OutOK

\* The descriptor the SIE hands back after a SETUP, and after an OUT packet.
LEMMA TakenTypes ==
    ASSUME NEW a \in {"SetupPkt", "CtrlTrfData"}, NEW n \in 0..Packet, NEW t \in 0..1
    PROVE  /\ [FreeOut EXCEPT !.adr = a, !.pid = "setup"] \in OutDescriptor
           /\ [FreeOut EXCEPT !.adr = a, !.pid = "out", !.cnt = n, !.dts = t] \in OutDescriptor
  <1>1. FreeOut \in OutDescriptor
    BY ArmedTypes
  <1>. QED BY <1>1 DEF OutDescriptor

\* The fields of a descriptor the SIE gives back.
LEMMA TakenFields ==
    ASSUME NEW a, NEW n, NEW t
    PROVE  /\ ~[FreeOut EXCEPT !.adr = a, !.pid = "setup"].own /\ [FreeOut EXCEPT !.adr = a, !.pid = "setup"].adr = a
           /\ [FreeOut EXCEPT !.adr = a, !.pid = "setup"].pid = "setup"
           /\ ~[FreeOut EXCEPT !.adr = a, !.pid = "out", !.cnt = n, !.dts = t].own
           /\ [FreeOut EXCEPT !.adr = a, !.pid = "out", !.cnt = n, !.dts = t].adr = a
           /\ [FreeOut EXCEPT !.adr = a, !.pid = "out", !.cnt = n, !.dts = t].pid = "out"
           /\ [FreeOut EXCEPT !.adr = a, !.pid = "out", !.cnt = n, !.dts = t].cnt = n
           /\ [FreeOut EXCEPT !.adr = a, !.pid = "out", !.cnt = n, !.dts = t].dts = t
  BY DEF FreeOut

\* A SETUP finds a descriptor, sets PKTDIS and is last in the FIFO.
LEMMA SetupTokenOK ==
    ASSUME Types, DeviceOK, NEW r \in Requests, SetupToken(r), NEW s, s = sieOut
    PROVE  /\ Types' /\ DeviceOK' /\ pktdis' /\ OutFifo' = OutFifo \cup {s} /\ \A b \in OutFifo : outBD'[b].pid = "out"
           /\ outBD'[s].pid = "setup" /\ Where(s)' = Content("setup", turn', 0, r) /\ pc \notin {"complete", "arm"}
  <1> DEFINE p == Content("setup", 1 - turn, 0, r)
             d == [FreeOut EXCEPT !.adr = outBD[s].adr, !.pid = "setup"]
  <1>1. /\ ~pktdis /\ outBD[s].own /\ outBD' = [outBD EXCEPT ![s] = d]
        /\ SetupPkt' = (IF outBD[s].adr = "SetupPkt" THEN p ELSE SetupPkt)
        /\ CtrlTrfData' = (IF outBD[s].adr = "CtrlTrfData" THEN p ELSE CtrlTrfData)
        /\ sieOut' = 1 - s /\ pktdis' = TRUE /\ ustat' = Append(ustat, [dir |-> "out", buf |-> s])
        /\ turn' = 1 - turn /\ req' = r /\ hLeft' = r.asks /\ hDts' = 1 /\ stage' \in {"data", "status"}
        /\ UNCHANGED <<inBD, sieIn, stallIF, outCur, outNext, inPtr, ctrl, short, inBusy, outBusy, inCount, outCount, pSrc,
                       bothOwned, statusEnabled, timer, USBDeviceState, U1ADDR, pc, serving, handled, hAddr, lost>>
    BY DEF SetupToken, Heard, firmware, pipes, flags
  <1>2. /\ s \in 0..1 /\ 1 - s \in 0..1 /\ 1 - s # s /\ \A c \in 0..1 : c = s \/ c = 1 - s
    BY DEF Types, Pointers
  <1>3. r \in Request /\ r.asks \in Nat /\ 1 - turn \in 0..1
    BY Ep0Assumption DEF Request, Types, Host
  <1>4. p \in Contents /\ p.what = "setup" /\ p.pos = 0 /\ p.req = r
    BY <1>3 DEF Content, Contents
  <1>5. /\ d \in OutDescriptor /\ ~d.own /\ d.pid = "setup" /\ d.adr = outBD[s].adr /\ d.adr \in {"SetupPkt", "CtrlTrfData"}
    <2>1. outBD[s].adr \in {"SetupPkt", "CtrlTrfData"}
      BY <1>2, DescriptorTypes DEF Types, OutDescriptor
    <2>2. 0 \in 0..Packet /\ 0 \in 0..1
      BY Ep0Assumption
    <2>3. d \in OutDescriptor
      BY <2>1, <2>2, TakenTypes
    <2>. QED BY <2>1, <2>3, TakenFields
  <1>6. /\ [dir |-> "out", buf |-> s] \in Transaction /\ s \notin OutFifo
        /\ \A b \in OutFifo : outBD[b].pid = "out" /\ b = 1 - s /\ b \in 0..1 /\ StatusOf(b)
    <2>1. [dir |-> "out", buf |-> s] \in Transaction /\ s \notin OutFifo
      BY <1>1, <1>2 DEF Transaction, DeviceOK, OutOK
    <2>2. \A b \in OutFifo : b \in 0..1 /\ b = 1 - s
      BY <1>2, <2>1 DEF OutFifo
    <2>. QED BY <1>1, <1>2, <2>1, <2>2, NoSetupWaits DEF DataOf
  <1> HIDE DEF d, p
  <1>7. /\ outBD'[s] = d /\ outBD'[1 - s] = outBD[1 - s] /\ outBD' \in [0..1 -> OutDescriptor]
    BY <1>1, <1>2, <1>5 DEF Types, Descriptors
  <1>8. FifoOK' /\ InFifo' = InFifo /\ OutFifo' = OutFifo \cup {s} /\ ustat' \in Seq(Transaction)
    <2> DEFINE e == [dir |-> "out", buf |-> s]
    <2>1. e \in Transaction /\ e.dir = "out" /\ e.buf = s /\ ustat' = Append(ustat, e)
      BY <1>1, <1>6
    <2> HIDE DEF e
    <2>2. \A b \in OutFifo : outBD[b].pid = "out" /\ outBD'[b].pid = "out"
      BY <1>6, <1>7
    <2>3. outBD'[e.buf].pid = "setup" /\ e.buf \notin OutFifo /\ ctrl' = ctrl
      BY <1>1, <1>5, <1>6, <1>7, <2>1
    <2>4. FifoOK'
      BY <2>1, <2>2, <2>3, FifoGrows DEF DeviceOK
    <2>. QED BY <2>1, <2>4, FifoAdded DEF DeviceOK
  <1>9. pc \in {"idle", "status", "stallIn", "handle", "handleEarly"} /\ (ctrl = "TX" => pc = "idle")
    <2>1. pc \notin {"complete", "arm"}
      BY <1>1, <1>2, ClaimedFacts
    <2>2. ctrl = "TX" => pc = "idle"
      BY <1>1, <1>2 DEF DeviceOK, Phases, ReadPhases, Types, Pointers
    <2>3. pc = "statusNext" => ctrl = "TX"
      BY DEF DeviceOK, Phases, Types, Modes
    <2>. QED BY <2>1, <2>2, <2>3 DEF Types, Modes
  <1>10. ArmedOut(s) /\ (outBD[1 - s].own => outBD[1 - s].stall /\ outBD[1 - s].pid = "none" /\ outBD[1 - s].adr = "SetupPkt")
    BY <1>1, <1>2 DEF DeviceOK, OutOK, ArmedOut, ArmedForData
  <1>11. /\ ctrl = "TX" => outBD[s].adr = "SetupPkt"
         /\ pc = "handle" => outBD[s].adr = "SetupPkt"
    BY <1>10, ArmedFields DEF ArmedOut, ArmedForData, DeviceOK, Phases
  <1>12. Types'
    <2>1. Data'
      BY <1>1, <1>4 DEF Types, Data
    <2>2. Descriptors' /\ Pointers' /\ Modes' /\ Flags'
      BY <1>1, <1>2, <1>7 DEF Types, Descriptors, Pointers, Modes, Flags
    <2>3. Numbers' /\ Host'
      BY <1>1, <1>3 DEF Types, Numbers, Host
    <2>4. Len(ustat') <= 3
      <3>1. InFifo' \subseteq {inPtr}
        BY <1>8 DEF DeviceOK, InOK
      <3>. QED BY <1>8, <3>1, FifoShort
    <2>. QED BY <1>8, <2>1, <2>2, <2>3, <2>4 DEF Types, Fifo
  <1>13. InOK'
    BY <1>1, <1>8 DEF InOK, DeviceOK
  <1>14. OutFifo' = OutFifo \cup {s} /\ Where(s)' = p
    BY <1>1, <1>5, <1>7, <1>8 DEF Where
  <1>15. OutOK'
    <2>1. \A c \in 0..1 : outBD'[c].own => ArmedOut(c)'
      BY <1>2, <1>5, <1>7, <1>10 DEF ArmedOut
    <2>2. \A c \in OutFifo' : ~outBD'[c].own /\ outBD'[c].pid \in {"setup", "out"}
      BY <1>5, <1>6, <1>7, <1>14 DEF DeviceOK, OutOK
    <2>3. ASSUME NEW c \in OutFifo', outBD'[c].pid = "out" PROVE StatusOf(c)'
      <3>1. c = 1 - s /\ c \in OutFifo /\ StatusOf(c) /\ 1 - c = s
        BY <1>2, <1>5, <1>6, <1>7, <1>14, <2>3
      <3>2. SetupWaits(1 - c)'
        BY <1>5, <1>7, <1>14, <3>1 DEF SetupWaits
      <3>. QED BY <1>1, <1>7, <3>1, <3>2 DEF StatusOf
    <2>4. ASSUME NEW c \in OutFifo', outBD'[c].pid = "setup"
          PROVE  /\ pktdis' /\ sieOut' = 1 - c /\ pc' \in {"idle", "status", "stallIn", "handle", "handleEarly"}
                 /\ ctrl' = "TX" => pc' = "idle" /\ outBD'[c].adr = "SetupPkt"
                 /\ Where(c)'.what = "setup" /\ Where(c)'.pos = 0 /\ Where(c)'.req \in Requests
      <3>1. c = s
        BY <1>6, <1>7, <1>14, <2>4
      <3>2. Where(c)'.what = "setup" /\ Where(c)'.pos = 0 /\ Where(c)'.req \in Requests
        BY <1>4, <1>14, <3>1
      <3>. QED BY <1>1, <1>5, <1>7, <1>9, <1>11, <3>1, <3>2
    <2>5. pktdis' => \E c \in OutFifo' : outBD'[c].pid = "setup"
      BY <1>5, <1>7, <1>14
    <2>. QED BY <2>1, <2>2, <2>3, <2>4, <2>5 DEF OutOK
  <1>16. Phases'
    <2>1. ctrl = "TX" => ReadPhases'
      BY <1>1, <1>9, <1>14 DEF ReadPhases, DeviceOK, Phases
    <2>2. pc = "handle" => CtrlTrfData' = CtrlTrfData
      BY <1>1, <1>11
    <2>3. OutFifo' # {} /\ ~outBD'[1 - sieOut'].own
      BY <1>1, <1>2, <1>5, <1>7, <1>14
    <2>. QED BY <1>1, <1>9, <2>1, <2>2, <2>3 DEF Phases, DeviceOK
  <1>17. Where(s)' = Content("setup", turn', 0, r) /\ \A b \in OutFifo : outBD'[b].pid = "out"
    BY <1>1, <1>6, <1>7, <1>14 DEF p
  <1>. QED BY <1>1, <1>5, <1>7, <1>8, <1>9, <1>12, <1>13, <1>14, <1>15, <1>16, <1>17 DEF DeviceOK

\* The packet the host has taken: at inPtr, and no SETUP waits before it.
LEMMA InAnsweredOK ==
    ASSUME Types, DeviceOK, InAnswered(TRUE) \/ InAnswered(FALSE), Host'
    PROVE  /\ Types' /\ DeviceOK' /\ sieIn = inPtr /\ ~Fresh /\ OutFifo' = OutFifo
           /\ InAnswered(TRUE) => InFifo' = {inPtr} /\ ~inBD'[inPtr].own
           /\ InAnswered(FALSE) => inBD' = inBD /\ InFifo' = InFifo
           /\ pc \notin {"complete", "arm", "stallIn", "handleEarly"} /\ (ctrl = "RX" => statusEnabled)
           /\ inPtr' = inPtr
  <1>1. /\ ~pktdis /\ inBD[sieIn].own /\ ~inBD[sieIn].stall
        /\ UNCHANGED <<outBD, sieOut, pktdis, stallIF, firmware, SetupPkt, CtrlTrfData, req, turn>>
    BY DEF InAnswered, Heard
  <1>2. sieIn = inPtr /\ inPtr \in 0..1 /\ InFifo = {} /\ ~Fresh
    BY <1>1 DEF DeviceOK, InOK, Types, Pointers, Fresh
  <1>3. pc \notin {"complete", "arm", "stallIn", "handleEarly"} /\ (ctrl = "RX" => statusEnabled)
    BY <1>1, <1>2 DEF DeviceOK, InOK
  <1>4. inPtr' = inPtr
    BY <1>1 DEF firmware
  <1>5. ASSUME InAnswered(FALSE) PROVE Types' /\ DeviceOK' /\ inBD' = inBD /\ InFifo' = InFifo /\ OutFifo' = OutFifo
    <2>1. UNCHANGED <<inBD, sieIn, ustat>>
      BY <1>5 DEF InAnswered
    <2>2. UNCHANGED <<outBD, inBD, sie, firmware, SetupPkt, CtrlTrfData>> /\ stallIF' \in BOOLEAN
      BY <1>1, <2>1 DEF sie, Types, Flags
    <2>. QED BY <2>1, <2>2, DeviceSame
  <1>6. ASSUME InAnswered(TRUE) PROVE Types' /\ DeviceOK' /\ InFifo' = {inPtr} /\ OutFifo' = OutFifo /\ ~inBD'[inPtr].own
    <2> DEFINE e == [dir |-> "in", buf |-> inPtr]
    <2>1. /\ inBD' = [inBD EXCEPT ![inPtr].own = FALSE] /\ sieIn' = 1 - inPtr /\ ustat' = Append(ustat, e)
      BY <1>2, <1>6 DEF InAnswered
    <2>2. UNCHANGED <<outBD, sieOut, pktdis, stallIF, outCur, outNext, inPtr, ctrl, short, inBusy, outBusy, inCount, outCount,
                      pSrc, bothOwned, statusEnabled, timer, USBDeviceState, U1ADDR, pc, serving, handled, SetupPkt,
                      CtrlTrfData>>
      BY <1>1 DEF firmware, pipes, flags
    <2>3. e \in Transaction /\ e.dir = "in" /\ e.buf = inPtr
      BY <1>2 DEF Transaction
    <2> HIDE DEF e
    <2>4. FifoOK' /\ ustat' \in Seq(Transaction) /\ InFifo' = {inPtr} /\ OutFifo' = OutFifo
      <3>1. \A b \in OutFifo : outBD[b].pid = "out" /\ outBD'[b].pid = "out"
        BY <1>1, <2>2, NoSetupWaits
      <3>2. FifoOK'
        BY <1>2, <2>1, <2>2, <2>3, <3>1, FifoGrows DEF DeviceOK
      <3>. QED BY <1>2, <2>1, <2>3, <3>2, FifoAdded DEF DeviceOK
    <2>5. /\ inBD' \in [0..1 -> InDescriptor] /\ inBD'[inPtr] = [inBD[inPtr] EXCEPT !.own = FALSE]
          /\ inBD'[1 - inPtr] = inBD[1 - inPtr]
      <3>1. inBD[inPtr] \in InDescriptor /\ [inBD[inPtr] EXCEPT !.own = FALSE] \in InDescriptor
        BY <1>2, DescriptorTypes, Zenon DEF Types
      <3>2. inPtr \in 0..1 /\ 1 - inPtr # inPtr /\ 1 - inPtr \in 0..1
        BY <1>2
      <3>3. inBD' = [inBD EXCEPT ![inPtr] = [inBD[inPtr] EXCEPT !.own = FALSE]]
        BY <2>1
      <3>. QED BY <3>1, <3>2, <3>3 DEF Types, Descriptors
    <2>6. ~inBD'[inPtr].own /\ ~inBD'[inPtr].stall
      BY <1>1, <1>2, <2>5, DescriptorTypes DEF InDescriptor, Types
    <2>7. Types'
      <3>1. Len(ustat') <= 3
        BY <2>4, FifoShort
      <3>2. Descriptors' /\ Pointers' /\ Modes' /\ Fifo'
        BY <1>2, <2>1, <2>2, <2>4, <2>5, <3>1 DEF Types, Descriptors, Pointers, Modes, Fifo
      <3>3. Flags' /\ Numbers' /\ Data'
        BY <2>2 DEF Types, Flags, Numbers, Data
      <3>. QED BY <3>2, <3>3 DEF Types
    <2>8. InOK'
      BY <1>2, <1>3, <2>1, <2>2, <2>4, <2>5, <2>6 DEF InOK, DeviceOK, Types, Flags
    <2>9. OutOK'
      BY <2>2, <2>4 DEF OutOK, ArmedOut, ArmedForData, DataOf, StatusOf, SetupWaits, Where, DeviceOK
    <2>10. Phases'
      <3>1. ReadPhases => ReadPhases'
        BY <1>2, <2>2, <2>4 DEF ReadPhases
      <3>. QED BY <1>3, <2>2, <2>4, <3>1 DEF Phases, DeviceOK
    <2>. QED BY <2>4, <2>6, <2>7, <2>8, <2>9, <2>10 DEF DeviceOK
  <1>. QED BY <1>2, <1>3, <1>4, <1>5, <1>6

\* An OUT packet that is kept, in step with the transfer the firmware serves: the next of a control
\* write, or the status stage of a control read.
LEMMA OutTakenOK ==
    ASSUME Types, DeviceOK, OutTaken(TRUE) \/ OutTaken(FALSE), NEW s, s = sieOut, Host', ctrl # "WAIT_SETUP", hLeft <= req.asks,
           ctrl = "TX" => stage = "status",
           ctrl = "RX" => /\ InFifo = {} /\ pc # "handleEarly" /\ stage = "data" /\ hLeft = outCount
                          /\ turn = serving /\ req = SetupPkt.req
    PROVE  /\ Types' /\ DeviceOK' /\ OutFifo' = {s} /\ InFifo' = InFifo /\ ~Fresh /\ s \in 0..1
           /\ outBD'[s].pid = "out" /\ outBD'[s].cnt = OutSize /\ outBD'[s].dts = OutDts
           /\ SetupPkt' = SetupPkt /\ (ctrl = "TX" => CtrlTrfData' = CtrlTrfData) /\ sieOut' = 1 - s
           /\ ctrl = "RX" => ArmedForData(s) /\ ~outBD'[1 - s].own
  <1> DEFINE d == [FreeOut EXCEPT !.adr = outBD[s].adr, !.pid = "out", !.cnt = OutSize, !.dts = OutDts]
             p == Content("data", turn, req.asks - hLeft, req)
  <1>1. /\ ~pktdis /\ outBD[s].own /\ ~outBD[s].stall /\ outBD' = [outBD EXCEPT ![s] = d]
        /\ SetupPkt' = (IF outBD[s].adr = "SetupPkt" /\ OutSize > 0 THEN p ELSE SetupPkt)
        /\ CtrlTrfData' = (IF outBD[s].adr = "CtrlTrfData" /\ OutSize > 0 THEN p ELSE CtrlTrfData)
        /\ sieOut' = 1 - s /\ ustat' = Append(ustat, [dir |-> "out", buf |-> s])
        /\ UNCHANGED <<inBD, sieIn, pktdis, stallIF, outCur, outNext, inPtr, ctrl, short, inBusy, outBusy, inCount, outCount,
                       pSrc, bothOwned, statusEnabled, timer, USBDeviceState, U1ADDR, pc, serving, handled, req, turn, hAddr>>
    BY DEF OutTaken, Heard, firmware, pipes, flags
  <1>2. /\ s \in 0..1 /\ 1 - s \in 0..1 /\ 1 - s # s /\ (\A c \in 0..1 : c = s \/ c = 1 - s) /\ 1 - (1 - s) = s
    BY DEF Types, Pointers
  <1>3. /\ OutSize \in 0..Packet /\ OutDts \in 0..1 /\ (stage = "data" => OutSize = Least(Packet, hLeft))
        /\ (stage = "status" => OutSize = 0) /\ OutSize \in Nat
    <2>1. 0 \in 0..Packet /\ hLeft \in Nat /\ hDts \in 0..1
      BY Ep0Assumption DEF Types, Host
    <2>2. CASE stage = "data"
      BY <2>1, <2>2, ArmedTypes DEF OutSize, OutDts
    <2>3. CASE stage # "data"
      BY <2>1, <2>3 DEF OutSize, OutDts
    <2>. QED BY <2>2, <2>3
  <1>4. /\ d \in OutDescriptor /\ ~d.own /\ d.pid = "out" /\ d.adr = outBD[s].adr /\ d.cnt = OutSize /\ d.dts = OutDts
    <2>1. outBD[s].adr \in {"SetupPkt", "CtrlTrfData"}
      BY <1>2, DescriptorTypes DEF Types, OutDescriptor
    <2>2. d \in OutDescriptor
      BY <1>3, <2>1, TakenTypes
    <2>. QED BY <2>2, TakenFields
  <1> HIDE DEF d
  <1>5. /\ outBD'[s] = d /\ outBD'[1 - s] = outBD[1 - s] /\ outBD' \in [0..1 -> OutDescriptor]
    BY <1>1, <1>2, <1>4 DEF Types, Descriptors
  <1>6. ArmedOut(s) /\ s \notin OutFifo /\ ~Fresh
    BY <1>1, <1>2, ArmedFields DEF DeviceOK, OutOK, Fresh
  <1>7. OutFifo = {}
    <2>1. ASSUME NEW c \in OutFifo PROVE FALSE
      <3>1. c \in 0..1 /\ c = 1 - s /\ (DataOf(c) \/ StatusOf(c)) /\ outBD[c].pid = "out"
        BY <1>1, <1>2, <1>6, NoSetupWaits DEF OutFifo
      <3>. QED BY <1>1, <1>2, <1>6, <3>1 DEF DataOf, StatusOf, SetupWaits
    <2>. QED BY <2>1
  <1>8. FifoOK' /\ InFifo' = InFifo /\ OutFifo' = {s} /\ ustat' \in Seq(Transaction)
    <2> DEFINE e == [dir |-> "out", buf |-> s]
    <2>1. e \in Transaction /\ e.dir = "out" /\ e.buf = s /\ ustat' = Append(ustat, e)
      BY <1>1, <1>2 DEF Transaction
    <2> HIDE DEF e
    <2>2. FifoOK'
      BY <1>1, <1>7, <2>1, FifoGrows DEF DeviceOK
    <2>. QED BY <1>7, <2>1, <2>2, FifoAdded DEF DeviceOK
  <1>9. ctrl \in {"TX", "RX"} /\ (ctrl = "RX" => ArmedForData(s)) /\ (ctrl = "TX" => outBD[s] = ForStatus /\ s = outNext /\ s # outCur)
    BY <1>1, <1>6 DEF ArmedOut, ArmedForData, Types, Modes
  <1>10. /\ ctrl = "TX" => /\ OutSize = 0 /\ SetupPkt' = SetupPkt /\ CtrlTrfData' = CtrlTrfData
                           /\ pc = "idle" /\ bothOwned /\ outBD[1 - s].own /\ outBD[1 - s].stall
    <2> SUFFICES ASSUME ctrl = "TX"
                 PROVE  /\ OutSize = 0 /\ SetupPkt' = SetupPkt /\ CtrlTrfData' = CtrlTrfData
                        /\ pc = "idle" /\ bothOwned /\ outBD[1 - s].own /\ outBD[1 - s].stall
      OBVIOUS
    <2>1. ReadPhases
      BY DEF DeviceOK, Phases
    <2>2. pc = "idle"
      BY <1>1, <1>2, <2>1 DEF ReadPhases
    <2>. QED BY <1>1, <1>2, <1>3, <1>6, <1>7, <2>1, <2>2 DEF ReadPhases
  <1>11. /\ ctrl = "RX" => /\ SetupPkt' = SetupPkt /\ ~outBD[1 - s].own /\ outBusy /\ outCount > 0
                           /\ OutSize = Least(Packet, outCount) /\ CtrlTrfData' = p
                           /\ pc \in {"idle", "status"}
    <2> SUFFICES ASSUME ctrl = "RX"
                 PROVE  /\ SetupPkt' = SetupPkt /\ ~outBD[1 - s].own /\ outBusy /\ outCount > 0
                        /\ OutSize = Least(Packet, outCount) /\ CtrlTrfData' = p
                        /\ pc \in {"idle", "status"}
      OBVIOUS
    <2>1. outBD[s].adr = "CtrlTrfData" /\ outBusy /\ outCount > 0 /\ ~outBD[1 - s].own
      BY <1>9 DEF ArmedForData, DeviceOK, Phases
    <2>2. OutSize = Least(Packet, outCount) /\ OutSize > 0
      BY <1>3, <2>1, Ep0Assumption DEF Least, Types, Numbers
    <2>3. pc \in {"idle", "status"}
      BY <2>1 DEF DeviceOK, Phases
    <2>. QED BY <1>1, <2>1, <2>2, <2>3
  <1>12. Types'
    <2>1. SetupPkt' = SetupPkt /\ CtrlTrfData' \in Contents
      <3>1. CASE ctrl = "TX"
        BY <1>10, <3>1 DEF Types, Data
      <3>2. CASE ctrl = "RX"
        <4>1. hLeft \in Nat /\ hLeft = outCount /\ req \in Request /\ turn \in 0..1
          BY <3>2 DEF Types, Host
        <4>2. req.asks - hLeft \in Nat
          BY <4>1 DEF Request
        <4>. QED BY <1>11, <3>2, <4>1, <4>2 DEF Types, Data, Content, Contents
      <3>. QED BY <1>9, <3>1, <3>2
    <2>2. Descriptors' /\ Pointers' /\ Modes' /\ Flags'
      BY <1>1, <1>2, <1>5 DEF Types, Descriptors, Pointers, Modes, Flags
    <2>3. Numbers' /\ Data'
      BY <1>1, <2>1 DEF Types, Numbers, Data
    <2>4. Len(ustat') <= 3
      <3>1. InFifo' \subseteq {inPtr}
        BY <1>8 DEF DeviceOK, InOK
      <3>. QED BY <1>8, <3>1, FifoShort
    <2>. QED BY <1>8, <2>2, <2>3, <2>4 DEF Types, Fifo
  <1>13. InOK'
    BY <1>1, <1>8 DEF InOK, DeviceOK
  <1>14. OutOK'
    <2>1. \A c \in 0..1 : outBD'[c].own => ArmedOut(c)'
      <3>1. outBD[1 - s].own => outBD[1 - s].pid = "none" /\ outBD[1 - s].stall /\ outBD[1 - s].adr = "SetupPkt"
        BY <1>1, <1>2 DEF DeviceOK, OutOK, ArmedOut, ArmedForData
      <3>. QED BY <1>2, <1>4, <1>5, <3>1 DEF ArmedOut
    <2>2. DataOf(s)' \/ StatusOf(s)'
      <3>1. CASE ctrl = "TX"
        BY <1>1, <1>4, <1>5, <1>10, <3>1 DEF StatusOf
      <3>2. CASE ctrl = "RX"
        BY <1>1, <1>4, <1>5, <1>8, <1>11, <3>2 DEF DataOf
      <3>. QED BY <1>9, <3>1, <3>2
    <2>. QED BY <1>1, <1>4, <1>5, <1>8, <2>1, <2>2 DEF OutOK
  <1>15. Phases'
    <2>1. ctrl = "TX" => ReadPhases'
      BY <1>1, <1>8, <1>10 DEF ReadPhases, DeviceOK, Phases
    <2>2. ~outBD'[1 - sieOut'].own
      BY <1>1, <1>2, <1>4, <1>5
    <2>3. pc \in {"idle", "status"}
      BY <1>9, <1>10, <1>11
    <2>. QED BY <1>1, <1>8, <1>9, <2>1, <2>2, <2>3 DEF Phases, DeviceOK
  <1>. QED BY <1>1, <1>2, <1>4, <1>5, <1>6, <1>8, <1>9, <1>10, <1>11, <1>12, <1>13, <1>14, <1>15 DEF DeviceOK

-----------------------------------------------------------------------------
(* The host. *)

\* The transfer of a SETUP the firmware has yet to start on: the host is at its beginning.
Begun(r) ==
  stage # "idle" => /\ req = r /\ hLeft = r.asks /\ hDts = 1 /\ stage \in {"data", "status"}
                    /\ stage = "data" => r.kind \in {"read", "write"}
                    /\ r.kind = "read" => stage = "data"
Announced ==
  /\ \A b \in OutFifo : outBD[b].pid = "setup" => Where(b).turn = turn /\ Begun(Where(b).req)
  /\ pc \in {"complete", "arm"} => SetupPkt.turn = turn /\ Begun(SetupPkt.req)

\* Whatever the request: it is the host's, and what is still armed of it, or of the one before, has
\* no effect on a host that is still at it.
Agreed ==
  /\ SetupPkt = Content("setup", turn, 0, req) /\ serving = turn /\ hLeft <= req.asks
  /\ stage = "data" => req.kind \in {"read", "write"}
  /\ inBD[inPtr].own /\ inBD[inPtr].stall => req.kind \in {"read", "unknown"}
  /\ pc = "stallIn" => req.kind = "unknown"
  /\ ctrl = "RX" /\ (InFifo # {} \/ pc = "handleEarly") => stage \notin {"data", "status"}
  /\ ctrl = "WAIT_SETUP" /\ pc # "arm" /\ req.kind \in {"write", "address", "configure"} => stage \notin {"data", "status"}
  /\ outBD[sieOut].own /\ ~outBD[sieOut].stall /\ ctrl = "WAIT_SETUP" => stage \notin {"data", "status"}

\* A control read: what the IN pipe has left, the packet armed and the host's count fit together.
Sends ==
  LET b == inBD[inPtr]
      taken == req.asks - hLeft
  IN /\ inCount + b.cnt <= Total(req)
     /\ pSrc = Content("data", turn, Total(req) - inCount, req)
     /\ inCount > 0 => short = "NOT_USED"
     /\ short = "NOT_USED" <=> b.cnt = Packet
     /\ b.stall <=> short = "SENT"
     /\ InFifo = {} => b.own
     /\ stage = "data" /\ b.dts = hDts =>
          /\ InFifo = {} /\ taken = Total(req) - inCount - b.cnt
          /\ b.cnt > 0 => CtrlTrfData = Content("data", turn, taken, req)
     /\ stage = "data" /\ b.dts # hDts => taken = Total(req) - inCount /\ short = "NOT_USED"
     /\ stage = "data" => short # "SENT"
Reads ==
  /\ ctrl \in {"TX", "WAIT_SETUP"}
  /\ ctrl = "TX" => Sends
  /\ stage = "data" /\ pc # "arm" => ctrl = "TX" /\ OutFifo = {}
  /\ stage # "data" => req.asks - hLeft = Total(req)
  /\ stage = "status" /\ (OutFifo # {} \/ ctrl = "WAIT_SETUP") => lost > 0
  /\ stage = "stalled" => lost > 0

\* A control write: the descriptor armed or waiting holds the packet the host sends, or has sent, next.
Gathers == outBusy /\ pc \notin {"handle", "arm"}
Writes ==
  /\ ctrl # "TX" /\ (outBusy <=> handled = 0)
  /\ stage = "data" => hLeft > 0 /\ (~outBusy \/ pc = "handle" => lost > 0)
  /\ stage = "stalled" => lost > 0 /\ (pc = "handle" \/ handled = 1)
  /\ Gathers => ctrl = "RX" /\ outCount > 0 /\ (OutFifo = {} => ~outBD[sieOut].stall)
  /\ outBD[sieOut].own /\ ~outBD[sieOut].stall /\ ctrl = "RX" =>
       IF outBD[sieOut].dts = hDts THEN outCount = hLeft ELSE hLeft > 0 /\ outCount = hLeft - Least(Packet, hLeft)
  /\ \A b \in OutFifo : outBD[b].pid = "out" =>
       IF outBD[b].dts = hDts THEN hLeft = outCount /\ lost > 0 ELSE hLeft = outCount - outBD[b].cnt

Addresses ==
  /\ ctrl # "TX" /\ ~outBusy /\ stage # "stalled"
  /\ stage = "status" => USBDeviceState = "ADR_PENDING"
  /\ stage = "done" => hAddr = req.val
  /\ stage = "done" /\ lost = 0 => U1ADDR = hAddr \/ (InFifo # {} /\ USBDeviceState = "ADR_PENDING")

InStep ==
  /\ Agreed
  /\ req.kind = "read" => Reads
  /\ req.kind = "write" => Writes
  /\ req.kind = "address" => Addresses
  /\ req.kind = "configure" => ctrl # "TX" /\ ~outBusy /\ stage # "stalled"
  /\ req.kind = "unknown" => ctrl = "WAIT_SETUP"

\* The kinds of request, and which of them a transfer state can be of.
LEMMA KindOf ==
    ASSUME Types, InStep
    PROVE  /\ req.kind \in {"read", "write", "address", "configure", "unknown"}
           /\ ctrl = "TX" => req.kind = "read" /\ Reads /\ Sends
           /\ ctrl = "RX" => req.kind \in {"write", "address", "configure"}
           /\ outBusy /\ ctrl = "RX" => req.kind = "write" /\ Writes
           /\ SetupPkt.req = req /\ SetupPkt.turn = turn
           /\ req.has \in Nat /\ req.asks \in Nat /\ req.val \in Nat
           /\ Total(req) \in Nat /\ Total(req) <= req.asks /\ Total(req) = Least(req.asks, req.has)
  <1>1. req \in Request
    BY DEF Types, Host
  <1>2. req.kind \in {"read", "write", "address", "configure", "unknown"} /\ req.has \in Nat /\ req.asks \in Nat /\ req.val \in Nat
    BY <1>1 DEF Request
  <1>3. Total(req) \in Nat /\ Total(req) <= req.asks /\ Total(req) = Least(req.asks, req.has)
    BY <1>2 DEF Total, Least
  <1>4. SetupPkt.req = req /\ SetupPkt.turn = turn
    BY DEF InStep, Agreed, Content
  <1>5. ctrl = "TX" => req.kind = "read" /\ Reads /\ Sends
    BY <1>2 DEF InStep, Writes, Addresses, Reads
  <1>6. ctrl = "RX" => req.kind \in {"write", "address", "configure"}
    BY <1>2 DEF InStep, Reads
  <1>7. outBusy /\ ctrl = "RX" => req.kind = "write" /\ Writes
    BY <1>6 DEF InStep, Addresses
  <1>. QED BY <1>2, <1>3, <1>4, <1>5, <1>6, <1>7

\* Once the SETUP is served both sides are at the same transfer.
LEMMA CompletesLink ==
    ASSUME Types, DeviceOK, Announced, Completes, stage # "idle"
    PROVE  InStep'
  <1>1. /\ pc = "complete" /\ pktdis' = FALSE /\ pc' = "arm"
        /\ UNCHANGED <<outBD, inBD, sieOut, sieIn, ustat, stallIF, outCur, outNext, inPtr, ctrl, pipes, flags,
                       USBDeviceState, U1ADDR, SetupPkt, CtrlTrfData, serving, handled, wire>>
    BY DEF Completes
  <1>2. UNCHANGED <<outBusy, stage, req, turn, hLeft, hDts, hAddr, lost, InFifo, OutFifo>>
    BY <1>1, FifoSame DEF pipes, wire
  <1>3. /\ Claimed /\ InFifo = {} /\ OutFifo = {} /\ ~inBD[inPtr].own /\ ~outBD[sieOut].own /\ ctrl = "WAIT_SETUP" /\ handled = 0
    BY <1>1, ClaimedFacts DEF Types, Pointers
  <1>4. SetupPkt.turn = turn /\ Begun(SetupPkt.req)
    BY <1>1 DEF Announced
  <1>5. SetupPkt = Content("setup", serving, 0, SetupPkt.req) /\ SetupPkt.req \in Requests
    BY <1>3 DEF Claimed
  <1>6. serving = turn
    <2>1. SetupPkt.turn = serving
      BY <1>5 DEF Content
    <2>. QED BY <1>4, <2>1
  <1>7. req = SetupPkt.req /\ hLeft = req.asks /\ stage \in {"data", "status"} /\ (stage = "data" => req.kind \in {"read", "write"})
        /\ (req.kind = "read" => stage = "data")
    BY <1>4 DEF Begun
  <1>8. hLeft <= req.asks /\ hLeft \in Nat
    BY <1>7 DEF Types, Host
  <1>9. Agreed'
    BY <1>1, <1>2, <1>3, <1>5, <1>6, <1>7, <1>8 DEF Agreed
  <1>10. Reads' \/ req.kind # "read"
    BY <1>1, <1>2, <1>3, <1>7 DEF Reads
  <1>11. Writes' \/ req.kind # "write"
    <2> SUFFICES ASSUME req.kind = "write" PROVE Writes'
      OBVIOUS
    <2>1. outBusy /\ hLeft > 0
      BY <1>3, <1>5, <1>7, <1>8, Ep0Assumption DEF Claimed
    <2>. QED BY <1>1, <1>2, <1>3, <1>7, <2>1 DEF Writes, Gathers
  <1>12. Addresses' \/ req.kind # "address"
    BY <1>1, <1>2, <1>3, <1>7 DEF Addresses, Claimed
  <1>13. req.kind = "configure" => ctrl' # "TX" /\ ~outBusy' /\ stage' # "stalled"
    BY <1>1, <1>2, <1>3, <1>7 DEF Claimed
  <1>. QED BY <1>1, <1>2, <1>3, <1>9, <1>10, <1>11, <1>12, <1>13 DEF InStep

\* The host is at a transfer the station has started on: both sides agree.
Linked == Types /\ DeviceOK /\ Announced /\ InStep /\ stage # "idle" /\ ~pktdis

\* What both sides know when a pipe is armed.
LEMMA ArmsPipeLink ==
    ASSUME Linked, ArmsPipe
    PROVE  /\ Types /\ DeviceOK /\ pc = "arm" /\ InFifo = {} /\ OutFifo = {} /\ InFifo' = {} /\ OutFifo' = {} /\ ctrl = "WAIT_SETUP"
           /\ SetupPkt = Content("setup", turn, 0, req) /\ SetupPkt.req = req /\ serving = turn /\ hLeft <= req.asks /\ hLeft = req.asks
           /\ req \in Requests /\ req \in Request /\ hDts = 1 /\ stage \in {"data", "status"} /\ (stage = "data" => req.kind \in {"read", "write"})
           /\ (req.kind = "read" => stage = "data" /\ inCount = req.has /\ pSrc = Content("data", turn, 0, req))
           /\ (inBusy <=> req.kind \in {"read", "address", "configure"}) /\ (outBusy <=> req.kind = "write")
           /\ (req.kind = "write" => outCount = req.asks) /\ (req.kind = "address" => USBDeviceState = "ADR_PENDING")
           /\ short = "NOT_USED" /\ handled = 0
           /\ sieOut = outNext /\ sieIn = inPtr /\ inPtr \in 0..1 /\ outNext \in 0..1
           /\ \A b \in 0..1 : ~outBD[b].own /\ ~inBD[b].own
           /\ outBD \in [0..1 -> OutDescriptor] /\ inBD \in [0..1 -> InDescriptor]
           /\ UNCHANGED <<sieOut, inPtr, outBusy, outCount, USBDeviceState, U1ADDR, SetupPkt, serving, handled,
                          stage, req, turn, hLeft, hDts, hAddr, lost>>
  <1>1. Types /\ DeviceOK /\ Agreed
    BY DEF Linked, InStep
  <1>2. pc = "arm" /\ Begun(SetupPkt.req)
    BY <1>1, ArmsPipeFacts DEF Linked, Announced
  <1>3. /\ req = SetupPkt.req /\ hLeft = req.asks /\ hDts = 1 /\ stage \in {"data", "status"}
        /\ (stage = "data" => req.kind \in {"read", "write"}) /\ (req.kind = "read" => stage = "data")
    BY <1>2 DEF Begun, Linked
  <1>4. UNCHANGED <<stage, req, turn, hLeft, hDts, hAddr, lost>>
    BY <1>1, ArmsPipeFacts DEF wire
  <1>5. SetupPkt = Content("setup", turn, 0, req) /\ serving = turn /\ hLeft <= req.asks
    BY <1>1 DEF Agreed
  <1>6. Claimed /\ req \in Request
    BY <1>1, ArmsPipeFacts DEF Types, Host
  <1>. QED BY <1>1, <1>2, <1>3, <1>4, <1>5, <1>6, ArmsPipeFacts DEF Claimed

\* Both sides expect the first packet of a control write.
LEMMA AwaitsDataLink ==
    ASSUME Linked, AwaitsData
    PROVE  InStep'
  <1>1. /\ ~inBusy /\ outBusy /\ ctrl' = "RX" /\ outBD' = [outBD EXCEPT ![outNext] = ForData(1)]
        /\ statusEnabled' = FALSE /\ pc' = "idle" /\ ArmsPipe
        /\ UNCHANGED <<inBD, short, inCount, pSrc, CtrlTrfData>>
    BY DEF AwaitsData, Arms
  <1>2. req.kind = "write" /\ outCount > 0 /\ outCount = hLeft /\ Writes
    <2>1. req.kind = "write"
      BY <1>1, ArmsPipeLink
    <2>. QED BY <1>1, <2>1, ArmsPipeLink, Ep0Assumption DEF Linked, InStep, Types, Numbers
  <1>3. outBD'[sieOut'] = ForData(1)
    BY <1>1, ArmsPipeLink
  <1>4. Agreed'
    BY <1>1, <1>2, ArmsPipeLink DEF Agreed
  <1>5. Writes'
    BY <1>1, <1>2, <1>3, ArmsPipeLink, ArmedFields DEF Writes, Gathers
  <1>. QED BY <1>1, <1>2, <1>4, <1>5, ArmsPipeLink DEF InStep

\* A request nobody claims has no data to agree on.
LEMMA StallsOutLink ==
    ASSUME Linked, StallsOut
    PROVE  InStep'
  <1>1. /\ ~inBusy /\ ~outBusy /\ outBD' = [outBD EXCEPT ![outNext] = [ForSetup EXCEPT !.chk = TRUE]] /\ pc' = "stallIn"
        /\ UNCHANGED <<inBD, ctrl, short, inCount, pSrc, statusEnabled, CtrlTrfData>> /\ ArmsPipe
    BY DEF StallsOut, Arms
  <1>2. req.kind = "unknown"
    BY <1>1, ArmsPipeLink, KindOf DEF Linked
  <1>3. outBD'[sieOut'].stall
    BY <1>1, ArmsPipeLink, ArmedFields
  <1>4. Agreed'
    BY <1>1, <1>2, <1>3, ArmsPipeLink DEF Agreed
  <1>. QED BY <1>1, <1>2, <1>4, ArmsPipeLink DEF InStep

\* The host is at the status stage of a request without data.
LEMMA AwaitsSetupLink ==
    ASSUME Linked, AwaitsSetup
    PROVE  InStep'
  <1>1. /\ inBusy /\ SetupPkt.req.kind # "read" /\ outBD' = [outBD EXCEPT ![outNext] = ForSetup] /\ pc' = "status"
        /\ ctrl' = "RX" /\ statusEnabled' = FALSE /\ ArmsPipe
        /\ UNCHANGED <<inBD, short, inCount, pSrc, CtrlTrfData>>
    BY DEF AwaitsSetup, Arms
  <1>2. req.kind \in {"address", "configure"}
    BY <1>1, ArmsPipeLink
  <1>4. Agreed'
    BY <1>1, <1>2, ArmsPipeLink DEF Agreed
  <1>5. Addresses' \/ req.kind # "address"
    BY <1>1, <1>2, ArmsPipeLink DEF Addresses
  <1>. QED BY <1>1, <1>2, <1>4, <1>5, ArmsPipeLink DEF InStep

\* The step USBCtrlTrfTxService takes through the data: n bytes left become n less a packet.
LEMMA SendsMore ==
    ASSUME Types, NEW n \in Nat, TxService(n), Total(req) \in Nat, n <= Total(req), n > 0 => short = "NOT_USED",
           pSrc = Content("data", turn, Total(req) - n, req), req' = req, turn' = turn
    PROVE  LET m == Least(Packet, n)
           IN /\ inCount' = n - m /\ inCount' + m <= Total(req) /\ m \in 0..Packet /\ inCount' \in Nat
              /\ pSrc' = Content("data", turn', Total(req') - inCount', req')
              /\ inCount' > 0 => short' = "NOT_USED"
              /\ short' = "NOT_USED" <=> m = Packet
              /\ m > 0 => CtrlTrfData' = Content("data", turn, Total(req) - n, req)
              /\ short = "NOT_USED" => short' # "SENT"
  <1> DEFINE m == Least(Packet, n)
             T == Total(req)
  <1>1. m \in 0..Packet /\ m \in Nat /\ m <= n /\ Packet \in Nat \ {0} /\ (m = Packet <=> n >= Packet) /\ (n < Packet => m = n)
    BY Ep0Assumption DEF Least
  <1>2. /\ inCount' = n - m /\ pSrc' = [pSrc EXCEPT !.pos = @ + m]
        /\ short' = (IF n >= Packet THEN short ELSE IF short = "NOT_USED" THEN "PENDING" ELSE "SENT")
        /\ CtrlTrfData' = (IF m = 0 THEN CtrlTrfData ELSE pSrc)
    BY DEF TxService
  <1>3. pSrc' \in Contents /\ pSrc \in Contents
    BY TxServiceFacts DEF Types, Data
  <1>4. pSrc'.what = "data" /\ pSrc'.turn = turn /\ pSrc'.req = req /\ pSrc'.pos = (T - n) + m
    BY <1>2, <1>3 DEF Content, Contents
  <1>5. inCount' \in Nat /\ inCount' + m <= T /\ T - inCount' = (T - n) + m
    <2>1. T \in Nat /\ n \in Nat /\ n <= T /\ m \in Nat /\ m <= n /\ inCount' = n - m
      BY <1>1, <1>2
    <2> HIDE DEF m, T
    <2>. QED BY ONLY <2>1
  <1>6. pSrc' = Content("data", turn', Total(req') - inCount', req')
    <2>1. pSrc' = Content("data", turn, T - inCount', req)
      BY <1>3, <1>4, <1>5 DEF Content, Contents
    <2>. QED BY <2>1 DEF Total
  <1>7. (inCount' > 0 => short' = "NOT_USED") /\ (short' = "NOT_USED" <=> m = Packet)
    BY <1>1, <1>2
  <1>. QED BY <1>1, <1>2, <1>5, <1>6, <1>7

\* The first packet is the one the host expects.
LEMMA SendsFirstLink ==
    ASSUME Linked, SendsFirst
    PROVE  InStep'
  <1> DEFINE n == Least(SetupPkt.req.asks, inCount)
             m == Least(Packet, n)
  <1>1. /\ inBusy /\ SetupPkt.req.kind = "read" /\ inBD' = [inBD EXCEPT ![inPtr] = Sending(1, Least(Packet, n))]
        /\ pc' = "status" /\ ctrl' = "TX" /\ outBD' = outBD /\ TxService(n) /\ ArmsPipe
    BY DEF SendsFirst, ArmsIn
  <1>2. req.kind = "read" /\ n = Total(req) /\ n \in Nat /\ n <= req.asks /\ req.asks - hLeft = 0 /\ Total(req) - n = 0
        /\ inCount = req.has /\ stage = "data" /\ pSrc = Content("data", turn, Total(req) - n, req)
    <2>1. req.kind = "read" /\ inCount = req.has /\ stage = "data" /\ pSrc = Content("data", turn, 0, req) /\ SetupPkt.req = req
          /\ hLeft = req.asks
      BY <1>1, ArmsPipeLink
    <2>2. n = Total(req) /\ n \in Nat /\ n <= req.asks /\ req.asks \in Nat
      BY <2>1, KindOf DEF Linked
    <2>. QED BY <2>1, <2>2
  <1>3. inBD'[inPtr'] = Sending(1, m)
    BY <1>1, ArmsPipeLink
  <1>4. Agreed'
    BY <1>1, <1>2, <1>3, ArmsPipeLink, ArmedFields DEF Agreed
  <1>5. /\ inCount' = n - m /\ inCount' + m <= Total(req) /\ m \in 0..Packet /\ inCount' \in Nat
        /\ pSrc' = Content("data", turn', Total(req') - inCount', req')
        /\ inCount' > 0 => short' = "NOT_USED"
        /\ short' = "NOT_USED" <=> m = Packet
        /\ m > 0 => CtrlTrfData' = Content("data", turn, Total(req) - n, req)
        /\ short' # "SENT"
    <2>1. Types /\ Total(req) \in Nat /\ n <= Total(req) /\ short = "NOT_USED" /\ req' = req /\ turn' = turn
      BY <1>1, <1>2, ArmsPipeLink
    <2> HIDE DEF n
    <2>. QED BY <1>1, <1>2, <2>1, SendsMore
  <1> HIDE DEF n, m
  <1>6. Total(req') = Total(req)
    BY <1>1, ArmsPipeLink
  <1>7. Sends'
    <2>1. inBD'[inPtr'].cnt = m /\ inBD'[inPtr'].dts = 1 /\ inBD'[inPtr'].own /\ ~inBD'[inPtr'].stall
      BY <1>3, ArmedFields
    <2>2. hDts' = 1 /\ stage' = "data" /\ InFifo' = {} /\ req' = req /\ turn' = turn
      BY <1>1, <1>2, ArmsPipeLink
    <2>3. req'.asks - hLeft' = 0 /\ Total(req') - n = 0
      BY <1>1, <1>2, <1>6, ArmsPipeLink
    <2>4. Total(req') - inCount' - m = 0
      <3>1. Total(req') \in Nat /\ n \in Nat /\ m \in Nat
        BY <1>2, <1>5, <1>6, KindOf, Ep0Assumption DEF Linked
      <3>. QED BY ONLY <1>5, <2>3, <3>1
    <2>5. m > 0 => CtrlTrfData' = Content("data", turn', req'.asks - hLeft', req')
      <3>1. Total(req) - n = req'.asks - hLeft'
        BY <1>6, <2>3
      <3>. QED BY <1>5, <2>2, <3>1
    <2>. QED BY <1>5, <1>6, <2>1, <2>2, <2>3, <2>4, <2>5 DEF Sends
  <1>8. Reads'
    BY <1>1, <1>2, <1>7, ArmsPipeLink DEF Reads
  <1>. QED BY <1>1, <1>2, <1>4, <1>8, ArmsPipeLink DEF InStep

\* What the actions that write one descriptor leave alone, on both sides.
LEMMA HeldLink ==
    ASSUME Linked, UNCHANGED held
    PROVE  /\ Types /\ DeviceOK /\ Agreed /\ InFifo' = InFifo /\ OutFifo' = OutFifo
           /\ UNCHANGED <<sieOut, inPtr, U1ADDR, USBDeviceState, SetupPkt, CtrlTrfData, serving,
                          stage, req, turn, hLeft, hDts, hAddr, lost>>
           /\ outBD \in [0..1 -> OutDescriptor] /\ inBD \in [0..1 -> InDescriptor]
           /\ outNext \in 0..1 /\ outCur \in 0..1 /\ inPtr \in 0..1 /\ sieOut \in 0..1
           /\ \A b \in OutFifo : outBD[b].pid = "out" /\ (DataOf(b) \/ StatusOf(b))
  <1>1. Types /\ DeviceOK /\ Agreed /\ ~pktdis
    BY DEF Linked, InStep
  <1>2. UNCHANGED <<stage, req, turn, hLeft, hDts, hAddr, lost>>
    BY <1>1, HeldFacts DEF wire
  <1>. QED BY <1>1, <1>2, HeldFacts, NoSetupWaits

\* A read none of whose pipe or host is touched.
LEMMA SendsSame ==
    ASSUME Sends, UNCHANGED <<inBD, inPtr, inCount, pSrc, short, CtrlTrfData, InFifo, stage, req, turn, hLeft, hDts>>
    PROVE  Sends'
  BY DEF Sends, Total

\* Only a request nobody claims has IN stalled here.
LEMMA StallsInLink ==
    ASSUME Linked, StallsIn
    PROVE  InStep'
  <1>1. /\ pc = "stallIn" /\ inBD' = [inBD EXCEPT ![inPtr] = StalledIn] /\ pc' = "idle"
        /\ UNCHANGED held /\ UNCHANGED <<outBD, ctrl, outBusy, handled>>
    BY DEF StallsIn, ArmsIn, pipes
  <1>2. req.kind = "unknown" /\ ctrl = "WAIT_SETUP"
    BY <1>1, HeldLink DEF Agreed, InStep, Linked
  <1>3. Agreed'
    BY <1>1, <1>2, HeldLink DEF Agreed
  <1>. QED BY <1>1, <1>2, <1>3, HeldLink DEF InStep

\* A status packet is armed only for a transfer that has one on IN.
LEMMA AllowsStatusInLink ==
    ASSUME Linked, AllowsStatusIn
    PROVE  InStep'
  <1>1. /\ pc = "status" /\ ctrl = "RX" /\ inBD' = [inBD EXCEPT ![inPtr] = Sending(1, 0)] /\ pc' = "idle"
        /\ UNCHANGED held /\ UNCHANGED <<outBD, ctrl, outBusy, outCount, handled>>
    BY DEF AllowsStatusIn, ArmsIn, pipes
  <1>2. req.kind \in {"write", "address", "configure"}
    BY <1>1, KindOf DEF Linked
  <1>3. ~inBD'[inPtr'].stall
    BY <1>1, HeldLink, ArmedFields
  <1>4. Agreed'
    BY <1>1, <1>3, HeldLink DEF Agreed
  <1>5. Writes => Writes'
    BY <1>1, HeldLink DEF Writes, Gathers
  <1>6. Addresses => Addresses'
    BY <1>1, HeldLink DEF Addresses
  <1>. QED BY <1>1, <1>2, <1>4, <1>5, <1>6, HeldLink DEF InStep, Linked

\* The status stage of a read, armed at both descriptors.
LEMMA StatusOutLink ==
    ASSUME Linked, AllowsStatusOut \/ ArmsStatusOut
    PROVE  InStep'
  <1>1. pc \in {"status", "statusNext"} /\ pc' \in {"statusNext", "idle"}
        /\ UNCHANGED held /\ UNCHANGED <<inBD, ctrl, inCount, pSrc, short>>
    BY DEF AllowsStatusOut, ArmsStatusOut, pipes
  <1>2. ctrl = "TX"
    BY HeldLink DEF AllowsStatusOut, ArmsStatusOut, DeviceOK, Phases, Types, Modes, Linked
  <1>3. req.kind = "read" /\ Reads /\ Sends
    BY <1>2, KindOf DEF Linked
  <1>4. Agreed'
    BY <1>1, <1>2, HeldLink DEF Agreed
  <1>5. Reads'
    <2>1. Sends'
      BY <1>1, <1>3, HeldLink, SendsSame
    <2>. QED BY <1>1, <1>2, <1>3, <2>1, HeldLink DEF Reads, Total
  <1>. QED BY <1>1, <1>3, <1>4, <1>5, HeldLink DEF InStep

\* A status stage that is not there changes nothing for the host.
LEMMA AllowsNothingLink ==
    ASSUME Linked, AllowsNothing
    PROVE  InStep'
  <1>1. /\ pc = "status" /\ ctrl = "WAIT_SETUP" /\ pc' = "idle"
        /\ UNCHANGED held /\ UNCHANGED <<outBD, inBD, ctrl, outBusy, outCount, handled>>
    BY DEF AllowsNothing, pipes
  <1>2. Agreed'
    BY <1>1, HeldLink DEF Agreed
  <1>3. Writes => Writes'
    BY <1>1, HeldLink DEF Writes, Gathers
  <1>4. Addresses => Addresses'
    BY <1>1, HeldLink DEF Addresses
  <1>5. Reads => Reads'
    BY <1>1, HeldLink DEF Reads, Total
  <1>. QED BY <1>1, <1>2, <1>3, <1>4, <1>5, HeldLink DEF InStep, Linked

\* The report handled is that of the host's write.
LEMMA HandlesLink ==
    ASSUME Linked, Handles
    PROVE  InStep'
  <1>1. /\ pc = "handle" /\ handled' = handled + 1 /\ outBusy' = FALSE /\ pc' \in {"idle", "status"}
        /\ UNCHANGED held /\ UNCHANGED <<outBD, inBD, ctrl, outCount>>
    BY DEF Handles, AfterStatus
  <1>2. ctrl = "RX" /\ outBusy /\ handled = 0
    BY <1>1, HeldLink DEF DeviceOK, Phases, ReadPhases, Types, Modes
  <1>3. req.kind = "write" /\ Writes
    BY <1>2, KindOf DEF Linked
  <1>4. Agreed'
    BY <1>1, <1>2, HeldLink DEF Agreed
  <1>5. Writes'
    BY <1>1, <1>2, <1>3, HeldLink DEF Writes, Gathers
  <1>. QED BY <1>1, <1>3, <1>4, <1>5, HeldLink DEF InStep

\* The status packet has ended the host's write before.
LEMMA HandlesEarlyLink ==
    ASSUME Linked, HandlesEarly
    PROVE  InStep'
  <1>1. /\ pc = "handleEarly" /\ handled' = handled + 1 /\ outBusy' = FALSE /\ ctrl' = "WAIT_SETUP" /\ pc' = "idle"
        /\ UNCHANGED held /\ UNCHANGED <<outBD, inBD, outCount>>
    BY DEF HandlesEarly
  <1>2. ctrl = "RX" /\ outBusy /\ handled = 0
    BY <1>1, HeldLink DEF DeviceOK, Phases, ReadPhases, Types, Modes
  <1>3. req.kind = "write" /\ Writes /\ stage \notin {"data", "status"}
    BY <1>1, <1>2, KindOf, HeldLink DEF Linked, Agreed
  <1>4. Agreed'
    BY <1>1, <1>2, <1>3, HeldLink DEF Agreed
  <1>5. Writes'
    BY <1>1, <1>2, <1>3, HeldLink DEF Writes, Gathers
  <1>. QED BY <1>1, <1>3, <1>4, <1>5, HeldLink DEF InStep

\* A frame changes nothing the host sees.
LEMMA FrameStartsLink ==
    ASSUME Linked, FrameStarts
    PROVE  InStep'
  <1>1. /\ pc = "idle" /\ pc' \in {"idle", "status"}
        /\ UNCHANGED <<outBD, inBD, sieOut, ustat, inPtr, ctrl, short, inCount, pSrc, outBusy, outCount, USBDeviceState,
                       U1ADDR, SetupPkt, CtrlTrfData, serving, handled, stage, req, turn, hLeft, hDts, hAddr, lost>>
    BY DEF FrameStarts, AfterStatus, Idle, sie, pipes, wire
  <1>2. InFifo' = InFifo /\ OutFifo' = OutFifo
    BY <1>1, FifoSame
  <1>3. Agreed /\ (ctrl = "TX" => Sends)
    BY KindOf DEF Linked, InStep
  <1>4. Agreed'
    BY <1>1, <1>2, <1>3 DEF Agreed
  <1>5. Writes => Writes'
    BY <1>1, <1>2 DEF Writes, Gathers
  <1>6. Addresses => Addresses'
    BY <1>1, <1>2 DEF Addresses
  <1>7. Reads => Reads'
    <2>1. Sends => Sends'
      BY <1>1, <1>2, SendsSame
    <2>. QED BY <1>1, <1>2, <2>1 DEF Reads, Total
  <1>. QED BY <1>1, <1>4, <1>5, <1>6, <1>7 DEF InStep, Linked

\* Nor does USBStallHandler.
LEMMA SeesStallLink ==
    ASSUME Linked, SeesStall
    PROVE  InStep'
  <1>1. UNCHANGED <<outBD, inBD, sie, firmware, SetupPkt, CtrlTrfData, wire>>
    BY SeesStallOK DEF Linked
  <1>2. UNCHANGED <<outBD, inBD, sieOut, ustat, inPtr, ctrl, short, inCount, pSrc, outBusy, outCount, USBDeviceState,
                    U1ADDR, SetupPkt, CtrlTrfData, pc, serving, handled, stage, req, turn, hLeft, hDts, hAddr, lost>>
    BY <1>1 DEF sie, firmware, pipes, wire
  <1>3. InFifo' = InFifo /\ OutFifo' = OutFifo
    BY <1>2, FifoSame
  <1>4. Agreed <=> Agreed'
    BY <1>2, <1>3 DEF Agreed
  <1>5. Writes => Writes'
    BY <1>2, <1>3 DEF Writes, Gathers
  <1>6. Addresses => Addresses'
    BY <1>2, <1>3 DEF Addresses
  <1>7. Reads => Reads'
    <2>1. Sends => Sends'
      BY <1>2, <1>3, SendsSame
    <2>. QED BY <1>2, <1>3, <2>1 DEF Reads, Total
  <1>. QED BY <1>2, <1>4, <1>5, <1>6, <1>7 DEF InStep, Linked

\* What both sides know when an OUT transaction is served.
LEMMA ServesLink ==
    ASSUME Linked, Serves("out")
    PROVE  /\ Types /\ DeviceOK /\ Agreed /\ pc = "idle" /\ Entry.buf \in 0..1 /\ Entry.buf \in OutFifo
           /\ InFifo' = InFifo /\ OutFifo' = OutFifo \ {Entry.buf}
           /\ outBD[Entry.buf].pid = "out" /\ (DataOf(Entry.buf) \/ StatusOf(Entry.buf))
           /\ UNCHANGED <<stage, req, turn, hLeft, hDts, hAddr, lost>>
  <1>1. Types /\ DeviceOK /\ Agreed /\ ~pktdis
    BY DEF Linked, InStep
  <1>2. /\ pc = "idle" /\ Entry.buf \in 0..1 /\ Entry.buf \in OutFifo /\ UNCHANGED wire
        /\ InFifo' = InFifo /\ OutFifo' = OutFifo \ {Entry.buf}
    BY <1>1, ServesFacts
  <1>. QED BY <1>1, <1>2, NoSetupWaits DEF wire

\* After a packet is served the next descriptor expects what the host has left.
LEMMA TakesDataLink ==
    ASSUME Linked, TakesData
    PROVE  InStep'
  <1> DEFINE b == Entry.buf
             left == outCount - Least(outBD[b].cnt, outCount)
             d == IF left > 0 THEN ForData(1 - outBD[b].dts) ELSE ForSetup
  <1>1. /\ Serves("out") /\ ctrl = "RX" /\ outCount' = left
        /\ outBD' = [outBD EXCEPT ![1 - b] = d]
        /\ pc' = (IF left > 0 THEN "idle" ELSE "handle")
        /\ UNCHANGED <<inBD, sieOut, inPtr, ctrl, outBusy, SetupPkt, serving, handled>>
    BY DEF TakesData, PointsAtOut, Arms
  <1>2. /\ b \in 0..1 /\ b \in OutFifo /\ outBD[b].pid = "out" /\ outBusy /\ outCount > 0 /\ sieOut = 1 - b /\ OutFifo = {b}
        /\ outBD[b].cnt = Least(Packet, outCount) /\ OutFifo' = {} /\ pc = "idle"
    BY <1>1, ServesLink DEF DataOf, StatusOf
  <1>3. req.kind = "write" /\ Writes
    BY <1>1, <1>2, KindOf DEF Linked
  <1>4. outCount \in Nat /\ hLeft \in Nat /\ left = outCount - outBD[b].cnt /\ outBD[b].cnt \in Nat /\ Least(Packet, outCount) \in Nat
        /\ left \in Nat
    <2>1. outCount \in Nat /\ hLeft \in Nat
      BY DEF Linked, Types, Numbers, Host
    <2>2. Least(Packet, outCount) \in Nat /\ Least(Packet, outCount) <= outCount
      BY <2>1, ArmedTypes
    <2>3. Least(outBD[b].cnt, outCount) = outBD[b].cnt
      BY <1>2, <2>1, <2>2 DEF Least
    <2>. QED BY <1>2, <2>1, <2>2, <2>3
  <1>5. outBD[b].dts \in 0..1 /\ hDts \in 0..1
    BY <1>2, DescriptorTypes DEF Linked, Types, OutDescriptor, Host
  <1>6. /\ outBD'[sieOut'] = d /\ (left > 0 => ~d.stall /\ d.dts = 1 - outBD[b].dts) /\ (~(left > 0) => d.stall)
    BY <1>1, <1>2, ArmedFields DEF Linked, Types, Descriptors
  <1>7. IF outBD[b].dts = hDts THEN hLeft = outCount /\ lost > 0 ELSE hLeft = left
    BY <1>2, <1>3, <1>4 DEF Writes
  <1>8. Least(Packet, outCount) = outBD[b].cnt
    BY <1>2
  <1> HIDE DEF d, left
  <1>9. Agreed'
    BY <1>1, ServesLink DEF Agreed
  <1>10. left > 0 => IF d.dts = hDts THEN left = hLeft ELSE hLeft > 0 /\ left = hLeft - Least(Packet, hLeft)
    <2> SUFFICES ASSUME left > 0 PROVE IF d.dts = hDts THEN left = hLeft ELSE hLeft > 0 /\ left = hLeft - Least(Packet, hLeft)
      OBVIOUS
    <2>1. CASE outBD[b].dts = hDts
      <3>1. hLeft = outCount /\ d.dts # hDts
        BY <1>5, <1>6, <1>7, <2>1
      <3>. QED BY <1>2, <1>4, <1>8, <3>1
    <2>2. CASE outBD[b].dts # hDts
      BY <1>5, <1>6, <1>7, <2>2
    <2>. QED BY <2>1, <2>2
  <1>11. stage = "data" /\ ~(left > 0) => lost > 0
    <2> SUFFICES ASSUME stage = "data", ~(left > 0) PROVE lost > 0
      OBVIOUS
    <2>. QED BY <1>3, <1>4, <1>7 DEF Writes
  <1>12. Writes'
    <2>1. stage' = "stalled" => lost' > 0 /\ (pc' = "handle" \/ handled' = 1)
      BY <1>1, <1>2, <1>3, ServesLink DEF Writes
    <2>2. stage' = "data" => hLeft' > 0 /\ (~outBusy' \/ pc' = "handle" => lost' > 0)
      BY <1>1, <1>3, <1>11, ServesLink DEF Writes
    <2>3. ctrl' # "TX" /\ (outBusy' <=> handled' = 0)
      BY <1>1, <1>3 DEF Writes
    <2>4. Gathers' => ctrl' = "RX" /\ outCount' > 0 /\ ~outBD'[sieOut'].stall
      BY <1>1, <1>6 DEF Gathers
    <2>. QED BY <1>1, <1>2, <1>6, <1>10, <2>1, <2>2, <2>3, <2>4, ServesLink DEF Writes
  <1>. QED BY <1>1, <1>3, <1>9, <1>12, ServesLink DEF InStep

\* The status packet of a read is served.
LEMMA TakesStatusLink ==
    ASSUME Linked, TakesStatus
    PROVE  InStep'
  <1> DEFINE b == Entry.buf
  <1>1. /\ Serves("out") /\ ctrl # "RX" /\ ctrl' = "WAIT_SETUP" /\ (bothOwned => outBD' = outBD)
        /\ UNCHANGED <<inBD, sieOut, inPtr, outBusy, SetupPkt, pc, serving, handled>>
    BY DEF TakesStatus, pipes
  <1>2. ctrl = "TX" /\ outBD' = outBD /\ (SetupWaits(1 - b) \/ outBD[sieOut].stall) /\ OutFifo # {}
    BY <1>1, ServesLink DEF DataOf, StatusOf
  <1>3. outBD[sieOut].stall
    BY <1>2, NoSetupWaits DEF SetupWaits, Linked
  <1>4. req.kind = "read" /\ Reads
    BY <1>2, KindOf DEF Linked
  <1>5. Agreed'
    BY <1>1, <1>2, <1>3, <1>4, ServesLink DEF Agreed
  <1>6. Reads'
    BY <1>1, <1>2, <1>4, ServesLink DEF Reads, Total
  <1>. QED BY <1>1, <1>4, <1>5, <1>6, ServesLink DEF InStep

\* What both sides know when an IN transaction is served.
LEMMA ServesInLink ==
    ASSUME Linked, ServesIn
    PROVE  /\ Types /\ DeviceOK /\ Agreed /\ pc = "idle"
           /\ UNCHANGED <<stage, req, turn, hLeft, hDts, hAddr, lost>> /\ InFifo # {}
  BY ServesInFacts DEF Linked, InStep, wire

\* The next packet of a read is the next for the host, also when it did not hear of the last.
LEMMA SendsNextLink ==
    ASSUME Linked, SendsNext
    PROVE  InStep'
  <1> DEFINE m == Least(Packet, inCount)
             d == IF short' = "SENT" THEN [StalledIn EXCEPT !.cnt = m] ELSE Sending(1 - inBD[inPtr].dts, m)
  <1>1. /\ ServesIn /\ ctrl = "TX" /\ TxService(inCount) /\ inBD' = [inBD EXCEPT ![inPtr'] = d]
        /\ UNCHANGED <<ctrl, pc>>
    BY DEF SendsNext, ArmsIn
  <1>2. req.kind = "read" /\ Reads /\ Sends /\ Total(req) \in Nat
    BY <1>1, KindOf DEF Linked
  <1>3. /\ inCount \in Nat /\ inBD[inPtr].dts \in 0..1 /\ inBD[inPtr].cnt \in Nat /\ hDts \in 0..1 /\ Packet \in Nat
        /\ inCount <= Total(req)
    <2>1. inCount \in Nat /\ inBD[inPtr].dts \in 0..1 /\ inBD[inPtr].cnt \in 0..Packet /\ hDts \in 0..1 /\ Packet \in Nat
      BY DescriptorTypes, Ep0Assumption DEF Linked, Types, Numbers, InDescriptor, Host, Pointers
    <2>. QED BY <1>2, <2>1 DEF Sends
  <1>4. /\ inCount' = inCount - m /\ inCount' + m <= Total(req) /\ m \in 0..Packet /\ inCount' \in Nat
        /\ pSrc' = Content("data", turn', Total(req') - inCount', req')
        /\ inCount' > 0 => short' = "NOT_USED"
        /\ short' = "NOT_USED" <=> m = Packet
        /\ m > 0 => CtrlTrfData' = Content("data", turn, Total(req) - inCount, req)
        /\ short = "NOT_USED" => short' # "SENT"
    <2>1. /\ Types /\ req' = req /\ turn' = turn /\ (inCount > 0 => short = "NOT_USED")
          /\ pSrc = Content("data", turn, Total(req) - inCount, req)
      BY <1>1, <1>2, ServesInLink DEF Sends
    <2>. QED BY <1>1, <1>2, <1>3, <2>1, SendsMore
  <1>5. /\ inBD'[inPtr'] = d /\ d.own /\ d.cnt = m /\ (d.stall <=> short' = "SENT")
        /\ (short' # "SENT" => d.dts = 1 - inBD[inPtr].dts) /\ InFifo' = {} /\ Total(req') = Total(req)
    BY <1>1, ServesInFacts, ServesInLink, ArmedFields DEF Linked, Types, Descriptors
  <1> HIDE DEF d, m
  <1>6. stage = "data" => /\ inBD[inPtr].dts # hDts /\ req.asks - hLeft = Total(req) - inCount /\ short' # "SENT"
                          /\ d.dts = hDts
    <2> SUFFICES ASSUME stage = "data" PROVE /\ inBD[inPtr].dts # hDts /\ req.asks - hLeft = Total(req) - inCount
                                             /\ short' # "SENT" /\ d.dts = hDts
      OBVIOUS
    <2>1. inBD[inPtr].dts # hDts /\ req.asks - hLeft = Total(req) - inCount /\ short = "NOT_USED"
      BY <1>1, <1>2, ServesInLink DEF Sends
    <2>2. short' # "SENT"
      BY <1>4, <2>1
    <2>. QED BY <1>3, <1>5, <2>1, <2>2
  <1>7. Agreed'
    BY <1>1, <1>2, <1>5, ServesInFacts, ServesInLink DEF Agreed
  <1>8. Sends'
    <2>1. Total(req') - inCount = Total(req') - inCount' - m
      <3>1. Total(req') \in Nat /\ inCount \in Nat /\ m \in Nat /\ inCount' = inCount - m
        BY <1>2, <1>3, <1>4, <1>5
      <3>. QED BY ONLY <3>1
    <2>2. /\ stage' = stage /\ req' = req /\ turn' = turn /\ hLeft' = hLeft /\ hDts' = hDts
      BY <1>1, ServesInLink
    <2>3. stage = "data" /\ m > 0 => CtrlTrfData' = Content("data", turn', req'.asks - hLeft', req')
      BY <1>4, <1>6, <2>2
    <2>4. stage = "data" => req'.asks - hLeft' = Total(req') - inCount' - m
      BY <1>5, <1>6, <2>1, <2>2
    <2>. QED BY <1>4, <1>5, <1>6, <2>2, <2>3, <2>4 DEF Sends
  <1>9. Reads'
    BY <1>1, <1>2, <1>5, <1>8, ServesInFacts, ServesInLink DEF Reads
  <1>. QED BY <1>1, <1>2, <1>7, <1>9, ServesInLink DEF InStep

\* The end of a status stage, where a SET_ADDRESS takes effect.
LEMMA EndsStatusLink ==
    ASSUME Linked, EndsStatus
    PROVE  InStep'
  <1>1. /\ ServesIn /\ ctrl # "TX" /\ UNCHANGED <<inBD, short, inCount, pSrc, CtrlTrfData>>
        /\ (outBusy /\ pc' = "handleEarly" /\ ctrl' = ctrl) \/ (~outBusy /\ ctrl' = "WAIT_SETUP" /\ pc' = pc)
    BY DEF EndsStatus
  <1>2. /\ Types /\ DeviceOK /\ Agreed /\ pc = "idle" /\ InFifo # {} /\ InFifo' = {} /\ OutFifo' = OutFifo
        /\ UNCHANGED <<stage, req, turn, hLeft, hDts, hAddr, lost, outBD, sieOut, outBusy, outCount, SetupPkt, serving, handled>>
        /\ ~inBD[0].own /\ ~inBD[1].own /\ inPtr' \in 0..1
    BY <1>1, ServesInFacts, ServesInLink
  <1>3. outBusy => ctrl = "RX"
    BY <1>2 DEF DeviceOK, Phases
  <1>4. (ctrl = "RX" => stage \notin {"data", "status"}) /\ ctrl \in {"WAIT_SETUP", "RX"}
    BY <1>1, <1>2 DEF Agreed, Types, Modes
  <1>5. Agreed'
    BY <1>1, <1>2, <1>3, <1>4 DEF Agreed
  <1>6. Writes => Writes'
    BY <1>1, <1>2, <1>3, <1>4 DEF Writes, Gathers
  <1>7. Reads => Reads'
    BY <1>1, <1>2 DEF Reads, Total
  <1>8. Addresses /\ req.kind = "address" => Addresses'
    <2> SUFFICES ASSUME Addresses, req.kind = "address" PROVE Addresses'
      OBVIOUS
    <2>1. stage # "status"
      BY <1>1, <1>2, <1>4 DEF Agreed, Types, Modes
    <2>2. SetupPkt.req.val = req.val
      BY KindOf DEF Linked
    <2>3. stage = "done" /\ lost = 0 => U1ADDR' = hAddr
      BY <1>1, <2>2, ServesInFacts, <1>2 DEF Addresses
    <2>. QED BY <1>1, <1>2, <2>1, <2>3 DEF Addresses
  <1>9. req.kind = "unknown" => ctrl' = "WAIT_SETUP"
    BY <1>1, <1>2, <1>3 DEF InStep, Linked
  <1>. QED BY <1>1, <1>2, <1>5, <1>6, <1>7, <1>8, <1>9 DEF InStep, Linked

\* What a step of the bus that leaves the device alone leaves of the link.
LEMMA BusLink ==
    ASSUME Linked, UNCHANGED <<outBD, inBD, sie, firmware, SetupPkt, CtrlTrfData>>
    PROVE  /\ InFifo' = InFifo /\ OutFifo' = OutFifo
           /\ UNCHANGED <<outBD, inBD, sieOut, sieIn, pktdis, inPtr, ctrl, short, inCount, pSrc, outBusy, outCount, USBDeviceState,
                          U1ADDR, SetupPkt, CtrlTrfData, pc, serving, handled>>
           /\ Types /\ DeviceOK /\ Agreed /\ sieOut \in 0..1
           /\ \A b \in OutFifo : outBD[b].pid = "out" /\ (DataOf(b) \/ StatusOf(b))
  <1>1. UNCHANGED <<outBD, inBD, sieOut, sieIn, ustat, pktdis, inPtr, ctrl, short, inCount, pSrc, outBusy, outCount, USBDeviceState,
                    U1ADDR, SetupPkt, CtrlTrfData, pc, serving, handled>>
    BY DEF sie, firmware, pipes
  <1>. QED BY <1>1, FifoSame, NoSetupWaits DEF Linked, InStep, Types, Pointers

\* A stall on IN meets a read that has given all, or a request nobody claims.
LEMMA InStalledLink ==
    ASSUME Linked, InStalled
    PROVE  InStep' /\ Host'
  <1>1. /\ WantsIn /\ inBD[sieIn].own /\ inBD[sieIn].stall /\ stage' = "stalled"
        /\ UNCHANGED <<outBD, inBD, sie, firmware, SetupPkt, CtrlTrfData>>
        /\ UNCHANGED <<req, turn, hLeft, hDts, hAddr, lost>>
    BY DEF InStalled
  <1>2. sieIn = inPtr /\ pc # "arm"
    <2>1. sieIn = inPtr
      BY <1>1 DEF Linked, DeviceOK, InOK, Types, Pointers
    <2>. QED BY <1>1, <2>1, ClaimedFacts DEF Linked
  <1>3. req.kind \in {"read", "unknown"}
    BY <1>1, <1>2, BusLink DEF Agreed
  <1>4. req.kind # "read"
    <2> SUFFICES ASSUME req.kind = "read" PROVE FALSE
      OBVIOUS
    <2>1. stage = "data" /\ Reads
      BY <1>1 DEF WantsIn, Linked, InStep
    <2>2. ctrl = "TX" /\ Sends
      BY <1>2, <2>1 DEF Reads
    <2>. QED BY <1>1, <1>2, <2>1, <2>2 DEF Sends
  <1>5. Agreed'
    BY <1>1, BusLink DEF Agreed
  <1>6. Host'
    BY <1>1 DEF Linked, Types, Host
  <1>. QED BY <1>1, <1>3, <1>4, <1>5, <1>6, BusLink DEF InStep, Linked

\* A stall on OUT meets a repeated packet, or a request nobody claims.
LEMMA OutStalledLink ==
    ASSUME Linked, OutStalled
    PROVE  InStep' /\ Host'
  <1>1. /\ WantsOut /\ outBD[sieOut].own /\ outBD[sieOut].stall /\ stage' = "stalled" /\ ~pktdis
        /\ UNCHANGED <<outBD, inBD, sie, firmware, SetupPkt, CtrlTrfData>>
        /\ UNCHANGED <<req, turn, hLeft, hDts, hAddr, lost>>
    BY DEF OutStalled, Heard
  <1>2. pc \notin {"arm", "complete"}
    BY <1>1, ClaimedFacts DEF Linked, Types, Pointers
  <1>3. req.kind \in {"read", "write"} /\ (req.kind = "read" => stage = "status") /\ (req.kind = "write" => stage = "data")
    BY <1>1, BusLink DEF WantsOut, Agreed
  <1>4. Agreed'
    BY <1>1, BusLink DEF Agreed
  <1>5. req.kind = "read" => Reads'
    <2> SUFFICES ASSUME req.kind = "read" PROVE Reads'
      OBVIOUS
    <2>1. Reads
      BY DEF Linked, InStep
    <2>2. lost > 0
      <3>1. CASE OutFifo # {} \/ ctrl = "WAIT_SETUP"
        BY <1>3, <2>1, <3>1 DEF Reads
      <3>2. CASE OutFifo = {} /\ ctrl # "WAIT_SETUP"
        <4>1. ReadPhases /\ Sends
          BY <2>1, <3>2 DEF Reads, Linked, DeviceOK, Phases
        <4>2. ~Fresh
          <5>1. Fresh => InFifo = {} /\ ~inBD[inPtr].own
            BY FifoEmpty DEF Fresh, Linked, DeviceOK, Types, Pointers
          <5>. QED BY <4>1, <5>1 DEF Sends
        <4>. QED BY <1>1, <3>2, <4>1, <4>2, ArmedFields DEF ReadPhases, Linked, Types, Pointers
      <3>. QED BY <3>1, <3>2
    <2>3. Sends => Sends'
      BY <1>1, <1>3, BusLink DEF Sends, Total
    <2>. QED BY <1>1, <1>3, <2>1, <2>2, <2>3, BusLink DEF Reads, Total
  <1>6. req.kind = "write" => Writes'
    <2> SUFFICES ASSUME req.kind = "write" PROVE Writes'
      OBVIOUS
    <2>1. Writes
      BY DEF Linked, InStep
    <2>2. ASSUME NEW b \in OutFifo PROVE ~Gathers
      <3>1. b \in 0..1 /\ DataOf(b)
        BY <1>1, <2>1, BusLink DEF StatusOf, Writes, OutFifo
      <3>. QED BY <1>1, <3>1 DEF DataOf
    <2>3. ~Gathers
      BY <1>1, <2>1, <2>2 DEF Writes
    <2>4. lost > 0 /\ (pc = "handle" \/ handled = 1)
      <3>1. CASE pc = "handle"
        BY <1>3, <2>1, <3>1 DEF Writes
      <3>2. CASE pc # "handle"
        BY <1>2, <1>3, <2>1, <2>3, <3>2 DEF Writes, Gathers, Linked, DeviceOK, Phases
      <3>. QED BY <3>1, <3>2
    <2>. QED BY <1>1, <2>1, <2>4, BusLink DEF Writes, Gathers
  <1>7. Host'
    BY <1>1 DEF Linked, Types, Host
  <1>. QED BY <1>1, <1>3, <1>4, <1>5, <1>6, <1>7 DEF InStep

\* Which descriptor an OUT packet that is not stalled finds.
LEMMA OutFound ==
    ASSUME Linked, WantsOut, outBD[sieOut].own, ~outBD[sieOut].stall
    PROVE  /\ ctrl \in {"TX", "RX"}
           /\ ctrl = "TX" => req.kind = "read" /\ Reads /\ stage = "status" /\ outBD[sieOut] = ForStatus /\ pc # "arm"
           /\ ctrl = "RX" => /\ req.kind = "write" /\ Writes /\ stage = "data" /\ ArmedForData(sieOut)
                             /\ InFifo = {} /\ pc # "handleEarly" /\ turn = serving /\ req = SetupPkt.req
           /\ hLeft <= req.asks
  <1>1. ArmedOut(sieOut) /\ Agreed /\ stage \in {"data", "status"}
    BY DEF Linked, DeviceOK, OutOK, Types, Pointers, InStep, WantsOut
  <1>2. ctrl # "WAIT_SETUP"
    BY <1>1 DEF Agreed
  <1>3. ctrl \in {"TX", "RX"}
    BY <1>2 DEF Linked, Types, Modes
  <1>4. ASSUME ctrl = "TX" PROVE req.kind = "read" /\ Reads /\ stage = "status" /\ outBD[sieOut] = ForStatus /\ pc # "arm"
    <2>1. req.kind = "read" /\ Reads /\ stage = "status"
      BY <1>4, KindOf DEF Linked, WantsOut
    <2>. QED BY <1>1, <1>4, <2>1 DEF ArmedOut, ArmedForData, Linked, DeviceOK, Phases, ReadPhases
  <1>5. ASSUME ctrl = "RX"
        PROVE  /\ req.kind = "write" /\ Writes /\ stage = "data" /\ ArmedForData(sieOut)
               /\ InFifo = {} /\ pc # "handleEarly" /\ turn = serving /\ req = SetupPkt.req
    <2>1. ArmedForData(sieOut) /\ outBusy
      BY <1>1, <1>5 DEF ArmedOut, ArmedForData
    <2>2. req.kind = "write" /\ Writes /\ stage = "data" /\ req = SetupPkt.req
      BY <1>5, <2>1, KindOf DEF Linked, WantsOut
    <2>. QED BY <1>1, <1>5, <2>1, <2>2 DEF Agreed
  <1>. QED BY <1>1, <1>3, <1>4, <1>5 DEF Agreed

\* A repeated packet brings the host to where the pipe is.
LEMMA OutRepeatedLink ==
    ASSUME Linked, OutRepeated
    PROVE  InStep' /\ Host' /\ hLeft' < hLeft /\ req.kind = "write"
  <1>1. /\ WantsOut /\ outBD[sieOut].own /\ ~outBD[sieOut].stall /\ outBD[sieOut].chk /\ outBD[sieOut].dts # OutDts
        /\ hLeft' = hLeft - OutSize /\ hDts' = 1 - hDts
        /\ stage' = (IF stage = "status" THEN "done" ELSE IF hLeft' = 0 THEN "status" ELSE "data")
        /\ UNCHANGED <<outBD, inBD, sie, firmware, SetupPkt, CtrlTrfData>>
        /\ UNCHANGED <<req, turn, hAddr, lost>>
    BY DEF OutRepeated, HostGoesOn, Repeated
  <1>2. ctrl = "RX"
    BY <1>1, OutFound, ArmedFields
  <1>3. req.kind = "write" /\ Writes /\ stage = "data" /\ ArmedForData(sieOut) /\ InFifo = {} /\ pc # "handleEarly"
    BY <1>1, <1>2, OutFound
  <1>4. OutSize = Least(Packet, hLeft) /\ OutDts = hDts
    BY <1>3 DEF OutSize, OutDts
  <1>5. /\ hLeft \in Nat /\ hDts \in 0..1 /\ outBD[sieOut].dts \in 0..1 /\ outCount \in Nat /\ outCount > 0
        /\ OutSize \in Nat /\ OutSize > 0 /\ OutSize <= hLeft
    <2>1. hLeft \in Nat /\ hDts \in 0..1 /\ outBD[sieOut].dts \in 0..1 /\ outCount \in Nat /\ outCount > 0 /\ hLeft > 0
      <3>1. outBD[sieOut].dts \in 0..1
        BY DescriptorTypes DEF Linked, Types, OutDescriptor, Pointers
      <3>. QED BY <1>2, <1>3, <3>1 DEF Linked, Types, Host, Numbers, ArmedForData, Writes
    <2>. QED BY <1>4, <2>1, Ep0Assumption DEF Least
  <1>6. outCount = hLeft - OutSize /\ hLeft' = outCount /\ stage' = "data" /\ hDts' = outBD[sieOut].dts
    BY <1>1, <1>2, <1>3, <1>4, <1>5 DEF Writes
  <1>7. OutFifo = {}
    <2>1. ASSUME NEW b \in OutFifo PROVE FALSE
      <3>1. b \in 0..1 /\ DataOf(b)
        BY <1>1, <1>2, BusLink DEF StatusOf, OutFifo
      <3>. QED BY <1>1, <3>1 DEF DataOf
    <2>. QED BY <2>1
  <1>8. Agreed'
    <2>1. hLeft' <= req.asks
      <3>1. hLeft <= req.asks /\ req.asks \in Nat
        BY <1>1, OutFound, KindOf DEF Linked
      <3>2. hLeft' = hLeft - OutSize
        BY <1>1
      <3>. QED BY ONLY <1>5, <3>1, <3>2
    <2>. QED BY <1>1, <1>2, <1>3, <1>6, <2>1, BusLink DEF Agreed
  <1>9. Writes'
    BY <1>1, <1>2, <1>3, <1>5, <1>6, <1>7, BusLink DEF Writes, Gathers
  <1>10. Host'
    BY <1>1, <1>5, <1>6 DEF Linked, Types, Host
  <1>. QED BY <1>1, <1>3, <1>5, <1>6, <1>8, <1>9, <1>10 DEF InStep

\* A write ended early is at its status stage on the host's side only.
LEMMA EndsEarlyLink ==
    ASSUME Linked, EndsEarly
    PROVE  InStep'
  <1>1. /\ stage = "data" /\ req.kind = "write" /\ stage' = "status"
        /\ UNCHANGED <<outBD, inBD, sie, firmware, SetupPkt, CtrlTrfData>>
        /\ UNCHANGED <<req, turn, hLeft, hDts, hAddr, lost>>
    BY DEF EndsEarly, firmware
  <1>2. Agreed'
    BY <1>1, BusLink DEF Agreed
  <1>3. Writes'
    BY <1>1, BusLink DEF Writes, Gathers, Linked, InStep
  <1>. QED BY <1>1, <1>2, <1>3 DEF InStep

\* The packet the SIE takes is the one the pipe expects.
LEMMA OutTakenLink ==
    ASSUME Linked, OutTaken(TRUE) \/ OutTaken(FALSE)
    PROVE  Types' /\ DeviceOK' /\ InStep' /\ (hLeft' < hLeft => req.kind = "write")
  <1> DEFINE s == sieOut
  <1>1. /\ WantsOut /\ outBD[s].own /\ ~outBD[s].stall /\ ~Repeated
        /\ UNCHANGED <<inBD, sieIn, pktdis, stallIF, firmware, req, turn, hAddr>>
    BY DEF OutTaken
  <1>2. UNCHANGED <<inPtr, ctrl, short, inCount, pSrc, outBusy, outCount, USBDeviceState, U1ADDR, pc, serving, handled>>
    BY <1>1 DEF firmware, pipes
  <1>3. /\ ctrl \in {"TX", "RX"} /\ hLeft <= req.asks /\ Types /\ DeviceOK /\ Agreed
        /\ hLeft \in Nat /\ hDts \in 0..1 /\ lost \in Nat /\ s \in 0..1 /\ req.asks \in Nat
    BY <1>1, OutFound, KindOf DEF Linked, InStep, Types, Host, Pointers
  <1>4. OutSize \in Nat /\ OutSize <= hLeft /\ (stage = "data" => OutSize = Least(Packet, hLeft)) /\ (stage = "status" => OutSize = 0)
        /\ (stage = "data" => OutDts = hDts)
    BY <1>3, Ep0Assumption DEF OutSize, OutDts, Least
  <1>5. \/ /\ hLeft' = hLeft - OutSize /\ hDts' = 1 - hDts /\ lost' = lost
           /\ stage' = (IF stage = "status" THEN "done" ELSE IF hLeft' = 0 THEN "status" ELSE "data")
        \/ hLeft' = hLeft /\ hDts' = hDts /\ lost' = lost + 1 /\ stage' = stage
    BY DEF OutTaken, HostGoesOn
  <1>6. Host'
    BY <1>1, <1>3, <1>4, <1>5 DEF Types, Host
  <1>7. /\ ctrl = "TX" => req.kind = "read" /\ Reads /\ stage = "status" /\ outBD[s] = ForStatus /\ pc # "arm"
        /\ ctrl = "RX" => /\ req.kind = "write" /\ Writes /\ stage = "data" /\ ArmedForData(s)
                          /\ InFifo = {} /\ pc # "handleEarly" /\ turn = serving /\ req = SetupPkt.req
    BY <1>1, OutFound
  <1>8. ctrl = "RX" => outBD[s].dts = hDts /\ hLeft = outCount
    BY <1>1, <1>4, <1>7 DEF Repeated, ArmedForData, Writes
  <1>9. /\ Types' /\ DeviceOK' /\ OutFifo' = {s} /\ InFifo' = InFifo
        /\ outBD'[s].pid = "out" /\ outBD'[s].cnt = OutSize /\ outBD'[s].dts = OutDts
        /\ SetupPkt' = SetupPkt /\ (ctrl = "TX" => CtrlTrfData' = CtrlTrfData) /\ sieOut' = 1 - s
        /\ (ctrl = "RX" => ArmedForData(s) /\ ~outBD'[1 - s].own)
    <2>1. /\ ctrl # "WAIT_SETUP" /\ (ctrl = "TX" => stage = "status")
          /\ ctrl = "RX" => /\ InFifo = {} /\ pc # "handleEarly" /\ stage = "data" /\ hLeft = outCount
                            /\ turn = serving /\ req = SetupPkt.req
      BY <1>3, <1>7, <1>8
    <2> HIDE DEF s
    <2>2. s = sieOut
      BY DEF s
    <2>. QED BY <1>3, <1>6, <2>1, <2>2, OutTakenOK
  <1>10. hLeft' <= req'.asks /\ hLeft' \in Nat
    BY <1>1, <1>3, <1>4, <1>5
  <1> HIDE DEF s
  <1>11. Agreed'
    BY <1>1, <1>2, <1>3, <1>5, <1>7, <1>9, <1>10 DEF Agreed
  <1>12. ctrl = "TX" => Reads'
    <2> SUFFICES ASSUME ctrl = "TX" PROVE Reads'
      OBVIOUS
    <2>1. OutSize = 0 /\ hLeft' = hLeft /\ stage' \in {"done", "status"} /\ (stage' = "status" => lost' > 0)
      BY <1>3, <1>4, <1>5, <1>7
    <2>2. Sends'
      <3>1. Sends
        BY <1>7 DEF Reads
      <3>. QED BY <1>1, <1>2, <1>9, <2>1, <3>1 DEF Sends, Total
    <2>3. req'.asks - hLeft' = Total(req')
      BY <1>1, <1>7, <2>1 DEF Reads, Total
    <2>. QED BY <1>2, <2>1, <2>2, <2>3 DEF Reads
  <1>13. ctrl = "RX" => Writes'
    <2> SUFFICES ASSUME ctrl = "RX" PROVE Writes'
      OBVIOUS
    <2>1. outBusy /\ outCount > 0 /\ ~outBD'[sieOut'].own /\ hLeft > 0 /\ stage = "data" /\ Writes
      BY <1>7, <1>9 DEF ArmedForData, Writes
    <2>2. stage' = "data" => hLeft' > 0 /\ pc # "handle"
      <3>1. pc # "handle"
        BY <2>1 DEF Linked, DeviceOK, Phases
      <3>. QED BY <1>5, <1>10, <2>1, <3>1
    <2>3. stage' # "stalled"
      BY <1>5, <2>1
    <2>4. IF outBD'[s].dts = hDts' THEN hLeft' = outCount /\ lost' > 0 ELSE hLeft' = outCount - outBD'[s].cnt
      BY <1>3, <1>4, <1>5, <1>8, <1>9, <2>1
    <2>. QED BY <1>1, <1>2, <1>9, <2>1, <2>2, <2>3, <2>4 DEF Writes, Gathers
  <1>14. hLeft' < hLeft => req.kind = "write"
    BY <1>3, <1>4, <1>5, <1>7
  <1>. QED BY <1>1, <1>3, <1>7, <1>9, <1>11, <1>12, <1>13, <1>14 DEF InStep

\* The packet the host takes is the next of its transfer.
LEMMA InAnsweredLink ==
    ASSUME Linked, InAnswered(TRUE) \/ InAnswered(FALSE)
    PROVE  /\ Types' /\ DeviceOK' /\ InStep'
           /\ hLeft' < hLeft /\ req.kind = "read" => CtrlTrfData = Content("data", turn, req.asks - hLeft, req)
  <1> DEFINE b == inBD[sieIn]
             T == Total(req)
  <1>1. /\ WantsIn /\ b.own /\ ~b.stall /\ HostTakes(b)
        /\ UNCHANGED <<outBD, sieOut, pktdis, stallIF, firmware, SetupPkt, CtrlTrfData, req, turn>>
        /\ lost' = lost \/ lost' = lost + 1
        /\ InAnswered(FALSE) => lost' = lost + 1
    BY DEF InAnswered
  <1>2. UNCHANGED <<inPtr, ctrl, short, inCount, pSrc, outBusy, outCount, USBDeviceState, U1ADDR, pc, serving, handled>>
    BY <1>1 DEF firmware, pipes
  <1>3. /\ Types /\ DeviceOK /\ Agreed /\ hLeft \in Nat /\ hDts \in 0..1 /\ lost \in Nat /\ hAddr \in Nat
        /\ req.asks \in Nat /\ T \in Nat /\ T <= req.asks /\ inCount \in Nat /\ Packet \in Nat \ {0} /\ req.val \in Nat
        /\ hLeft <= req.asks
    BY KindOf, Ep0Assumption DEF Linked, InStep, Types, Host, Numbers, Agreed
  <1>4. sieIn = inPtr /\ inPtr \in 0..1 /\ InFifo = {} /\ pc # "arm"
    BY <1>1, <1>3, ClaimedFacts DEF DeviceOK, InOK, Types, Pointers
  <1>5. b.cnt \in 0..Packet /\ b.dts \in 0..1
    BY <1>3, <1>4, DescriptorTypes DEF Types, InDescriptor
  <1>6. /\ stage = "status" => /\ stage' = "done" /\ hLeft' = hLeft /\ hDts' = hDts
                               /\ hAddr' = (IF req.kind = "address" THEN req.val ELSE hAddr)
        /\ stage # "status" /\ b.dts = hDts =>
             /\ hLeft' = hLeft - b.cnt /\ hDts' = 1 - hDts /\ hAddr' = hAddr
             /\ stage' = (IF b.cnt < Packet \/ hLeft' = 0 THEN "status" ELSE "data")
        /\ stage # "status" /\ b.dts # hDts => UNCHANGED <<stage, hLeft, hDts, hAddr>>
    BY <1>1 DEF HostTakes
  <1> HIDE DEF T
  <1>7. /\ req.kind = "read" => stage = "data" /\ ctrl = "TX" /\ OutFifo = {} /\ Sends
        /\ req.kind # "read" => stage = "status"
    BY <1>1, <1>4 DEF WantsIn, Linked, InStep, Reads
  <1>8. req.kind = "read" /\ b.dts = hDts =>
          /\ req.asks - hLeft = T - inCount - b.cnt /\ inCount + b.cnt <= T
          /\ b.cnt > 0 => CtrlTrfData = Content("data", turn, req.asks - hLeft, req)
          /\ hLeft' = hLeft - b.cnt /\ hLeft' \in Nat /\ hLeft' <= req.asks /\ req.asks - hLeft' = T - inCount
          /\ stage' = "data" => b.cnt = Packet
          /\ stage' # "data" => stage' = "status" /\ inCount = 0
    <2> SUFFICES ASSUME req.kind = "read", b.dts = hDts
                 PROVE  /\ req.asks - hLeft = T - inCount - b.cnt /\ inCount + b.cnt <= T
                        /\ b.cnt > 0 => CtrlTrfData = Content("data", turn, req.asks - hLeft, req)
                        /\ hLeft' = hLeft - b.cnt /\ hLeft' \in Nat /\ hLeft' <= req.asks /\ req.asks - hLeft' = T - inCount
                        /\ stage' = "data" => b.cnt = Packet
                        /\ stage' # "data" => stage' = "status" /\ inCount = 0
      OBVIOUS
    <2>1. /\ req.asks - hLeft = T - inCount - b.cnt /\ inCount + b.cnt <= T
          /\ (b.cnt > 0 => CtrlTrfData = Content("data", turn, req.asks - hLeft, req))
          /\ (inCount > 0 => b.cnt = Packet)
      BY <1>4, <1>7 DEF Sends, T
    <2>2. hLeft' = hLeft - b.cnt /\ stage' = (IF b.cnt < Packet \/ hLeft' = 0 THEN "status" ELSE "data")
      BY <1>6, <1>7
    <2> DEFINE c == b.cnt
               asks == req.asks
    <2>3. c \in Nat /\ c <= Packet /\ asks \in Nat
      BY <1>3, <1>5
    <2>4. /\ asks - hLeft = T - inCount - c /\ inCount + c <= T /\ hLeft' = hLeft - c /\ (inCount > 0 => c = Packet)
      BY <2>1, <2>2
    <2>5. stage' = (IF c < Packet \/ hLeft' = 0 THEN "status" ELSE "data")
      BY <2>2
    <2>6. T \in Nat /\ T <= asks /\ inCount \in Nat /\ Packet \in Nat /\ hLeft \in Nat /\ hLeft <= asks
      BY <1>3
    <2>7. b.cnt > 0 => CtrlTrfData = Content("data", turn, req.asks - hLeft, req)
      BY <2>1
    <2> HIDE DEF c, asks
    <2>8. /\ hLeft' \in Nat /\ hLeft' <= asks /\ asks - hLeft' = T - inCount
          /\ stage' = "data" => c = Packet
          /\ stage' # "data" => stage' = "status" /\ inCount = 0
      BY ONLY <2>3, <2>4, <2>5, <2>6
    <2>. QED BY <2>4, <2>7, <2>8 DEF c, asks
  <1>9. Host' /\ hLeft' <= req'.asks
    <2>1. CASE req.kind = "read" /\ b.dts = hDts
      BY <1>1, <1>3, <1>6, <1>7, <1>8, <2>1 DEF Types, Host
    <2>2. CASE ~(req.kind = "read" /\ b.dts = hDts)
      BY <1>1, <1>3, <1>6, <1>7, <2>2 DEF Types, Host
    <2>. QED BY <2>1, <2>2
  <1>10. /\ Types' /\ DeviceOK' /\ OutFifo' = OutFifo /\ (ctrl = "RX" => statusEnabled)
         /\ InAnswered(TRUE) => InFifo' = {inPtr} /\ ~inBD'[inPtr].own
         /\ InAnswered(FALSE) => inBD' = inBD /\ InFifo' = InFifo
         /\ pc \notin {"complete", "arm", "stallIn", "handleEarly"}
    BY <1>3, <1>9, InAnsweredOK
  <1>11. inBD'[inPtr].stall = b.stall /\ inBD'[inPtr].cnt = b.cnt /\ inBD'[inPtr].dts = b.dts
         /\ (InFifo' = {} => inBD'[inPtr].own)
    <2>1. CASE InAnswered(FALSE)
      BY <1>1, <1>4, <1>10, <2>1
    <2>2. CASE InAnswered(TRUE)
      <3>1. inBD' = [inBD EXCEPT ![inPtr] = [inBD[inPtr] EXCEPT !.own = FALSE]]
        BY <1>4, <2>2 DEF InAnswered
      <3>2. inBD[inPtr] \in InDescriptor
        BY <1>3, <1>4, DescriptorTypes DEF Types
      <3>. QED BY <1>3, <1>4, <1>10, <2>2, <3>1, <3>2 DEF Types, Descriptors, InDescriptor
    <2>. QED BY <2>1, <2>2
  <1> HIDE DEF b
  <1>12. Agreed'
    <2>1. req.kind # "read" => stage' = "done"
      BY <1>6, <1>7
    <2>2. ~inBD'[inPtr'].stall
      BY <1>1, <1>2, <1>11
    <2>. QED BY <1>1, <1>2, <1>3, <1>7, <1>9, <1>10, <2>1, <2>2 DEF Agreed
  <1>13. req.kind = "read" => Reads'
    <2> SUFFICES ASSUME req.kind = "read" PROVE Reads'
      OBVIOUS
    <2>1. stage = "data" /\ ctrl = "TX" /\ OutFifo = {} /\ Sends /\ Total(req') = T
      BY <1>1, <1>7 DEF T
    <2>2. /\ inCount + b.cnt <= T /\ pSrc = Content("data", turn, T - inCount, req)
          /\ (inCount > 0 => short = "NOT_USED") /\ (short = "NOT_USED" <=> b.cnt = Packet) /\ short # "SENT"
          /\ (b.dts # hDts => req.asks - hLeft = T - inCount /\ short = "NOT_USED")
      BY <1>4, <2>1 DEF Sends, T, b
    <2>3. CASE b.dts = hDts
      <3>1. hDts' = 1 - hDts /\ hDts' # b.dts
        BY <1>3, <1>6, <2>1, <2>3
      <3>2. Sends'
        BY <1>1, <1>2, <1>8, <1>11, <2>1, <2>2, <2>3, <3>1 DEF Sends
      <3>3. stage' # "data" => req'.asks - hLeft' = T
        BY <1>1, <1>3, <1>8, <2>3
      <3>. QED BY <1>2, <1>8, <1>10, <2>1, <2>3, <3>2, <3>3 DEF Reads
    <2>4. CASE b.dts # hDts
      <3>1. stage' = "data" /\ hLeft' = hLeft /\ hDts' = hDts
        BY <1>6, <2>1, <2>4
      <3>2. Sends'
        BY <1>1, <1>2, <1>11, <2>1, <2>2, <2>4, <3>1 DEF Sends
      <3>. QED BY <1>2, <1>10, <2>1, <3>1, <3>2 DEF Reads
    <2>. QED BY <2>3, <2>4
  <1>14. req.kind = "write" => Writes'
    BY <1>1, <1>2, <1>3, <1>6, <1>7, <1>10 DEF Writes, Gathers, Linked, InStep
  <1>15. req.kind = "address" => Addresses'
    <2> SUFFICES ASSUME req.kind = "address" PROVE Addresses'
      OBVIOUS
    <2>1. stage = "status" /\ stage' = "done" /\ hAddr' = req.val /\ Addresses
      BY <1>6, <1>7 DEF Linked, InStep
    <2>2. lost' = 0 => InFifo' # {}
      <3>1. CASE InAnswered(TRUE)
        <4>1. inPtr \in InFifo'
          BY <1>10, <3>1
        <4>. QED BY <4>1
      <3>2. CASE InAnswered(FALSE)
        BY <1>1, <1>3, <3>2
      <3>. QED BY <3>1, <3>2
    <2>. QED BY <1>1, <1>2, <2>1, <2>2 DEF Addresses
  <1>16. hLeft' < hLeft /\ req.kind = "read" => CtrlTrfData = Content("data", turn, req.asks - hLeft, req)
    <2> SUFFICES ASSUME hLeft' < hLeft, req.kind = "read" PROVE CtrlTrfData = Content("data", turn, req.asks - hLeft, req)
      OBVIOUS
    <2>1. b.dts = hDts
      BY <1>3, <1>6, <1>7
    <2>2. b.cnt > 0
      <3>1. b.cnt \in Nat /\ hLeft' = hLeft - b.cnt
        BY <1>5, <1>8, <2>1 DEF b
      <3>. QED BY <1>3, <3>1
    <2>. QED BY <1>8, <2>1, <2>2
  <1>17. /\ req.kind = "configure" => ctrl' # "TX" /\ ~outBusy' /\ stage' # "stalled"
         /\ req.kind = "unknown" => ctrl' = "WAIT_SETUP"
    BY <1>2, <1>6, <1>7 DEF Linked, InStep
  <1>. QED BY <1>1, <1>10, <1>12, <1>13, <1>14, <1>15, <1>16, <1>17 DEF InStep

-----------------------------------------------------------------------------
(* The steps together. *)

\* A SETUP that waits is as the host made it while neither is touched.
LEMMA AnnouncedStays ==
    ASSUME Announced, UNCHANGED <<stage, req, turn, hLeft, hDts>>, OutFifo' \subseteq OutFifo,
           \A b \in OutFifo' : outBD'[b].pid = "setup" => outBD[b].pid = "setup" /\ Where(b)' = Where(b),
           pc' \in {"complete", "arm"} => pc \in {"complete", "arm"} /\ SetupPkt' = SetupPkt
    PROVE  Announced'
  <1>1. \A r : Begun(r) => Begun(r)'
    BY DEF Begun
  <1>. QED BY <1>1 DEF Announced

\* Each firmware action keeps the station's part.
LEMMA FirmwareOK ==
    ASSUME Types, DeviceOK, Firmware
    PROVE  Types' /\ DeviceOK'
  <1>1. CASE SeesStall
    <2>1. UNCHANGED <<outBD, inBD, sie, firmware, SetupPkt, CtrlTrfData, wire>> /\ stallIF' \in BOOLEAN
      BY <1>1, SeesStallOK
    <2>2. Host'
      BY <2>1 DEF Types, Host, wire
    <2>. QED BY <2>1, <2>2, DeviceSame
  <1>2. CASE ServesSetup
    BY <1>2, ServesSetupOK
  <1>3. CASE Completes \/ AwaitsData \/ StallsOut \/ SendsFirst \/ AwaitsSetup
    BY <1>3, CompletesOK, AwaitsDataOK, StallsOutOK, SendsFirstOK, AwaitsSetupOK
  <1>4. CASE StallsIn \/ AllowsStatusIn \/ AllowsStatusOut \/ ArmsStatusOut \/ AllowsNothing
    BY <1>4, StallsInOK, AllowsStatusInOK, AllowsStatusOutOK, ArmsStatusOutOK, AllowsNothingOK
  <1>5. CASE TakesData \/ Handles \/ TakesStatus \/ SendsNext \/ EndsStatus \/ HandlesEarly
    BY <1>5, TakesDataOK, HandlesOK, TakesStatusOK, SendsNextOK, EndsStatusOK, HandlesEarlyOK
  <1>. QED BY <1>1, <1>2, <1>3, <1>4, <1>5 DEF Firmware

\* Each firmware action keeps both sides in step.
LEMMA FirmwareLink ==
    ASSUME Linked, Firmware
    PROVE  InStep'
  <1>1. ~ServesSetup
    <2>1. ServesSetup => pktdis
      BY SetupHead DEF Linked
    <2>. QED BY <2>1 DEF Linked
  <1>2. ~Completes
    BY DEF Completes, Linked, DeviceOK, Phases
  <1>3. CASE AwaitsData \/ StallsOut \/ SendsFirst \/ AwaitsSetup
    BY <1>3, AwaitsDataLink, StallsOutLink, SendsFirstLink, AwaitsSetupLink
  <1>4. CASE StallsIn \/ AllowsStatusIn \/ AllowsStatusOut \/ ArmsStatusOut \/ AllowsNothing \/ SeesStall
    BY <1>4, StallsInLink, AllowsStatusInLink, StatusOutLink, AllowsNothingLink, SeesStallLink
  <1>5. CASE TakesData \/ Handles \/ TakesStatus \/ SendsNext \/ EndsStatus \/ HandlesEarly
    BY <1>5, TakesDataLink, HandlesLink, TakesStatusLink, SendsNextLink, EndsStatusLink, HandlesEarlyLink
  <1>. QED BY <1>1, <1>2, <1>3, <1>4, <1>5 DEF Firmware

\* Each firmware action keeps what a waiting SETUP announces.
LEMMA FirmwareAnnounced ==
    ASSUME Types, DeviceOK, Announced, Firmware
    PROVE  Announced'
  <1>1. CASE ServesSetup
    <2>1. OutFifo' = {} /\ SetupPkt' = Where(Entry.buf) /\ Entry.buf \in OutFifo /\ outBD[Entry.buf].pid = "setup"
          /\ UNCHANGED wire
      <3>1. Serves("out") /\ outBD[Entry.buf].pid = "setup"
        BY <1>1 DEF ServesSetup
      <3>. QED BY <1>1, <3>1, SetupHead, ServesFacts
    <2>2. UNCHANGED <<stage, req, turn, hLeft, hDts>>
      BY <2>1 DEF wire
    <2>3. SetupPkt'.turn = turn' /\ Begun(SetupPkt'.req)
      BY <2>1, <2>2 DEF Announced
    <2>. QED BY <2>1, <2>2, <2>3 DEF Announced, Begun
  <1>2. CASE Completes
    <2>1. pc \in {"complete", "arm"} /\ SetupPkt' = SetupPkt /\ UNCHANGED <<stage, req, turn, hLeft, hDts>> /\ ustat' = ustat
          /\ outBD' = outBD /\ CtrlTrfData' = CtrlTrfData
      BY <1>2 DEF Completes, wire
    <2>2. OutFifo' = {}
      BY <2>1, ClaimedFacts, FifoSame
    <2>. QED BY <2>1, <2>2, AnnouncedStays
  <1>3. CASE AwaitsData \/ StallsOut \/ SendsFirst \/ AwaitsSetup
    <2>1. ArmsPipe /\ pc' \notin {"complete", "arm"}
      BY <1>3 DEF AwaitsData, StallsOut, SendsFirst, AwaitsSetup
    <2>2. OutFifo' = {}
      BY <2>1, ArmsPipeFacts
    <2>. QED BY <2>1, <2>2 DEF Announced
  <1>4. CASE AllowsStatusOut \/ ArmsStatusOut
    <2>1. UNCHANGED held /\ pc' \notin {"complete", "arm"} /\ pc \in {"status", "statusNext"} /\ (pc = "status" => ctrl = "TX")
      BY <1>4 DEF AllowsStatusOut, ArmsStatusOut
    <2>2. OutFifo = {}
      BY <2>1 DEF DeviceOK, Phases, ReadPhases, Types, Modes
    <2>. QED BY <2>1, <2>2, HeldFacts DEF Announced
  <1>5. CASE StallsIn \/ AllowsStatusIn \/ AllowsNothing \/ Handles \/ HandlesEarly
    <2>1. UNCHANGED held /\ pc' \notin {"complete", "arm"} /\ outBD' = outBD
      BY <1>5 DEF StallsIn, AllowsStatusIn, AllowsNothing, Handles, HandlesEarly, AfterStatus
    <2>2. UNCHANGED <<stage, req, turn, hLeft, hDts, CtrlTrfData, SetupPkt, OutFifo>>
      BY <2>1, HeldFacts DEF wire
    <2>. QED BY <2>1, <2>2, AnnouncedStays DEF Where
  <1>6. CASE TakesData \/ TakesStatus
    <2> DEFINE b == Entry.buf
    <2>1. Serves("out") /\ outBD[b].pid # "setup" /\ SetupPkt' = SetupPkt /\ CtrlTrfData' = CtrlTrfData
          /\ pc' \notin {"complete", "arm"}
          /\ (ctrl = "RX" \/ (bothOwned => outBD' = outBD))
      BY <1>6, ServesFacts DEF TakesData, TakesStatus
    <2>2. UNCHANGED <<stage, req, turn, hLeft, hDts>> /\ OutFifo' = OutFifo \ {b} /\ b \in OutFifo
      BY <2>1, ServesFacts DEF wire
    <2>3. DataOf(b) \/ StatusOf(b)
      BY <2>1, <2>2 DEF DeviceOK, OutOK
    <2>4. OutFifo' = {} \/ outBD' = outBD
      BY <2>1, <2>2, <2>3 DEF DataOf, StatusOf
    <2>. QED BY <2>1, <2>2, <2>4, AnnouncedStays DEF Where
  <1>7. CASE SendsNext \/ EndsStatus
    <2>1. ServesIn /\ ((SendsNext /\ ctrl = "TX" /\ pc' = pc) \/ (CtrlTrfData' = CtrlTrfData /\ (pc' = pc \/ pc' = "handleEarly")))
      BY <1>7 DEF SendsNext, EndsStatus
    <2>2. /\ UNCHANGED <<stage, req, turn, hLeft, hDts, SetupPkt, OutFifo, outBD>> /\ pc' \notin {"complete", "arm"}
      BY <2>1, ServesInFacts DEF wire
    <2>3. \A c \in OutFifo : outBD[c].pid = "setup" => Where(c)' = Where(c)
      BY <2>1, <2>2 DEF Where, DeviceOK, OutOK
    <2>. QED BY <2>2, <2>3, AnnouncedStays
  <1>8. CASE SeesStall
    <2>1. UNCHANGED <<outBD, SetupPkt, CtrlTrfData, ustat, stage, req, turn, hLeft, hDts>> /\ pc = "idle" /\ pc' = pc
      BY <1>8, SeesStallOK DEF sie, firmware, wire
    <2>. QED BY <2>1, FifoSame, AnnouncedStays DEF Where
  <1>. QED BY <1>1, <1>2, <1>3, <1>4, <1>5, <1>6, <1>7, <1>8 DEF Firmware

\* After USBDeviceInit the firmware has nothing to do before the next SETUP.
LEMMA FreshStays ==
    ASSUME Types, DeviceOK, Fresh, Firmware \/ FrameStarts
    PROVE  Fresh'
  <1>1. pc = "idle" /\ ustat = <<>> /\ statusEnabled
    BY DEF Fresh
  <1>2. CASE FrameStarts
    BY <1>1, <1>2 DEF FrameStarts, AfterStatus, Idle, Fresh, sie
  <1>3. CASE Firmware
    <2>1. SeesStall
      BY <1>1, <1>3 DEF Firmware, ServesSetup, Completes, AwaitsData, StallsOut, StallsIn, SendsFirst, AwaitsSetup, AllowsStatusIn,
         AllowsStatusOut, ArmsStatusOut, AllowsNothing, TakesData, Handles, TakesStatus, SendsNext, EndsStatus, HandlesEarly,
         ArmsPipe, Serves, ServesIn
    <2>2. UNCHANGED <<outBD, inBD, sie, firmware, SetupPkt, CtrlTrfData>>
      BY <2>1, SeesStallOK
    <2>. QED BY <2>2 DEF Fresh, sie, firmware, flags
  <1>. QED BY <1>2, <1>3

\* What holds on any bus: both sides agree, unless a late USBDeviceInit has come between them.
Safe == Types /\ DeviceOK /\ Announced /\ (stage # "idle" /\ ~pktdis => Fresh \/ InStep)

\* The firmware keeps the invariant.
LEMMA FirmwareSafe ==
    ASSUME Safe, Firmware \/ FrameStarts
    PROVE  /\ Safe'
           /\ (stage # "idle" /\ ~pktdis => InStep) => (stage' # "idle" /\ ~pktdis' => InStep')
  <1>1. Types /\ DeviceOK /\ Announced
    BY DEF Safe
  <1>2. Types' /\ DeviceOK' /\ Announced' /\ stage' = stage /\ (pktdis' = pktdis \/ Completes)
    <2>1. CASE FrameStarts
      <3>1. UNCHANGED <<stage, req, turn, hLeft, hDts, pktdis, SetupPkt, CtrlTrfData, outBD, ustat>> /\ pc' \notin {"complete", "arm"}
        BY <2>1 DEF FrameStarts, wire, sie, AfterStatus
      <3>2. Announced'
        BY <1>1, <3>1, FifoSame, AnnouncedStays DEF Where
      <3>. QED BY <1>1, <2>1, <3>1, <3>2, FrameStartsOK
    <2>2. CASE Firmware
      <3>1. stage' = stage
        BY <1>1, <2>2, SeesStallOK DEF Firmware, ServesSetup, Completes, AwaitsData, StallsOut, StallsIn, SendsFirst, AwaitsSetup, AllowsStatusIn,
           AllowsStatusOut, ArmsStatusOut, AllowsNothing, TakesData, Handles, TakesStatus, SendsNext, EndsStatus, HandlesEarly,
           ArmsPipe, Serves, ServesIn, wire, held
      <3>2. pktdis' = pktdis \/ Completes
        BY <1>1, <2>2, SeesStallOK DEF Firmware, ServesSetup, AwaitsData, StallsOut, StallsIn, SendsFirst, AwaitsSetup, AllowsStatusIn,
           AllowsStatusOut, ArmsStatusOut, AllowsNothing, TakesData, Handles, TakesStatus, SendsNext, EndsStatus, HandlesEarly,
           ArmsPipe, Serves, ServesIn, sie, held
      <3>. QED BY <1>1, <2>2, <3>1, <3>2, FirmwareOK, FirmwareAnnounced
    <2>. QED BY <2>1, <2>2
  <1>3. ASSUME stage # "idle", ~pktdis, InStep PROVE InStep'
    BY <1>1, <1>3, FirmwareLink, FrameStartsLink DEF Linked
  <1>4. ASSUME stage # "idle", Completes PROVE InStep'
    BY <1>1, <1>4, CompletesLink
  <1>5. ASSUME Fresh PROVE Fresh'
    BY <1>1, <1>5, FreshStays
  <1>. QED BY <1>2, <1>3, <1>4, <1>5 DEF Safe

\* So does a host that ends a write early,
LEMMA EndsEarlySafe ==
    ASSUME Safe, EndsEarly
    PROVE  /\ Safe'
           /\ (stage # "idle" /\ ~pktdis => InStep) => (stage' # "idle" /\ ~pktdis' => InStep')
  <1>1. /\ stage = "data" /\ req.kind = "write" /\ stage' = "status" /\ UNCHANGED <<req, turn, hLeft, hDts, stallIF, hAddr, lost>>
        /\ UNCHANGED <<outBD, inBD, sie, firmware, SetupPkt, CtrlTrfData>>
    BY DEF EndsEarly
  <1>2. stallIF' \in BOOLEAN /\ Host' /\ Types /\ DeviceOK /\ Announced
    BY <1>1 DEF Safe, Types, Host, Flags
  <1>3. Types' /\ DeviceOK' /\ (Fresh' <=> Fresh) /\ OutFifo' = OutFifo
    BY <1>1, <1>2, DeviceSame
  <1>4. Announced'
    <2>1. \A r : Begun(r) => Begun(r)'
      BY <1>1 DEF Begun
    <2>2. \A b \in OutFifo : Where(b)' = Where(b)
      BY <1>1 DEF Where
    <2>. QED BY <1>1, <1>2, <1>3, <2>1, <2>2 DEF Announced, firmware
  <1>5. pktdis' = pktdis
    BY <1>1 DEF sie
  <1>6. ASSUME ~pktdis, InStep PROVE InStep'
    BY <1>1, <1>2, <1>6, EndsEarlyLink DEF Linked
  <1>. QED BY <1>1, <1>2, <1>3, <1>4, <1>5, <1>6 DEF Safe

\* A token the device answers finds no request it has yet to start on.
LEMMA HostSafe ==
    ASSUME Safe, HostProgress \/ InAnswered(FALSE) \/ OutTaken(FALSE)
    PROVE  /\ Safe'
           /\ (stage # "idle" /\ ~pktdis => InStep) => (stage' # "idle" /\ ~pktdis' => InStep')
           /\ hLeft' < hLeft /\ req.kind = "read" => CtrlTrfData = Content("data", turn, req.asks - hLeft, req)
           /\ turn' = turn
  <1>1. PICK a \in BOOLEAN : InStalled \/ InAnswered(a) \/ OutStalled \/ OutRepeated \/ OutTaken(a)
    BY DEF HostProgress
  <1>2. /\ ~pktdis /\ ~pktdis' /\ pc' = pc /\ turn' = turn /\ stage # "idle"
        /\ inBD[sieIn].own \/ outBD[sieOut].own
        /\ (~outBD[sieOut].own \/ outBD[sieOut].stall) /\ ~inBD[sieIn].own => OutStalled
    <2>1. CASE InStalled \/ InAnswered(a)
      <3>1. WantsIn /\ Heard /\ inBD[sieIn].own /\ pktdis' = pktdis /\ pc' = pc /\ turn' = turn
        BY <2>1 DEF InStalled, InAnswered, sie, firmware
      <3>2. stage # "idle"
        BY <3>1 DEF WantsIn
      <3>. QED BY <3>1, <3>2 DEF Heard
    <2>2. CASE OutStalled \/ OutRepeated \/ OutTaken(a)
      <3>1. WantsOut /\ Heard /\ outBD[sieOut].own /\ pktdis' = pktdis /\ pc' = pc /\ turn' = turn
            /\ (outBD[sieOut].stall => OutStalled)
        BY <2>2 DEF OutStalled, OutRepeated, OutTaken, sie, firmware
      <3>2. stage # "idle"
        BY <3>1 DEF WantsOut
      <3>. QED BY <3>1, <3>2 DEF Heard
    <2>. QED BY <1>1, <2>1, <2>2
  <1>3. Types /\ DeviceOK /\ Announced /\ hLeft \in Nat
    BY DEF Safe, Types, Host
  <1>4. pc' \notin {"complete", "arm"}
    BY <1>2, <1>3, ClaimedFacts DEF Types, Pointers
  <1>5. ASSUME DeviceOK' PROVE Announced'
    BY <1>2, <1>4, <1>5 DEF Announced, DeviceOK, OutOK
  <1>6. ASSUME UNCHANGED <<outBD, inBD, sie, firmware, SetupPkt, CtrlTrfData>>, Host', stallIF' \in BOOLEAN
        PROVE  Types' /\ DeviceOK' /\ (Fresh => Fresh')
    BY <1>3, <1>6, DeviceSame
  <1>7. CASE Fresh
    <2>1. ~inBD[sieIn].own /\ outBD[sieOut].stall
      BY <1>3, <1>7, ArmedFields DEF Fresh, Types, Pointers
    <2>2. OutStalled
      BY <1>2, <2>1
    <2>3. /\ UNCHANGED <<outBD, inBD, sie, firmware, SetupPkt, CtrlTrfData>> /\ hLeft' = hLeft
          /\ UNCHANGED <<req, turn, hDts, hAddr, lost>> /\ stage' = "stalled" /\ stallIF' = TRUE
      BY <2>2 DEF OutStalled
    <2>4. Host'
      BY <1>3, <2>3 DEF Types, Host
    <2>5. ASSUME InStep PROVE InStep'
      BY <1>2, <1>3, <2>2, <2>5, OutStalledLink DEF Linked
    <2>. QED BY <1>2, <1>3, <1>5, <1>6, <1>7, <2>3, <2>4, <2>5 DEF Safe
  <1>8. CASE ~Fresh
    <2>1. Linked
      BY <1>2, <1>8 DEF Safe, Linked
    <2>2. Types' /\ DeviceOK' /\ InStep' /\ (hLeft' < hLeft /\ req.kind = "read" => CtrlTrfData = Content("data", turn, req.asks - hLeft, req))
      <3>1. CASE InStalled \/ OutStalled
        <4>1. UNCHANGED <<outBD, inBD, sie, firmware, SetupPkt, CtrlTrfData>> /\ hLeft' = hLeft /\ stallIF' \in BOOLEAN
          BY <3>1 DEF InStalled, OutStalled
        <4>. QED BY <1>3, <1>6, <2>1, <3>1, <4>1, InStalledLink, OutStalledLink
      <3>2. CASE OutRepeated
        <4>1. UNCHANGED <<outBD, inBD, sie, firmware, SetupPkt, CtrlTrfData>> /\ stallIF' \in BOOLEAN
          BY <1>3, <3>2 DEF OutRepeated, Types, Flags
        <4>. QED BY <1>6, <2>1, <3>2, <4>1, OutRepeatedLink
      <3>3. CASE InAnswered(a)
        BY <2>1, <3>3, InAnsweredLink
      <3>4. CASE OutTaken(a)
        BY <2>1, <3>4, OutTakenLink
      <3>. QED BY <1>1, <3>1, <3>2, <3>3, <3>4
    <2>. QED BY <1>2, <1>5, <2>2 DEF Safe
  <1>. QED BY <1>7, <1>8

\* A new SETUP may come at any time.
LEMMA SetupTokenSafe ==
    ASSUME Safe, NEW r \in Requests, SetupToken(r)
    PROVE  Safe' /\ pktdis'
  <1>1. /\ turn' = 1 - turn /\ req' = r /\ hLeft' = r.asks /\ hDts' = 1 /\ pc' = pc
        /\ stage' = IF r.kind \in {"read", "write"} THEN "data" ELSE "status"
    BY DEF SetupToken, firmware
  <1>2. PICK t : t = sieOut
    OBVIOUS
  <1>3. /\ Types' /\ DeviceOK' /\ pktdis' /\ OutFifo' = OutFifo \cup {t} /\ \A b \in OutFifo : outBD'[b].pid = "out"
    BY <1>2, SetupTokenOK DEF Safe
  <1>4. Where(t)' = Content("setup", turn', 0, r) /\ pc' \notin {"complete", "arm"}
    BY <1>1, <1>2, SetupTokenOK DEF Safe
  <1>5. Where(t)'.turn = turn' /\ Where(t)'.req = r
    BY <1>4 DEF Content
  <1>6. Begun(r)'
    BY <1>1 DEF Begun
  <1>7. Announced'
    BY <1>3, <1>4, <1>5, <1>6 DEF Announced
  <1>. QED BY <1>3, <1>7 DEF Safe

\* So may USBDeviceInit, whatever the host is at then.
LEMMA ResetsSafe ==
    ASSUME Safe, NEW hostStage \in {"idle", "data", "status", "done", "stalled"}, NEW address \in Nat,
           Resets(hostStage, address)
    PROVE  Safe' /\ stage' = hostStage
  <1>1. Types' /\ DeviceOK' /\ Fresh' /\ stage' = hostStage
    BY ResetsOK DEF Safe, Resets
  <1>2. ustat' = <<>> /\ pc' = "idle"
    BY <1>1 DEF Fresh
  <1>3. \A i \in 1..Len(ustat') : FALSE
    BY <1>2
  <1>4. Announced'
    BY <1>2, <1>3 DEF Announced, OutFifo
  <1>. QED BY <1>1, <1>4 DEF Safe

\* The invariant holds after power-up.
LEMMA InitSafe ==
    ASSUME Init
    PROVE  Safe /\ stage = "idle"
  <1>1. /\ ustat = <<>> /\ pc = "idle" /\ pktdis = FALSE /\ statusEnabled = TRUE /\ sieOut = 0 /\ sieIn = 0 /\ inPtr = 0
        /\ outCur = 0 /\ outNext = 0 /\ stallIF = FALSE /\ ctrl = "WAIT_SETUP" /\ short = "NOT_USED" /\ stage = "idle"
        /\ inBusy = FALSE /\ outBusy = FALSE /\ bothOwned = FALSE /\ inCount = 0 /\ outCount = 0 /\ timer = Timeout
        /\ USBDeviceState = "DEFAULT" /\ U1ADDR = 0 /\ serving = 0 /\ handled = 0
        /\ SetupPkt = Zeroes /\ CtrlTrfData = Zeroes /\ pSrc = Zeroes
        /\ req = NoRequest /\ turn = 0 /\ hLeft = 0 /\ hDts = 1 /\ hAddr = 0 /\ lost = 0
        /\ outBD = [b \in 0..1 |-> IF b = 0 THEN ForSetup ELSE FreeOut] /\ inBD = [b \in 0..1 |-> FreeIn]
    BY DEF Init
  <1>2. Fresh
    BY <1>1, ArmedFields DEF Fresh, FreeOut, FreeIn
  <1>3. Announced /\ InFifo = {} /\ OutFifo = {}
    <2>1. \A i \in 1..Len(ustat) : FALSE
      BY <1>1
    <2>. QED BY <1>1, <2>1 DEF Announced, InFifo, OutFifo
  <1>4. Types
    <2>1. Descriptors
      BY <1>1, ArmedTypes DEF Descriptors
    <2>2. NoRequest \in Request /\ Zeroes \in Contents
      BY DEF NoRequest, Request, Zeroes, Contents, Content
    <2>3. Pointers /\ Modes
      BY <1>1 DEF Pointers, Modes
    <2>4. Flags
      BY <1>1 DEF Flags
    <2>5. Numbers /\ Data
      BY <1>1, <2>2, Ep0Assumption DEF Numbers, Data
    <2>6. Fifo
      BY <1>1 DEF Fifo
    <2>7. Host
      BY <1>1, <2>2 DEF Host
    <2>. QED BY <2>1, <2>3, <2>4, <2>5, <2>6, <2>7 DEF Types
  <1>5. DeviceOK
    <2>1. \A i \in 1..Len(ustat) : FALSE
      BY <1>1
    <2>2. FifoOK
      BY <1>1, <2>1 DEF FifoOK
    <2>3. InOK
      BY <1>1, <1>2, <1>3 DEF InOK, Fresh
    <2>4. OutOK
      <3>1. \A b \in 0..1 : outBD[b].own => ArmedOut(b)
        BY <1>2, ArmedFields DEF Fresh, ArmedOut
      <3>. QED BY <1>1, <1>3, <3>1 DEF OutOK
    <2>5. outBD[sieOut].own
      BY <1>2, ArmedFields DEF Fresh
    <2>6. Phases
      BY <1>1, <1>3, <2>5 DEF Phases
    <2>. QED BY <2>2, <2>3, <2>4, <2>6 DEF DeviceOK
  <1>. QED BY <1>1, <1>2, <1>3, <1>4, <1>5 DEF Safe

-----------------------------------------------------------------------------
(* What the control endpoint's runs check, for every request repertoire. *)

\* A reset that clears the host's transfer with the station's leaves them in step.
Transfer == Safe /\ (stage # "idle" /\ ~pktdis => InStep)

\* The firmware touches neither the host nor the wire.
LEMMA FirmwareLeavesHost ==
    ASSUME Safe, Firmware \/ FrameStarts
    PROVE  UNCHANGED wire
  BY SeesStallOK DEF Safe, Firmware, FrameStarts, ServesSetup, Completes, AwaitsData, StallsOut, StallsIn, SendsFirst,
     AwaitsSetup, AllowsStatusIn, AllowsStatusOut, ArmsStatusOut, AllowsNothing, TakesData, Handles, TakesStatus, SendsNext,
     EndsStatus, HandlesEarly, ArmsPipe, Serves, ServesIn, held

\* A variable at a time: the formulas of the invariant are too large to be compared.
LEMMA Stutters ==
    ASSUME Safe, UNCHANGED vars
    PROVE  Safe' /\ (InStep <=> InStep')
  <1>1. /\ UNCHANGED <<outBD, inBD, sieOut, sieIn, ustat, pktdis, stallIF, outCur, outNext, inPtr, ctrl, short, inBusy, outBusy,
                       inCount, outCount, pSrc, bothOwned, statusEnabled, timer>>
        /\ UNCHANGED <<USBDeviceState, U1ADDR, SetupPkt, CtrlTrfData, pc, serving, handled, stage, req, turn, hLeft, hDts,
                       hAddr, lost>>
    BY DEF vars, sie, pipes, flags, wire
  <1>2. InFifo' = InFifo /\ OutFifo' = OutFifo
    BY <1>1, FifoSame
  <1>3. Types'
    BY <1>1 DEF Safe, Types, Descriptors, Pointers, Modes, Flags, Numbers, Data, Fifo, Host
  <1>4. DeviceOK' /\ (Fresh <=> Fresh')
    <2>1. UNCHANGED <<outBD, inBD, sie, firmware, SetupPkt, CtrlTrfData>>
      BY <1>1 DEF sie, firmware, pipes, flags
    <2>. QED BY <1>3, <1>1, <2>1, DeviceSame DEF Safe, Types, Flags
  <1>5. Announced'
    BY <1>1, <1>2, AnnouncedStays DEF Safe, Where
  <1>6. InStep <=> InStep'
    BY <1>1, <1>2 DEF InStep, Agreed, Reads, Sends, Writes, Gathers, ArmedForData, Addresses
  <1>. QED BY <1>1, <1>3, <1>4, <1>5, <1>6 DEF Safe

\* Every step keeps the invariant, and a packet the host takes is the next of its read.
LEMMA StepsOfTransfer ==
    ASSUME Transfer, [Next]_vars
    PROVE  /\ Transfer'
           /\ hLeft' < hLeft /\ turn' = turn /\ req.kind = "read" =>
                CtrlTrfData = Content("data", turn, req.asks - hLeft, req)
  <1>1. Safe /\ hLeft \in Nat /\ turn \in 0..1
    BY DEF Transfer, Safe, Types, Host
  <1>2. CASE Firmware \/ FrameStarts
    BY <1>1, <1>2, FirmwareSafe, FirmwareLeavesHost DEF Transfer, wire
  <1>3. CASE HostProgress \/ InAnswered(FALSE) \/ OutTaken(FALSE)
    BY <1>1, <1>3, HostSafe DEF Transfer
  <1>4. CASE EndsEarly
    <2>1. hLeft' = hLeft
      BY <1>4 DEF EndsEarly
    <2>. QED BY <1>1, <1>4, <2>1, EndsEarlySafe DEF Transfer
  <1>5. CASE \E r \in Requests : SetupToken(r)
    <2>1. turn' # turn
      BY <1>1, <1>5 DEF SetupToken
    <2>. QED BY <1>1, <1>5, <2>1, SetupTokenSafe DEF Transfer
  <1>6. CASE Resets("idle", 0)
    <2>1. hLeft' = hLeft
      BY <1>6 DEF Resets
    <2>. QED BY <1>1, <1>6, <2>1, ResetsSafe DEF Transfer
  <1>7. CASE UNCHANGED vars
    <2>1. UNCHANGED <<stage, pktdis, hLeft>>
      BY <1>7 DEF vars, sie, wire
    <2>. QED BY <1>1, <1>7, <2>1, Stutters DEF Transfer
  <1>. QED BY <1>2, <1>3, <1>4, <1>5, <1>6, <1>7 DEF Next

\* The invariant has the types in it,
LEMMA SafeIsTyped ==
    ASSUME Safe
    PROVE  TypeOK
  <1>1. Descriptors /\ Pointers /\ Modes /\ Flags /\ Numbers /\ Data /\ Fifo /\ Host
    BY DEF Safe, Types
  <1>2. /\ outBD \in [0..1 -> OutDescriptor] /\ inBD \in [0..1 -> InDescriptor]
        /\ ustat \in Seq(Transaction) /\ Len(ustat) <= 4
    BY <1>1 DEF Descriptors, Fifo
  <1>3. {sieOut, sieIn, outCur, outNext, inPtr, turn, serving, hDts} \subseteq 0..1
    BY <1>1 DEF Pointers, Numbers, Host
  <1>4. {pktdis, stallIF, inBusy, outBusy, bothOwned, statusEnabled} \subseteq BOOLEAN
    BY <1>1 DEF Flags
  <1>5. {inCount, outCount, U1ADDR, hAddr, hLeft, lost, handled} \subseteq Nat /\ timer \in 0..Timeout
    BY <1>1 DEF Numbers, Host
  <1>6. {SetupPkt, CtrlTrfData, pSrc} \subseteq Contents
    BY <1>1 DEF Data
  <1>7. Modes /\ stage \in {"idle", "data", "status", "done", "stalled"} /\ req \in Request
    BY <1>1 DEF Host
  <1>. QED BY <1>2, <1>3, <1>4, <1>5, <1>6, <1>7 DEF TypeOK, Modes, OutDescriptor, InDescriptor, Transaction, Contents

\* the descriptors the SIE uses next, and the report that is being handled.
LEMMA SafeIsReady ==
    ASSUME Safe
    PROVE  ReadyForSetup /\ HandlerReadsItsReport /\ handled <= 1
  <1>1. DeviceOK /\ Types
    BY DEF Safe
  <1>2. ASSUME Settled PROVE outBD[sieOut].own /\ ~pktdis
    <2>1. pc = "idle" /\ OutFifo = {}
      BY <1>1, <1>2, FifoEmpty DEF Settled, Idle, DeviceOK
    <2>2. ~pktdis
      BY <1>1, <2>1 DEF DeviceOK, OutOK
    <2>3. outBD[sieOut].own
      <3>1. CASE Fresh
        BY <3>1, ArmedFields DEF Fresh
      <3>2. CASE ctrl = "TX" /\ ~Fresh
        BY <1>1, <2>1, <3>2, ArmedFields DEF DeviceOK, Phases, ReadPhases
      <3>3. CASE ctrl # "TX"
        BY <1>1, <2>1, <3>3 DEF DeviceOK, Phases
      <3>. QED BY <3>1, <3>2, <3>3
    <2>. QED BY <2>2, <2>3
  <1>3. HandlerReadsItsReport /\ handled <= 1
    BY <1>1 DEF DeviceOK, Phases, HandlerReadsItsReport
  <1>. QED BY <1>2, <1>3 DEF ReadyForSetup

\* A host whose transfer has ended has no SETUP under way.
LEMMA EndedInStep ==
    ASSUME Transfer, stage \in {"done", "stalled"}
    PROVE  ~pktdis /\ InStep /\ DeviceOK /\ Types /\ req \in Request
  <1>1. ASSUME pktdis PROVE FALSE
    <2>1. CASE pc = "complete"
      BY <2>1 DEF Transfer, Safe, Announced, Begun
    <2>2. CASE \E b \in OutFifo : outBD[b].pid = "setup"
      BY <2>2 DEF Transfer, Safe, Announced, Begun
    <2>. QED BY <1>1, <2>1, <2>2 DEF Transfer, Safe, DeviceOK, OutOK
  <1>. QED BY <1>1 DEF Transfer, Safe, Types, Host

\* What the host has seen done is done.
LEMMA TransferIsDone ==
    ASSUME Transfer
    PROVE  DoneOnBothSides
  <1>1. handled <= 1
    BY SafeIsReady DEF Transfer
  <1>2. ASSUME stage = "done", req.kind = "write", Settled, hLeft = 0 PROVE handled = 1
    <2>1. ~pktdis /\ InStep /\ DeviceOK /\ Types
      BY <1>2, EndedInStep
    <2>2. pc = "idle" /\ OutFifo = {} /\ outBD[sieOut].own
      BY <1>2, <2>1, FifoEmpty, SafeIsReady DEF Settled, Idle, DeviceOK, ReadyForSetup, Transfer
    <2>3. Writes /\ handled \in 0..1
      BY <1>2, <2>1 DEF InStep, DeviceOK, Phases
    <2>4. ASSUME handled = 0 PROVE FALSE
      <3>1. Gathers
        BY <2>2, <2>3, <2>4 DEF Writes, Gathers
      <3>2. ctrl = "RX" /\ outCount > 0 /\ ~outBD[sieOut].stall
        BY <2>2, <2>3, <3>1 DEF Writes
      <3>3. IF outBD[sieOut].dts = hDts THEN outCount = hLeft ELSE hLeft > 0
        BY <2>2, <2>3, <3>2 DEF Writes
      <3>. QED BY <1>2, <3>2, <3>3
    <2>. QED BY <2>3, <2>4
  <1>3. ASSUME stage = "done", req.kind = "read" PROVE req.asks - hLeft = Total(req)
    BY <1>3, EndedInStep DEF InStep, Reads
  <1>4. ASSUME stage = "done", req.kind = "address", Settled, lost = 0 PROVE U1ADDR = hAddr
    <2>1. InFifo = {} /\ Addresses
      BY <1>4, EndedInStep, FifoEmpty DEF Settled, DeviceOK, InStep
    <2>. QED BY <1>4, <2>1 DEF Addresses
  <1>. QED BY <1>1, <1>2, <1>3, <1>4 DEF DoneOnBothSides

\* What the host has seen stalled is explained.
LEMMA TransferIsStalled ==
    ASSUME Transfer
    PROVE  OnlyUnknownStalled
  <1>1. ASSUME stage = "stalled", req.kind # "unknown"
        PROVE  /\ lost > 0
               /\ req.kind = "read" => req.asks - hLeft = Total(req)
               /\ req.kind = "write" => pc = "handle" \/ handled = 1
    <2>1. InStep /\ req.kind \in {"read", "write", "address", "configure", "unknown"}
      BY <1>1, EndedInStep, KindOf
    <2>. QED BY <1>1, <2>1 DEF InStep, Reads, Writes, Addresses
  <1>. QED BY <1>1 DEF OnlyUnknownStalled

\* The inductive invariant: the station's part, the announced transfer, and both sides in step.
THEOREM Invariance == Spec => []Transfer
  <1>1. Init => Transfer
    BY InitSafe DEF Transfer
  <1>2. Transfer /\ [Next]_vars => Transfer'
    BY StepsOfTransfer
  <1>. QED BY <1>1, <1>2, PTL DEF Spec

\* The buffer descriptors, the pointers and the counters of the pipes stay within what usb_device.c
\* declares, and the USTAT FIFO never holds more than its four transactions.
THEOREM TypeCorrect == Spec => []TypeOK
  <1>1. Transfer => TypeOK
    BY SafeIsTyped DEF Transfer
  <1>. QED BY <1>1, Invariance, PTL

\* Whatever a transfer was broken off by, once the interrupt routine has served the FIFO the SIE
\* owns the descriptor it will use next: the firmware's copy of the ping-pong state is right.
THEOREM NeverDeaf == Spec => []ReadyForSetup
  <1>1. Transfer => ReadyForSetup
    BY SafeIsReady DEF Transfer
  <1>. QED BY <1>1, Invariance, PTL

\* No SETUP or data packet overwrites the report while handleMessage reads it.
THEOREM ReportIsRead == Spec => []HandlerReadsItsReport
  <1>1. Transfer => HandlerReadsItsReport
    BY SafeIsReady DEF Transfer
  <1>. QED BY <1>1, Invariance, PTL

\* What the host has seen succeed is so in the station, and no report is handled twice.
THEOREM BothSidesDone == Spec => []DoneOnBothSides
  <1>1. Transfer => DoneOnBothSides
    BY TransferIsDone
  <1>. QED BY <1>1, Invariance, PTL

\* A known request is stalled only after a lost ACK, when all its data has been delivered.
THEOREM StallsAreLostACKs == Spec => []OnlyUnknownStalled
  <1>1. Transfer => OnlyUnknownStalled
    BY TransferIsStalled
  <1>. QED BY <1>1, Invariance, PTL

\* Each packet copied to the report, and each the host takes, is the next one of its transfer.
THEOREM PacketsInOrder == Spec => DataInOrder
  <1>1. ASSUME Transfer, TakesData, outBD[Entry.buf].cnt > 0
        PROVE  CtrlTrfData = Content("data", serving, SetupPkt.req.asks - outCount, SetupPkt.req)
    <2>1. Serves("out") /\ outBD[Entry.buf].pid # "setup" /\ Types /\ DeviceOK
      BY <1>1 DEF TakesData, Transfer, Safe
    <2>2. DataOf(Entry.buf) \/ StatusOf(Entry.buf)
      BY <2>1, ServesFacts DEF DeviceOK, OutOK
    <2>. QED BY <1>1, <2>2 DEF DataOf, StatusOf
  <1>2. ASSUME Transfer, [Next]_vars
        PROVE  [ /\ TakesData /\ outBD[Entry.buf].cnt > 0 =>
                      CtrlTrfData = Content("data", serving, SetupPkt.req.asks - outCount, SetupPkt.req)
                 /\ hLeft' < hLeft /\ turn' = turn /\ req.kind = "read" =>
                      CtrlTrfData = Content("data", turn, req.asks - hLeft, req) ]_vars
    BY <1>1, <1>2, StepsOfTransfer
  <1>. QED BY <1>2, Invariance, PTL DEF Spec, DataInOrder

-----------------------------------------------------------------------------
(* The station on the bus.  A host that resets it in the middle of a       *)
(* transfer may have begun another when USBDeviceInit comes and clears     *)
(* what that had armed, so that only Safe is left.                         *)

DeviceSafe ==
  /\ Safe
  /\ power \in {"DETACHED", "ATTACHED", "POWERED", "UP"} /\ bus \in {"se0", "quiet", "traffic", "reset"}
  /\ IDLEIF \in BOOLEAN /\ ACTVIF \in BOOLEAN /\ URSTIF \in BOOLEAN
  /\ owesActivity \in BOOLEAN /\ passing \in BOOLEAN /\ erased \in BOOLEAN
  /\ host \in Hosts /\ SUSPND \in BOOLEAN /\ USBBusIsSuspended = SUSPND /\ ACTVIE = SUSPND

\* A bus reset changes the address and the host, and no descriptor.
LEMMA BusResetsSafe ==
    ASSUME Safe, BusResets
    PROVE  Safe'
  <1>1. /\ UNCHANGED <<outBD, inBD, sie, stallIF, outCur, outNext, inPtr, ctrl, pipes, flags, USBDeviceState,
                       SetupPkt, CtrlTrfData, pc, serving, handled, turn, lost>>
        /\ U1ADDR' = 0 /\ hAddr' = 0 /\ stage' = "idle" /\ req' = NoRequest /\ hLeft' = 0 /\ hDts' = 1
        /\ pc \in {"idle", "handle", "handleEarly"}
    BY DEF BusResets, Slow, Idle
  <1>2. /\ UNCHANGED <<outBD, inBD, sieOut, sieIn, ustat, pktdis, stallIF, outCur, outNext, inPtr, ctrl, short, inBusy, outBusy,
                       inCount, outCount, pSrc, bothOwned, statusEnabled, timer>>
        /\ UNCHANGED <<USBDeviceState, SetupPkt, CtrlTrfData, pc, serving, handled, turn, lost>>
    BY <1>1 DEF sie, pipes, flags
  <1>3. InFifo' = InFifo /\ OutFifo' = OutFifo
    BY <1>2, FifoSame
  <1>4. Types'
    <2>1. NoRequest \in Request
      BY DEF NoRequest, Request
    <2>2. Host'
      BY <1>1, <1>2, <2>1 DEF Safe, Types, Host
    <2>3. Descriptors' /\ Pointers' /\ Modes' /\ Flags'
      BY <1>2 DEF Safe, Types, Descriptors, Pointers, Modes, Flags
    <2>4. Numbers' /\ Data' /\ Fifo'
      BY <1>1, <1>2 DEF Safe, Types, Numbers, Data, Fifo
    <2>. QED BY <2>2, <2>3, <2>4 DEF Types
  <1>5. DeviceOK'
    <2>1. FifoOK' /\ InOK'
      BY <1>2, <1>3 DEF Safe, DeviceOK, FifoOK, InOK
    <2>2. OutOK'
      BY <1>2, <1>3 DEF Safe, DeviceOK, OutOK, ArmedOut, ArmedForData, DataOf, StatusOf, SetupWaits, Where
    <2>3. Phases'
      BY <1>2, <1>3 DEF Safe, DeviceOK, Phases, Claimed, ReadPhases, Fresh
    <2>. QED BY <2>1, <2>2, <2>3 DEF DeviceOK
  <1>6. Announced'
    <2>1. \A r : Begun(r)'
      BY <1>1 DEF Begun
    <2>2. \A b \in OutFifo : Where(b)' = Where(b)
      BY <1>2 DEF Where
    <2>. QED BY <1>1, <1>2, <1>3, <2>1, <2>2 DEF Safe, Announced
  <1>. QED BY <1>1, <1>4, <1>5, <1>6 DEF Safe

\* Every step of the station on the bus keeps the invariant.
LEMMA StepsOfDevice ==
    ASSUME DeviceSafe, [DeviceNext]_allVars
    PROVE  DeviceSafe'
  <1>1. Safe
    BY DEF DeviceSafe
  <1>2. CASE UNCHANGED vars /\ (USBDeviceAttach \/ Powers \/ USBWakeFromSuspend \/ USBSuspend \/ PassEnds)
    <2>1. Safe'
      BY <1>1, <1>2, Stutters
    <2>2. CASE USBDeviceAttach \/ Powers \/ PassEnds
      BY <2>1, <2>2 DEF DeviceSafe, USBDeviceAttach, Powers, PassEnds, irFlags, asleep
    <2>3. CASE USBWakeFromSuspend
      BY <2>1, <2>3 DEF DeviceSafe, USBWakeFromSuspend
    <2>4. CASE USBSuspend
      BY <2>1, <2>4 DEF DeviceSafe, USBSuspend
    <2>. QED BY <1>2, <2>2, <2>3, <2>4
  <1>3. CASE UNCHANGED vars /\ (LineRises \/ FallsSilent \/ SilenceSeen \/ BusResumes \/ ResetEnds)
    <2>1. Safe'
      BY <1>1, <1>3, Stutters
    <2>2. CASE LineRises \/ FallsSilent \/ ResetEnds
      BY <2>1, <2>2 DEF DeviceSafe, LineRises, FallsSilent, ResetEnds, irFlags, asleep
    <2>3. CASE SilenceSeen \/ BusResumes
      BY <2>1, <2>3 DEF DeviceSafe, SilenceSeen, BusResumes, Activity, asleep
    <2>. QED BY <1>3, <2>2, <2>3
  <1>4. CASE BusResets
    BY <1>1, <1>4, BusResetsSafe DEF DeviceSafe, BusResets, Activity, asleep
  <1>5. CASE ServesReset
    <2>1. Resets(stage, hAddr) /\ stage \in {"idle", "data", "status", "done", "stalled"} /\ hAddr \in Nat
      BY <1>1, <1>5 DEF ServesReset, Safe, Types, Host
    <2>2. PICK s \in {"idle", "data", "status", "done", "stalled"}, a \in Nat : s = stage /\ a = hAddr
      BY <2>1
    <2>3. Resets(s, a)
      BY <2>1, <2>2 DEF Resets
    <2>4. Safe'
      BY <1>1, <2>3, ResetsSafe
    <2>5. /\ IDLEIF' = FALSE /\ ACTVIF' = FALSE /\ URSTIF' = FALSE /\ USBBusIsSuspended' = FALSE /\ power' = "UP"
          /\ UNCHANGED <<bus, ACTVIE, SUSPND, owesActivity, passing, host>> /\ ~SUSPND
      BY <1>5 DEF ServesReset
    <2>6. erased' \in BOOLEAN
      <3>1. erased' = (stage # "idle")
        BY <1>5 DEF ServesReset
      <3>2. (stage # "idle") \in BOOLEAN
        OBVIOUS
      <3>. QED BY <3>1, <3>2
    <2>7. SUSPND' = FALSE /\ ACTVIE' = FALSE
      BY <2>5 DEF DeviceSafe
    <2>. QED BY <2>4, <2>5, <2>6, <2>7 DEF DeviceSafe
  <1>6. CASE \E r \in host : Sets(r)
    <2>1. PICK r \in host : Sets(r)
      BY <1>6
    <2>2. r \in Requests
      BY DeviceAssumption DEF DeviceSafe
    <2>3. Safe'
      BY <1>1, <2>1, <2>2, SetupTokenSafe DEF Sets
    <2>. QED BY <2>1, <2>3 DEF DeviceSafe, Sets, irFlags, asleep
  <1>7. CASE Served \/ Frame \/ Goes \/ Disturbs
    <2>1. Safe'
      BY <1>1, <1>7, FirmwareSafe, HostSafe, EndsEarlySafe DEF Served, Frame, Goes, Disturbs
    <2>2. UNCHANGED deviceVars
      BY <1>7 DEF Served, Frame, Goes, Disturbs
    <2>. QED BY <2>1, <2>2 DEF DeviceSafe, deviceVars, irFlags, asleep
  <1>8. CASE UNCHANGED allVars
    BY <1>1, <1>8, Stutters DEF DeviceSafe, allVars, deviceVars, irFlags, asleep
  <1>9. /\ USBDeviceAttach \/ Powers \/ USBWakeFromSuspend \/ USBSuspend \/ PassEnds => UNCHANGED vars
        /\ LineRises \/ FallsSilent \/ SilenceSeen \/ BusResumes \/ ResetEnds => UNCHANGED vars
    BY DEF USBDeviceAttach, Powers, USBWakeFromSuspend, USBSuspend, PassEnds, LineRises, FallsSilent, SilenceSeen, BusResumes,
           ResetEnds
  <1>. QED BY <1>2, <1>3, <1>4, <1>5, <1>6, <1>7, <1>8, <1>9 DEF DeviceNext, USBDeviceTasks

\* The part of the invariant that survives a suspend and a reset, with the types of the bus.
THEOREM DeviceInvariance == DeviceSpec => []DeviceSafe
  <1>1. DeviceInit => DeviceSafe
    BY InitSafe DEF DeviceInit, DeviceSafe
  <1>2. DeviceSafe /\ [DeviceNext]_allVars => DeviceSafe'
    BY StepsOfDevice
  <1>. QED BY <1>1, <1>2, PTL DEF DeviceSpec

\* The types hold also around suspend and reset, and the application is told of a suspend just
\* while the SIE is suspended and can be woken.
THEOREM DeviceTypeCorrect == DeviceSpec => []DeviceTypeOK
  <1>1. ASSUME DeviceSafe PROVE DeviceTypeOK
    <2>1. TypeOK
      BY <1>1, SafeIsTyped DEF DeviceSafe
    <2>2. {IDLEIF, ACTVIF, URSTIF, owesActivity, passing, erased} \subseteq BOOLEAN
      BY <1>1 DEF DeviceSafe
    <2>. QED BY <1>1, <2>1, <2>2 DEF DeviceSafe, DeviceTypeOK
  <1>. QED BY <1>1, DeviceInvariance, PTL

\* A suspend, a wake-up or a bus reset in the middle of a transfer makes the station deaf no more
\* than a new SETUP does, and lets no other data into the report.
THEOREM NeverDeafOnTheBus == DeviceSpec => [](ReadyForSetup /\ HandlerReadsItsReport)
  <1>1. DeviceSafe => ReadyForSetup /\ HandlerReadsItsReport
    BY SafeIsReady DEF DeviceSafe
  <1>. QED BY <1>1, DeviceInvariance, PTL

\* On the bus both sides are in step unless the station was initialized behind the host's back.
LEMMA StepsInStep ==
    ASSUME DeviceSafe, ~erased => Transfer, [DeviceNext]_allVars
    PROVE  ~erased' => Transfer'
  <1>1. Safe /\ Safe'
    BY StepsOfDevice DEF DeviceSafe
  <1>2. CASE BusResets
    <2>1. stage' = "idle"
      BY <1>2 DEF BusResets
    <2>. QED BY <1>1, <2>1 DEF Transfer
  <1>3. CASE ServesReset
    <2>1. erased' = (stage # "idle") /\ stage' = stage
      BY <1>3 DEF ServesReset, Resets
    <2>. QED BY <1>1, <2>1 DEF Transfer
  <1>4. CASE \E r \in host : Sets(r)
    <2>1. PICK r \in host : Sets(r)
      BY <1>4
    <2>2. SetupToken(r) /\ r \in Requests
      BY <2>1, DeviceAssumption DEF DeviceSafe, Sets
    <2>3. pktdis'
      BY <1>1, <2>2, SetupTokenSafe
    <2>. QED BY <1>1, <2>3 DEF Transfer
  <1>5. CASE Served \/ Frame \/ Goes \/ Disturbs
    <2>1. UNCHANGED deviceVars /\ Next
      BY <1>5 DEF Served, Frame, Goes, Disturbs, Next
    <2>2. erased' = erased
      BY <2>1 DEF deviceVars
    <2>. QED BY <2>1, <2>2, StepsOfTransfer
  <1>6. CASE UNCHANGED vars /\ erased' = erased
    BY <1>6, StepsOfTransfer
  <1>7. /\ USBDeviceAttach \/ Powers \/ USBWakeFromSuspend \/ USBSuspend \/ PassEnds => UNCHANGED vars /\ erased' = erased
        /\ LineRises \/ FallsSilent \/ SilenceSeen \/ BusResumes \/ ResetEnds => UNCHANGED vars /\ erased' = erased
        /\ UNCHANGED allVars => UNCHANGED vars /\ erased' = erased
    BY DEF USBDeviceAttach, Powers, USBWakeFromSuspend, USBSuspend, PassEnds, LineRises, FallsSilent, SilenceSeen, BusResumes,
           ResetEnds, allVars, deviceVars
  <1>. QED BY <1>2, <1>3, <1>4, <1>5, <1>6, <1>7 DEF DeviceNext, USBDeviceTasks

\* What the host has seen succeed is so in the station, and what it has seen fail is explained, also
\* on a bus that falls silent and is reset in the middle of transfers, but for one begun before
\* USBDeviceInit has served the reset.
THEOREM BothSidesDoneOnTheBus == DeviceSpec => []DoneOnTheBus
  <1>1. DeviceInit => (DeviceSafe /\ (~erased => Transfer))
    BY InitSafe DEF DeviceInit, DeviceSafe, Transfer
  <1>2. (DeviceSafe /\ (~erased => Transfer)) /\ [DeviceNext]_allVars => (DeviceSafe /\ (~erased => Transfer))'
    BY StepsOfDevice, StepsInStep
  <1>3. (DeviceSafe /\ (~erased => Transfer)) => DoneOnTheBus
    BY TransferIsDone, TransferIsStalled DEF DoneOnTheBus
  <1>. QED BY <1>1, <1>2, <1>3, PTL DEF DeviceSpec

\* The descriptors are never as USBStallHandler tests for when it is called: its repair of the OUT
\* descriptor writes nothing, as the comment at its head expects.
THEOREM StallRepairIsIdle == Spec => [][SeesStall => UNCHANGED <<outBD, inBD>>]_vars
  <1>1. Transfer /\ SeesStall => UNCHANGED <<outBD, inBD>>
    BY SeesStallOK DEF Transfer, Safe
  <1>. QED BY <1>1, Invariance, PTL DEF Spec
=============================================================================
