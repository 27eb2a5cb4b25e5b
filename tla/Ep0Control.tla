----------------------------- MODULE Ep0Control -----------------------------
(***************************************************************************)
(* Control transfers on endpoint 0: the interrupt-driven Microchip stack   *)
(* (usb_device.c) against the serial interface engine (SIE) of the         *)
(* PIC16F1454 and the host.  The SIE and the firmware share the buffer     *)
(* descriptors (BDs) and hand them over by their UOWN bit; finished        *)
(* transactions wait in the USTAT FIFO until the interrupt routine serves  *)
(* them, while the bus goes on.  A firmware action is the code between two *)
(* moments at which the SIE could act on what the code writes.             *)
(*                                                                         *)
(* The host may restart with a new SETUP at any time, end a control write  *)
(* early, reset the bus, and lose up to Losses ACKs.  "serving" and        *)
(* "handled" are history variables.                                        *)
(***************************************************************************)
EXTENDS Naturals, Sequences

CONSTANTS
  Packet,     \* USB_EP0_BUFF_SIZE
  Timeout,    \* USB_STATUS_STAGE_TIMEOUT, in frames
  Requests,   \* the control requests the host makes
  Losses      \* bound on the ACKs lost on the bus

Request == [kind : {"read", "write", "address", "configure", "unknown"},
            has : Nat,    \* bytes the device has to send
            asks : Nat,   \* wLength
            val : Nat]    \* low byte of wValue

ASSUME Ep0Assumption ==
  /\ Packet \in Nat \ {0} /\ Timeout \in Nat \ {0} /\ Losses \in Nat
  /\ Requests \subseteq Request
  /\ \A r \in Requests : r.kind \in {"read", "write"} => r.asks > 0

VARIABLES
  outBD, inBD,         \* BDs of EP0 OUT and EP0 IN, even (0) and odd (1)
  sieOut, sieIn,       \* the BD the SIE uses next
  ustat, pktdis, stallIF,
  outCur, outNext, inPtr,   \* pBDTEntryEP0OutCurrent, ..OutNext, pBDTEntryIn[0]
  ctrl,                \* controlTransferState
  short,               \* shortPacketStatus
  inBusy, outBusy,     \* inPipes[0].info.bits.busy, outPipes[0].info.bits.busy
  inCount, outCount,   \* inPipes[0].wCount, outPipes[0].wCount
  pSrc,                \* inPipes[0].pSrc: what it points at
  bothOwned,           \* BothEP0OutUOWNsSet
  statusEnabled,       \* USBStatusStageEnabledFlag1 and 2, always written together
  timer,               \* USBStatusStageTimeoutCounter
  USBDeviceState, U1ADDR, SetupPkt, CtrlTrfData,
  pc,                  \* where the interrupt routine is
  serving, handled,    \* the transfer being served, and how often its report was handled
  stage, req, turn, hLeft, hDts, hAddr, lost   \* the host and the wire

sie   == <<sieOut, sieIn, ustat, pktdis>>
pipes == <<short, inBusy, outBusy, inCount, outCount, pSrc>>
flags == <<bothOwned, statusEnabled, timer>>
wire  == <<stage, req, turn, hLeft, hDts, hAddr, lost>>
vars  == <<outBD, inBD, sie, stallIF, outCur, outNext, inPtr, ctrl, pipes, flags,
           USBDeviceState, U1ADDR, SetupPkt, CtrlTrfData, pc, serving, handled, wire>>

Least(a, b) == IF a < b THEN a ELSE b

-----------------------------------------------------------------------------
(* Descriptor values the firmware writes. *)

FreeOut == [own |-> FALSE, dts |-> 0, chk |-> FALSE, stall |-> FALSE,
            cnt |-> 0, adr |-> "SetupPkt", pid |-> "none"]
\* _USIE|_BSTALL at SetupPkt: takes a SETUP, stalls anything else
ForSetup == [FreeOut EXCEPT !.own = TRUE, !.stall = TRUE]
\* _USIE at SetupPkt: takes the zero-length status packet, or a SETUP
ForStatus == [FreeOut EXCEPT !.own = TRUE]
\* _USIE|_DATx|_DTSEN at CtrlTrfData: takes the next packet of a control write
ForData(d) == [FreeOut EXCEPT !.own = TRUE, !.dts = d, !.chk = TRUE, !.adr = "CtrlTrfData"]
FreeIn == [own |-> FALSE, dts |-> 0, stall |-> FALSE, cnt |-> 0]
StalledIn == [FreeIn EXCEPT !.own = TRUE, !.stall = TRUE]
Sending(d, n) == [FreeIn EXCEPT !.own = TRUE, !.dts = d, !.cnt = n]

NoRequest == [kind |-> "unknown", has |-> 0, asks |-> 0, val |-> 0]
Content(w, t, p, r) == [what |-> w, turn |-> t, pos |-> p, req |-> r]
Zeroes == Content("data", 0, 0, NoRequest)

Total(r) == Least(r.has, r.asks)

TypeOK ==
  /\ outBD \in [0..1 -> [own : BOOLEAN, dts : 0..1, chk : BOOLEAN, stall : BOOLEAN, cnt : 0..Packet,
                         adr : {"SetupPkt", "CtrlTrfData"}, pid : {"none", "setup", "out"}]]
  /\ inBD \in [0..1 -> [own : BOOLEAN, dts : 0..1, stall : BOOLEAN, cnt : 0..Packet]]
  /\ {sieOut, sieIn, outCur, outNext, inPtr, turn, serving, hDts} \subseteq 0..1
  /\ ustat \in Seq([dir : {"out", "in"}, buf : 0..1]) /\ Len(ustat) <= 4
  /\ ctrl \in {"WAIT_SETUP", "TX", "RX"} /\ short \in {"NOT_USED", "PENDING", "SENT"}
  /\ {pktdis, stallIF, inBusy, outBusy, bothOwned, statusEnabled} \subseteq BOOLEAN
  /\ {inCount, outCount, U1ADDR, hAddr, hLeft, lost, handled} \subseteq Nat /\ timer \in 0..Timeout
  /\ USBDeviceState \in {"DEFAULT", "ADR_PENDING", "ADDRESS", "CONFIGURED"}
  /\ {SetupPkt, CtrlTrfData, pSrc} \subseteq [what : {"setup", "data"}, turn : 0..1, pos : Nat, req : Request]
  /\ pc \in {"idle", "complete", "arm", "stallIn", "status", "statusNext", "handle", "handleEarly"}
  /\ stage \in {"idle", "data", "status", "done", "stalled"} /\ req \in Request

Init ==
  /\ outBD = [b \in 0..1 |-> IF b = 0 THEN ForSetup ELSE FreeOut]
  /\ inBD = [b \in 0..1 |-> FreeIn]
  /\ sieOut = 0 /\ sieIn = 0 /\ ustat = <<>> /\ pktdis = FALSE /\ stallIF = FALSE
  /\ outCur = 0 /\ outNext = 0 /\ inPtr = 0
  /\ ctrl = "WAIT_SETUP" /\ short = "NOT_USED"
  /\ inBusy = FALSE /\ outBusy = FALSE /\ inCount = 0 /\ outCount = 0
  /\ bothOwned = FALSE /\ statusEnabled = TRUE /\ timer = Timeout
  /\ USBDeviceState = "DEFAULT" /\ U1ADDR = 0
  /\ SetupPkt = Zeroes /\ CtrlTrfData = Zeroes /\ pSrc = Zeroes
  /\ pc = "idle" /\ serving = 0 /\ handled = 0
  /\ stage = "idle" /\ req = NoRequest /\ turn = 0 /\ hLeft = 0 /\ hDts = 1 /\ hAddr = 0 /\ lost = 0

-----------------------------------------------------------------------------
(* The bus: one action per transaction the SIE completes or refuses. A     *)
(* token that finds no descriptor, or PKTDIS set, is not answered.         *)

Heard == ~pktdis /\ hAddr = U1ADDR
firmware == <<outCur, outNext, inPtr, ctrl, pipes, flags, USBDeviceState, U1ADDR, pc, serving, handled>>

SetupToken(r) ==
  LET b == outBD[sieOut]
      p == Content("setup", 1 - turn, 0, r)
  IN /\ Heard /\ b.own
     /\ outBD' = [outBD EXCEPT ![sieOut] = [FreeOut EXCEPT !.adr = b.adr, !.pid = "setup"]]
     /\ SetupPkt' = IF b.adr = "SetupPkt" THEN p ELSE SetupPkt
     /\ CtrlTrfData' = IF b.adr = "CtrlTrfData" THEN p ELSE CtrlTrfData
     /\ sieOut' = 1 - sieOut /\ pktdis' = TRUE
     /\ ustat' = Append(ustat, [dir |-> "out", buf |-> sieOut])
     /\ turn' = 1 - turn /\ req' = r /\ hLeft' = r.asks /\ hDts' = 1
     /\ stage' = IF r.kind \in {"read", "write"} THEN "data" ELSE "status"
     /\ UNCHANGED <<inBD, sieIn, stallIF, firmware, hAddr, lost>>

WantsIn == stage = (IF req.kind = "read" THEN "data" ELSE "status")
WantsOut == stage = (IF req.kind = "read" THEN "status" ELSE "data")

InStalled ==
  /\ WantsIn /\ Heard /\ inBD[sieIn].own /\ inBD[sieIn].stall
  /\ stage' = "stalled" /\ stallIF' = TRUE
  /\ UNCHANGED <<outBD, inBD, sie, firmware, SetupPkt, CtrlTrfData, req, turn, hLeft, hDts, hAddr, lost>>

\* the host takes the packet unless its data toggle says it is a repetition
HostTakes(b) ==
  IF stage = "status"
    THEN /\ stage' = "done" /\ hAddr' = (IF req.kind = "address" THEN req.val ELSE hAddr)
         /\ UNCHANGED <<hLeft, hDts>>
    ELSE IF b.dts = hDts
      THEN /\ hLeft' = hLeft - b.cnt /\ hDts' = 1 - hDts
           /\ stage' = (IF b.cnt < Packet \/ hLeft' = 0 THEN "status" ELSE "data")
           /\ UNCHANGED hAddr
      ELSE UNCHANGED <<stage, hLeft, hDts, hAddr>>

InAnswered(acked) ==
  LET b == inBD[sieIn]
  IN /\ WantsIn /\ Heard /\ b.own /\ ~b.stall
     /\ HostTakes(b)
     /\ IF acked
          THEN /\ inBD' = [inBD EXCEPT ![sieIn].own = FALSE]
               /\ sieIn' = 1 - sieIn /\ ustat' = Append(ustat, [dir |-> "in", buf |-> sieIn])
               /\ UNCHANGED lost
          ELSE lost < Losses /\ lost' = lost + 1 /\ UNCHANGED <<inBD, sieIn, ustat>>
     /\ UNCHANGED <<outBD, sieOut, pktdis, stallIF, firmware, SetupPkt, CtrlTrfData, req, turn>>

\* the packet of an OUT transaction: the next of a control write, or the status stage
OutSize == IF stage = "data" THEN Least(Packet, hLeft) ELSE 0
OutDts == IF stage = "data" THEN hDts ELSE 1
Repeated == outBD[sieOut].chk /\ outBD[sieOut].dts # OutDts

HostGoesOn ==
  /\ hLeft' = hLeft - OutSize /\ hDts' = 1 - hDts
  /\ stage' = (IF stage = "status" THEN "done" ELSE IF hLeft' = 0 THEN "status" ELSE "data")

OutStalled ==
  /\ WantsOut /\ Heard /\ outBD[sieOut].own /\ outBD[sieOut].stall
  /\ stage' = "stalled" /\ stallIF' = TRUE
  /\ UNCHANGED <<outBD, inBD, sie, firmware, SetupPkt, CtrlTrfData, req, turn, hLeft, hDts, hAddr, lost>>

\* a packet with the wrong data toggle is acknowledged and dropped
OutRepeated ==
  /\ WantsOut /\ Heard /\ outBD[sieOut].own /\ ~outBD[sieOut].stall /\ Repeated
  /\ HostGoesOn
  /\ UNCHANGED <<outBD, inBD, sie, stallIF, firmware, SetupPkt, CtrlTrfData, req, turn, hAddr, lost>>

OutTaken(acked) ==
  LET b == outBD[sieOut]
      p == Content("data", turn, req.asks - hLeft, req)
  IN /\ WantsOut /\ Heard /\ b.own /\ ~b.stall /\ ~Repeated
     /\ outBD' = [outBD EXCEPT ![sieOut] =
                    [FreeOut EXCEPT !.adr = b.adr, !.pid = "out", !.cnt = OutSize, !.dts = OutDts]]
     /\ SetupPkt' = IF b.adr = "SetupPkt" /\ OutSize > 0 THEN p ELSE SetupPkt
     /\ CtrlTrfData' = IF b.adr = "CtrlTrfData" /\ OutSize > 0 THEN p ELSE CtrlTrfData
     /\ sieOut' = 1 - sieOut /\ ustat' = Append(ustat, [dir |-> "out", buf |-> sieOut])
     /\ IF acked THEN HostGoesOn /\ UNCHANGED lost
                 ELSE lost < Losses /\ lost' = lost + 1 /\ UNCHANGED <<stage, hLeft, hDts>>
     /\ UNCHANGED <<inBD, sieIn, pktdis, stallIF, firmware, req, turn, hAddr>>

\* the host goes to the status stage before it has sent all it announced
EndsEarly ==
  /\ stage = "data" /\ req.kind = "write"
  /\ stage' = "status"
  /\ UNCHANGED <<outBD, inBD, sie, stallIF, firmware, SetupPkt, CtrlTrfData, req, turn, hLeft, hDts, hAddr, lost>>

-----------------------------------------------------------------------------
(* The firmware. *)

Idle == pc = "idle"
Entry == Head(ustat)
Arms(b, d) == outBD' = [outBD EXCEPT ![b] = d]
ArmsIn(b, d) == inBD' = [inBD EXCEPT ![b] = d]

\* USBCtrlEPService, common to the three handlers
Serves(dir) ==
  /\ Idle /\ ustat # <<>> /\ Entry.dir = dir
  /\ ustat' = Tail(ustat) /\ timer' = Timeout
  /\ UNCHANGED <<pktdis, stallIF, wire>>
PointsAtOut == outCur' = Entry.buf /\ outNext' = 1 - Entry.buf

\* the SETUP data, copied to SetupPkt from wherever the descriptor had it put
SetupData == IF outBD[Entry.buf].adr = "SetupPkt" THEN SetupPkt ELSE CtrlTrfData

\* Faulty: the IN descriptors of the transfer broken off stay armed
AbandonsOutOnly ==
  /\ PointsAtOut /\ outBD' = [outBD EXCEPT ![outNext'].own = FALSE, ![outCur'].adr = "SetupPkt"]
  /\ UNCHANGED <<inBD, sieOut, sieIn, inPtr>>

\* USBCtrlTrfSetupHandler takes back what the last transfer has left armed
Abandons ==
  /\ PointsAtOut /\ outBD' = [outBD EXCEPT ![outNext'].own = FALSE, ![outCur'].adr = "SetupPkt"]
  /\ inBD' = [b \in 0..1 |-> [inBD[b] EXCEPT !.own = FALSE]]
  /\ UNCHANGED <<sieOut, sieIn, inPtr>>

\* USBStdSetCfgHandler also clears the descriptors and the ping-pong state of both sides
Configures ==
  /\ outBD' = [b \in 0..1 |-> FreeOut] /\ inBD' = [b \in 0..1 |-> FreeIn]
  /\ sieOut' = 0 /\ sieIn' = 0 /\ outCur' = 0 /\ outNext' = 0 /\ inPtr' = 0

\* the request handlers claim a pipe, or leave both for a stall (pSrc is not kept beyond the
\* transfer that reads it)
Claims(r, t) ==
  /\ inBusy' = (r.kind \in {"read", "address", "configure"})
  /\ inCount' = (IF r.kind = "read" THEN r.has ELSE 0)
  /\ pSrc' = (IF r.kind = "read" THEN Content("data", t, 0, r) ELSE Zeroes)
  /\ outBusy' = (r.kind = "write")
  /\ outCount' = (IF r.kind = "write" THEN r.asks ELSE 0)
  /\ USBDeviceState' = CASE r.kind = "address" -> "ADR_PENDING"
                         [] r.kind = "configure" -> IF r.val = 0 THEN "ADDRESS" ELSE "CONFIGURED"
                         [] OTHER -> USBDeviceState

\* PKTDIS is still set, so the SIE touches nothing until the request is known
ServesSetup ==
  /\ Serves("out") /\ outBD[Entry.buf].pid = "setup"
  /\ SetupPkt' = SetupData /\ serving' = SetupPkt'.turn /\ handled' = 0
  /\ short' = "NOT_USED" /\ bothOwned' = FALSE /\ ctrl' = "WAIT_SETUP"
  /\ Claims(SetupPkt'.req, serving')
  /\ IF SetupPkt'.req.kind = "configure" THEN Configures ELSE Abandons
  /\ pc' = "complete"
  /\ UNCHANGED <<statusEnabled, U1ADDR, CtrlTrfData>>

\* USBCtrlEPServiceComplete: packets are processed again, and only then is the pipe armed
Completes ==
  /\ pc = "complete" /\ pktdis' = FALSE /\ pc' = "arm"
  /\ UNCHANGED <<outBD, inBD, sieOut, sieIn, ustat, stallIF, outCur, outNext, inPtr, ctrl, pipes, flags,
                 USBDeviceState, U1ADDR, SetupPkt, CtrlTrfData, serving, handled, wire>>

ArmsPipe == pc = "arm" /\ UNCHANGED <<sie, stallIF, outCur, outNext, inPtr, inBusy, outBusy, outCount, bothOwned,
                                      timer, USBDeviceState, U1ADDR, SetupPkt, serving, handled, wire>>

AwaitsData ==
  /\ ArmsPipe /\ ~inBusy /\ outBusy
  /\ ctrl' = "RX" /\ Arms(outNext, ForData(1)) /\ statusEnabled' = FALSE /\ pc' = "idle"
  /\ UNCHANGED <<inBD, short, inCount, pSrc, CtrlTrfData>>

StallsOut ==
  /\ ArmsPipe /\ ~inBusy /\ ~outBusy
  /\ Arms(outNext, [ForSetup EXCEPT !.chk = TRUE]) /\ pc' = "stallIn"
  /\ UNCHANGED <<inBD, ctrl, short, inCount, pSrc, statusEnabled, CtrlTrfData>>

\* Faulty: a full last packet counts as the short one
ShortAtFull(n) ==
  LET size == Least(Packet, n)
  IN /\ short' = IF n > Packet THEN short
                 ELSE IF short = "NOT_USED" THEN "PENDING" ELSE "SENT"
     /\ inCount' = n - size
     /\ CtrlTrfData' = IF size = 0 THEN CtrlTrfData ELSE pSrc
     /\ pSrc' = [pSrc EXCEPT !.pos = @ + size]

\* USBCtrlTrfTxService with n bytes left
TxService(n) ==
  LET size == Least(Packet, n)
  IN /\ short' = IF n >= Packet THEN short
                 ELSE IF short = "NOT_USED" THEN "PENDING" ELSE "SENT"
     /\ inCount' = n - size
     /\ CtrlTrfData' = IF size = 0 THEN CtrlTrfData ELSE pSrc
     /\ pSrc' = [pSrc EXCEPT !.pos = @ + size]

SendsFirst ==
  /\ ArmsPipe /\ inBusy /\ SetupPkt.req.kind = "read"
  /\ ctrl' = "TX" /\ TxService(Least(SetupPkt.req.asks, inCount))
  /\ ArmsIn(inPtr, Sending(1, Least(Packet, Least(SetupPkt.req.asks, inCount))))
  /\ statusEnabled' = FALSE /\ pc' = "status"
  /\ UNCHANGED outBD

AwaitsSetup ==
  /\ ArmsPipe /\ inBusy /\ SetupPkt.req.kind # "read"
  /\ ctrl' = "RX" /\ Arms(outNext, ForSetup) /\ statusEnabled' = FALSE /\ pc' = "status"
  /\ UNCHANGED <<inBD, short, inCount, pSrc, CtrlTrfData>>

held == <<sie, stallIF, outCur, outNext, inPtr, U1ADDR, USBDeviceState, SetupPkt, CtrlTrfData,
          timer, serving, wire>>

StallsIn ==
  /\ pc = "stallIn" /\ ArmsIn(inPtr, StalledIn) /\ pc' = "idle"
  /\ UNCHANGED <<held, outBD, ctrl, pipes, bothOwned, statusEnabled, handled>>

\* USBCtrlEPAllowStatusStage, whose flags are tested where it is called (AfterStatus)
AfterStatus == IF statusEnabled THEN "idle" ELSE "status"

AllowsStatusIn ==
  /\ pc = "status" /\ ctrl = "RX"
  /\ ArmsIn(inPtr, Sending(1, 0)) /\ statusEnabled' = TRUE /\ pc' = "idle"
  /\ UNCHANGED <<held, outBD, ctrl, pipes, bothOwned, handled>>

AllowsStatusOut ==
  /\ pc = "status" /\ ctrl = "TX"
  /\ Arms(outCur, ForSetup) /\ bothOwned' = TRUE /\ statusEnabled' = TRUE /\ pc' = "statusNext"
  /\ UNCHANGED <<held, inBD, ctrl, pipes, handled>>

ArmsStatusOut ==
  /\ pc = "statusNext" /\ Arms(outNext, ForStatus) /\ pc' = "idle"
  /\ UNCHANGED <<held, inBD, ctrl, pipes, bothOwned, statusEnabled, handled>>

AllowsNothing ==
  /\ pc = "status" /\ ctrl = "WAIT_SETUP" /\ statusEnabled' = TRUE /\ pc' = "idle"
  /\ UNCHANGED <<held, outBD, inBD, ctrl, pipes, bothOwned, handled>>

\* Faulty: the descriptor for the next SETUP still points at CtrlTrfData
TakesDataInPlace ==
  LET b == outBD[Entry.buf]
      left == outCount - Least(b.cnt, outCount)
  IN /\ Serves("out") /\ b.pid # "setup" /\ ctrl = "RX"
     /\ PointsAtOut /\ outCount' = left
     /\ Arms(outNext', IF left > 0 THEN ForData(1 - b.dts) ELSE [ForSetup EXCEPT !.adr = "CtrlTrfData"])
     /\ pc' = IF left > 0 THEN "idle" ELSE "handle"
     /\ UNCHANGED <<inBD, sieOut, sieIn, inPtr, ctrl, short, inBusy, outBusy, inCount, pSrc, bothOwned,
                    statusEnabled, USBDeviceState, U1ADDR, SetupPkt, CtrlTrfData, serving, handled>>

\* USBCtrlTrfOutHandler, a packet of a control write: USBCtrlTrfRxService
TakesData ==
  LET b == outBD[Entry.buf]
      left == outCount - Least(b.cnt, outCount)
  IN /\ Serves("out") /\ b.pid # "setup" /\ ctrl = "RX"
     /\ PointsAtOut /\ outCount' = left
     /\ Arms(outNext', IF left > 0 THEN ForData(1 - b.dts) ELSE ForSetup)
     /\ pc' = IF left > 0 THEN "idle" ELSE "handle"
     /\ UNCHANGED <<inBD, sieOut, sieIn, inPtr, ctrl, short, inBusy, outBusy, inCount, pSrc, bothOwned,
                    statusEnabled, USBDeviceState, U1ADDR, SetupPkt, CtrlTrfData, serving, handled>>

\* Faulty: the busy bit is left set
HandlesKeepingBusy ==
  /\ pc = "handle" /\ handled' = handled + 1 /\ pc' = AfterStatus
  /\ UNCHANGED <<held, outBD, inBD, ctrl, pipes, bothOwned, statusEnabled>>

\* the user's pFunc, handleMessage(CtrlTrfData), returns
Handles ==
  /\ pc = "handle" /\ handled' = handled + 1 /\ outBusy' = FALSE /\ pc' = AfterStatus
  /\ UNCHANGED <<held, outBD, inBD, ctrl, short, inBusy, inCount, outCount, pSrc, bothOwned, statusEnabled>>

\* Faulty: arms the next descriptor though it is armed already, and may hold a SETUP
TakesStatusRearming ==
  /\ Serves("out") /\ outBD[Entry.buf].pid # "setup" /\ ctrl # "RX"
  /\ PointsAtOut /\ ctrl' = "WAIT_SETUP" /\ bothOwned' = FALSE
  /\ Arms(outNext', [ForSetup EXCEPT !.chk = TRUE])
  /\ UNCHANGED <<inBD, sieOut, sieIn, inPtr, pipes, statusEnabled, USBDeviceState, U1ADDR, SetupPkt,
                 CtrlTrfData, pc, serving, handled>>

\* USBCtrlTrfOutHandler, the status stage of a control read
TakesStatus ==
  /\ Serves("out") /\ outBD[Entry.buf].pid # "setup" /\ ctrl # "RX"
  /\ PointsAtOut /\ ctrl' = "WAIT_SETUP" /\ bothOwned' = FALSE
  /\ IF bothOwned THEN UNCHANGED outBD ELSE Arms(outNext', [ForSetup EXCEPT !.chk = TRUE])
  /\ UNCHANGED <<inBD, sieOut, sieIn, inPtr, pipes, statusEnabled, USBDeviceState, U1ADDR, SetupPkt,
                 CtrlTrfData, pc, serving, handled>>

\* USBCtrlTrfInHandler: the address first, then the next packet or the end of the status stage
ServesIn ==
  /\ Serves("in") /\ inPtr' = 1 - inPtr
  /\ IF USBDeviceState = "ADR_PENDING"
       THEN /\ U1ADDR' = SetupPkt.req.val
            /\ USBDeviceState' = IF U1ADDR' = 0 THEN "DEFAULT" ELSE "ADDRESS"
       ELSE UNCHANGED <<U1ADDR, USBDeviceState>>
  /\ UNCHANGED <<outBD, sieOut, sieIn, outCur, outNext, inBusy, outBusy, outCount, bothOwned, statusEnabled,
                 SetupPkt, serving, handled>>

SendsNext ==
  /\ ServesIn /\ ctrl = "TX"
  /\ TxService(inCount)
  /\ ArmsIn(inPtr', IF short' = "SENT" THEN [StalledIn EXCEPT !.cnt = Least(Packet, inCount)]
                    ELSE Sending(1 - inBD[inPtr].dts, Least(Packet, inCount)))
  /\ UNCHANGED <<ctrl, pc>>

EndsStatus ==
  /\ ServesIn /\ ctrl # "TX"
  /\ IF outBusy THEN pc' = "handleEarly" /\ UNCHANGED ctrl
                ELSE ctrl' = "WAIT_SETUP" /\ UNCHANGED pc
  /\ UNCHANGED <<inBD, short, inCount, pSrc, CtrlTrfData>>

\* the report of a control write the host has ended early is handled all the same
HandlesEarly ==
  /\ pc = "handleEarly" /\ handled' = handled + 1 /\ outBusy' = FALSE /\ ctrl' = "WAIT_SETUP" /\ pc' = "idle"
  /\ UNCHANGED <<held, outBD, inBD, short, inBusy, inCount, outCount, pSrc, bothOwned, statusEnabled>>

\* Faulty: the counter goes on from zero, as an unsigned byte
FrameWraps ==
  /\ Idle
  /\ timer' = (IF timer = 0 THEN 255 ELSE timer - 1)
  /\ pc' = IF timer' = 0 THEN AfterStatus ELSE "idle"
  /\ UNCHANGED <<outBD, inBD, sie, stallIF, outCur, outNext, inPtr, ctrl, pipes, bothOwned, statusEnabled,
                 USBDeviceState, U1ADDR, SetupPkt, CtrlTrfData, serving, handled, wire>>

\* Faulty: the time-out does not allow the status stage
FrameForgets ==
  /\ Idle /\ timer > 0
  /\ timer' = timer - 1
  /\ UNCHANGED <<outBD, inBD, sie, stallIF, outCur, outNext, inPtr, ctrl, pipes, bothOwned, statusEnabled,
                 USBDeviceState, U1ADDR, SetupPkt, CtrlTrfData, pc, serving, handled, wire>>

\* the SOF part of USBDeviceTasks, once a millisecond
FrameStarts ==
  /\ Idle /\ (timer > 0 \/ ~statusEnabled)
  /\ timer' = (IF timer = 0 THEN 0 ELSE timer - 1)
  /\ pc' = IF timer' = 0 THEN AfterStatus ELSE "idle"
  /\ UNCHANGED <<outBD, inBD, sie, stallIF, outCur, outNext, inPtr, ctrl, pipes, bothOwned, statusEnabled,
                 USBDeviceState, U1ADDR, SetupPkt, CtrlTrfData, serving, handled, wire>>

\* USBStallHandler
SeesStall ==
  /\ Idle /\ stallIF /\ stallIF' = FALSE
  /\ outBD' = IF outBD[outCur] = ForStatus /\ inBD[inPtr] = StalledIn
                THEN [outBD EXCEPT ![outCur] = [ForSetup EXCEPT !.chk = TRUE]] ELSE outBD
  /\ UNCHANGED <<inBD, sie, firmware, SetupPkt, CtrlTrfData, wire>>

\* a bus reset seen by the firmware, which is USBDeviceInit, with the host's stage and address
\* then; the pipes are only cleared while transactions are pending
Resets(hostStage, address) ==
  /\ Idle
  /\ outBD' = [b \in 0..1 |-> IF b = 0 THEN ForSetup ELSE FreeOut] /\ inBD' = [b \in 0..1 |-> FreeIn]
  /\ sieOut' = 0 /\ sieIn' = 0 /\ inPtr' = 0 /\ ustat' = <<>> /\ pktdis' = FALSE /\ stallIF' = FALSE
  /\ statusEnabled' = TRUE /\ U1ADDR' = 0 /\ USBDeviceState' = "DEFAULT"
  /\ IF ustat # <<>> THEN inBusy' = FALSE /\ outBusy' = FALSE /\ outCount' = 0
                     ELSE UNCHANGED <<inBusy, outBusy, outCount>>
  /\ stage' = hostStage /\ hAddr' = address
  /\ UNCHANGED <<outCur, outNext, ctrl, short, inCount, pSrc, bothOwned, timer, SetupPkt, CtrlTrfData, pc, serving,
                 handled, req, turn, hLeft, hDts, lost>>

Firmware ==
  \/ ServesSetup \/ Completes \/ AwaitsData \/ StallsOut \/ StallsIn \/ SendsFirst \/ AwaitsSetup
  \/ AllowsStatusIn \/ AllowsStatusOut \/ ArmsStatusOut \/ AllowsNothing
  \/ TakesData \/ Handles \/ TakesStatus \/ SendsNext \/ EndsStatus \/ HandlesEarly \/ SeesStall

\* a host that retries its token until the device answers
HostProgress ==
  InStalled \/ InAnswered(TRUE) \/ OutStalled \/ OutRepeated \/ OutTaken(TRUE)

Next ==
  \/ Firmware \/ HostProgress \/ FrameStarts
  \/ \E r \in Requests : SetupToken(r)
  \/ InAnswered(FALSE) \/ OutTaken(FALSE) \/ EndsEarly \/ Resets("idle", 0)

Spec == Init /\ [][Next]_vars

\* The interrupt routine runs, frames start every millisecond, the host retries.
FairSpec == Spec /\ WF_vars(Firmware) /\ WF_vars(HostProgress) /\ WF_vars(FrameStarts)

-----------------------------------------------------------------------------
(* Properties. *)

Settled == Idle /\ ustat = <<>>

(***************************************************************************)
(* Whenever the firmware has served all finished transactions, the SIE owns*)
(* the descriptor it will use for the next OUT or SETUP packet and is      *)
(* processing packets: the device can never be made deaf to a SETUP, after *)
(* whatever a transfer was broken off by.  It is about the two copies of   *)
(* the ping-pong state, the firmware's pointers and the SIE's own.         *)
(***************************************************************************)
ReadyForSetup == Settled => outBD[sieOut].own /\ ~pktdis

(***************************************************************************)
(* The report handler reads the data of the transfer it is run for: no     *)
(* SETUP or data packet the host has sent since is in CtrlTrfData while    *)
(* handleMessage reads it.                                                 *)
(***************************************************************************)
HandlerReadsItsReport ==
  pc = "handle" => CtrlTrfData.what = "data" /\ CtrlTrfData.turn = serving

(***************************************************************************)
(* What the host has seen succeed is so in the station: a control write    *)
(* has had its report handled exactly once, also when the status packet    *)
(* was armed by the time-out before the last data packet was served; a     *)
(* control read has given all there was to send, up to the length asked    *)
(* for; a SET_ADDRESS, once its acknowledgement has arrived, has given both*)
(* the same address.  No report is handled twice.                          *)
(***************************************************************************)
DoneOnBothSides ==
  /\ handled <= 1
  /\ stage = "done" => CASE req.kind = "write" -> Settled /\ hLeft = 0 => handled = 1
                         [] req.kind = "read" -> req.asks - hLeft = Total(req)
                         [] req.kind = "address" -> Settled /\ lost = 0 => U1ADDR = hAddr
                         [] OTHER -> TRUE

(***************************************************************************)
(* A request the firmware knows is stalled only when the ACK of its last   *)
(* OUT packet was lost and the host repeats that packet, which the next    *)
(* descriptor stalls; all data has then been delivered, and the report of a*)
(* control write is handled although the host sees it fail.                *)
(***************************************************************************)
OnlyUnknownStalled ==
  stage = "stalled" /\ req.kind # "unknown" =>
    /\ lost > 0
    /\ req.kind = "read" => req.asks - hLeft = Total(req)
    /\ req.kind = "write" => pc = "handle" \/ handled = 1

(***************************************************************************)
(* Each data packet the firmware copies to the report is the next one of   *)
(* the transfer being served, and each the host takes is the next one of   *)
(* the transfer it asks for: nothing is repeated, skipped or left over from*)
(* a transfer broken off.                                                  *)
(***************************************************************************)
DataInOrder ==
  [][ /\ TakesData /\ outBD[Entry.buf].cnt > 0 =>
           CtrlTrfData = Content("data", serving, SetupPkt.req.asks - outCount, SetupPkt.req)
      /\ hLeft' < hLeft /\ turn' = turn /\ req.kind = "read" =>
           CtrlTrfData = Content("data", turn, req.asks - hLeft, req) ]_vars

(***************************************************************************)
(* The device address only changes by a reset or when the transfer being   *)
(* served is the SET_ADDRESS whose status stage has just ended.            *)
(***************************************************************************)
AddressChangesAtStatus ==
  [][U1ADDR' # U1ADDR => Resets("idle", 0) \/ SetupPkt.req.kind = "address"]_vars

=============================================================================
