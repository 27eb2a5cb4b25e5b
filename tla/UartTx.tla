------------------------------- MODULE UartTx -------------------------------
(***************************************************************************)
(* The transmitter of the base station, firmware/cstbase-hid/uart_funcs.h, *)
(* and its two users.  The main loop sends single bytes (keys, and 'T' to  *)
(* check the voltage); the interrupt routine sends the bytes of a command  *)
(* of the host (handleMessage, called below USBDeviceTasks).  Both call    *)
(* uart_putc, with no lock: it waits for an empty shift register, writes   *)
(* TXREG and clears timeOutCounter, and the interrupt routine may run      *)
(* between any two of these steps of the main loop.  The interrupt routine *)
(* itself is never interrupted.                                            *)
(*                                                                         *)
(* A byte is abstracted to where it comes from: the context and the number *)
(* of the call or command it belongs to.                                   *)
(***************************************************************************)
EXTENDS Naturals, Sequences

CONSTANTS None,          \* an empty register
          MaxCalls,      \* bound: calls of the main loop and host commands
          MaxBytes,      \* longest host command, in bytes on the wire
          MaxTime        \* bound of timeOutCounter

Ctx  == {"main", "isr"}
Item == [from : Ctx, msg : 0..MaxCalls]

ASSUME UartAssumption ==
    /\ MaxCalls \in Nat /\ MaxBytes \in Nat \ {0} /\ MaxTime \in Nat
    /\ None \notin Item

VARIABLES TXREG,          \* the holding register
          TSR,            \* the shift register
          pc,             \* where each context is in uart_putc
          msg,            \* number of the next call or command
          cur,            \* the call or command each context is working on
          left,           \* bytes of the host command still to be sent
          timeOutCounter,
          written,        \* history: every byte written to TXREG, in order
          wire            \* history: every byte shifted out, in order

regs == <<TXREG, TSR>>
vars == <<TXREG, TSR, pc, msg, cur, left, timeOutCounter, written, wire>>

TRMT == TSR = None        \* the status bit: the shift register is empty

InFlight == IF TSR = None THEN <<>>
            ELSE IF TXREG = None THEN <<TSR>> ELSE <<TSR, TXREG>>

Init == /\ TXREG = None /\ TSR = None
        /\ pc = [c \in Ctx |-> "idle"]
        /\ msg = 0 /\ cur = [c \in Ctx |-> 0] /\ left = 0
        /\ timeOutCounter = 0
        /\ written = <<>> /\ wire = <<>>
-----------------------------------------------------------------------------
\* Faulty: commands leave the interrupt routine and are sent by a second task.
RunsDuringWait(c) == c = "main" => pc["isr"] \in {"idle", "wait"}

\* The processor executes the main loop only outside the interrupt routine.
Runs(c) == c = "main" => pc["isr"] = "idle"

Goto(c, label) == pc' = [pc EXCEPT ![c] = label]

\* The main loop has a byte to send.
MainSends == /\ Runs("main") /\ pc["main"] = "idle" /\ msg < MaxCalls
             /\ Goto("main", "wait")
             /\ cur' = [cur EXCEPT !["main"] = msg]
             /\ msg' = msg + 1
             /\ UNCHANGED <<TXREG, TSR, left, timeOutCounter, written, wire>>

\* A SET_REPORT completes: handleMessage sends the n bytes of a 'T' or 'S'.
HostCommand(n) == /\ pc["isr"] = "idle" /\ msg < MaxCalls
                  /\ Goto("isr", "wait")
                  /\ cur' = [cur EXCEPT !["isr"] = msg]
                  /\ msg' = msg + 1
                  /\ left' = n
                  /\ UNCHANGED <<TXREG, TSR, timeOutCounter, written, wire>>

\* Faulty: waits for TXIF, "TXREG is empty", as many drivers do.
SeesTXIF(c) == /\ Runs(c) /\ pc[c] = "wait" /\ TXREG = None
               /\ Goto(c, "write")
               /\ UNCHANGED <<TXREG, TSR, msg, cur, left, timeOutCounter, written, wire>>

\* Faulty: a lock around uart_putc, which the interrupt routine waits for.
SeesTRMTUnlocked(c) == /\ Runs(c) /\ pc[c] = "wait" /\ TRMT
                       /\ c = "isr" => pc["main"] = "idle"
                       /\ Goto(c, "write")
                       /\ UNCHANGED <<TXREG, TSR, msg, cur, left, timeOutCounter, written, wire>>

\* while(!TRMT);
SeesTRMT(c) == /\ Runs(c) /\ pc[c] = "wait" /\ TRMT
               /\ Goto(c, "write")
               /\ UNCHANGED <<TXREG, TSR, msg, cur, left, timeOutCounter, written, wire>>

\* TXREG = data;  an idle shift register takes the byte over at once.
LoadTXREG(x) == IF TSR = None THEN TSR' = x /\ UNCHANGED TXREG
                              ELSE TXREG' = x /\ UNCHANGED TSR

WritesTXREG(c) == /\ Runs(c) /\ pc[c] = "write"
                  /\ LET x == [from |-> c, msg |-> cur[c]]
                     IN  LoadTXREG(x) /\ written' = Append(written, x)
                  /\ Goto(c, "clear")
                  /\ UNCHANGED <<msg, cur, left, timeOutCounter, wire>>

\* Faulty: the loop counter of the command is taken down by every caller.
CountsEveryByte(c) == /\ Runs(c) /\ pc[c] = "clear"
                      /\ timeOutCounter' = 0
                      /\ left' = left - 1
                      /\ Goto(c, IF c = "isr" /\ left > 1 THEN "wait" ELSE "idle")
                      /\ UNCHANGED <<TXREG, TSR, msg, cur, written, wire>>

\* timeOutCounter=0;  then the loop of uart_puts or of the 'S' command goes on.
Returns(c) == /\ Runs(c) /\ pc[c] = "clear"
              /\ timeOutCounter' = 0
              /\ left' = IF c = "isr" THEN left - 1 ELSE left
              /\ Goto(c, IF c = "isr" /\ left > 1 THEN "wait" ELSE "idle")
              /\ UNCHANGED <<TXREG, TSR, msg, cur, written, wire>>

\* The hardware has sent the last bit of a byte.
ShiftsOut == /\ TSR # None
             /\ wire' = Append(wire, TSR)
             /\ TSR' = TXREG /\ TXREG' = None
             /\ UNCHANGED <<pc, msg, cur, left, timeOutCounter, written>>

\* timeOutCounter++ in updateState, between two calls.
Ages == /\ Runs("main") /\ pc["main"] = "idle" /\ timeOutCounter < MaxTime
        /\ timeOutCounter' = timeOutCounter + 1
        /\ UNCHANGED <<TXREG, TSR, pc, msg, cur, left, written, wire>>

Putc(c) == SeesTRMT(c) \/ WritesTXREG(c) \/ Returns(c)

Next == \/ MainSends
        \/ \E n \in 1..MaxBytes : HostCommand(n)
        \/ \E c \in Ctx : SeesTRMT(c)
        \/ \E c \in Ctx : WritesTXREG(c)
        \/ \E c \in Ctx : Returns(c)
        \/ ShiftsOut
        \/ Ages

Spec == Init /\ [][Next]_vars
-----------------------------------------------------------------------------
TypeOK == /\ TXREG \in Item \cup {None}
          /\ TSR \in Item \cup {None}
          /\ pc \in [Ctx -> {"idle", "wait", "write", "clear"}]
          /\ msg \in 0..MaxCalls /\ cur \in [Ctx -> 0..MaxCalls]
          /\ left \in 0..MaxBytes
          /\ timeOutCounter \in 0..MaxTime
          /\ written \in Seq(Item) /\ wire \in Seq(Item)

\* No byte is lost, doubled or overtaken on its way from TXREG to the wire,
\* although the wait for TRMT and the write of uart_putc can be torn apart by
\* an interrupt that sends a whole command in between.
NoByteLost == written = wire \o InFlight

\* The watch parses "F08:30" byte by byte: the bytes of one host command leave
\* the station next to each other, never with a key of the main loop inside.
Contiguous(s) == \A i, j, k \in 1..Len(s) :
                    /\ i < j /\ j < k
                    /\ s[i] = s[k] /\ s[i].from = "isr"
                    => s[j] = s[i]

CommandsContiguous == Contiguous(wire)

Line == INSTANCE SerialLine WITH accepted <- written, delivered <- wire

\* The two registers and the two unsynchronised senders implement the lossless
\* line of two bytes: whatever the watch sees, a line could have done.
ImplementsLine == Line!Spec

\* Every call of uart_putc returns, in both contexts: waiting for TRMT in the
\* interrupt routine cannot hang, even when the main loop was interrupted
\* between its own wait and its write.
CallsReturn == \A c \in Ctx : pc[c] # "idle" ~> pc[c] = "idle"
=============================================================================
