------------------------------- MODULE UartRx -------------------------------
(***************************************************************************)
(* The receiver of the base station beside its transmitter.  The interrupt *)
(* routine, ISRCode of firmware/cstbase-hid/main.c, first serves USB, which*)
(* may send a command to the watch and take 5 ms for each byte, and only   *)
(* then looks at RCIF, once.  What the watch says meanwhile waits in a     *)
(* FIFO of two bytes.  RCREG is read up to four times for one byte, and    *)
(* each read takes a byte out of the FIFO if there is one.                 *)
(*                                                                         *)
(* What a byte does to the LED and the supply is in ChargeControl, which   *)
(* hears one byte after another; here it is only told whether it is heard. *)
(* Both directions have the same rate: a byte comes in no sooner after     *)
(* another than the transmitter shifts one out.                            *)
(***************************************************************************)
EXTENDS UartTx

CONSTANTS Letters,        \* what the watch says
          MaxReceived     \* bound: bytes the watch sends

ASSUME ReceiverAssumption == MaxReceived \in Nat /\ Letters \subseteq STRING

VARIABLES fifo,           \* bytes received and not yet read
          RCREG,          \* what a read of an empty FIFO returns: the byte read last
          OERR,           \* overrun: nothing is received until CREN is cleared, which nothing does
          reads,          \* reads of RCREG made in the pass under way
          arrived,        \* a byte has come in this byte time
          received,       \* history: how many bytes the watch has sent
          lastRxByte,
          heard,          \* history: the bytes whose letter was recognised, in order
          alone           \* history: the byte received last, if no other came near it

rxVars  == <<fifo, RCREG, OERR, reads, arrived, received, lastRxByte, heard, alone>>
allVars == <<vars, rxVars>>

Byte == [n : 0..MaxReceived, says : Letters \cup {""}]
Nothing == [n |-> 0, says |-> ""]

\* the letters in the order in which ISRCode asks for them
Asked == <<"H", "B", "N">>

RxInit == /\ Init
          /\ fifo = <<>> /\ RCREG = Nothing /\ OERR = FALSE
          /\ reads = 0 /\ arrived = FALSE /\ received = 0
          /\ lastRxByte = Nothing /\ heard = <<>> /\ alone = Nothing
-----------------------------------------------------------------------------
\* RCIF; the interrupt routine is entered at once, unless it is under way.
RCIF == fifo # <<>>
Busy == pc["isr"] # "idle" \/ reads > 0

Arrives(letter) ==
    LET b == [n |-> received + 1, says |-> letter] IN
    /\ received < MaxReceived /\ received' = received + 1
    /\ IF Busy THEN ~arrived ELSE ~RCIF
    /\ arrived' = TRUE
    /\ OERR' = (OERR \/ Len(fifo) = 2)
    /\ fifo' = IF OERR' THEN fifo ELSE Append(fifo, b)
    /\ alone' = IF OERR' \/ RCIF \/ reads > 0 THEN Nothing ELSE b
    /\ UNCHANGED <<vars, RCREG, reads, lastRxByte, heard>>

\* What this read of RCREG returns
Read == IF RCIF THEN Head(fifo) ELSE RCREG
Reads == RCREG' = Read /\ fifo' = (IF RCIF THEN Tail(fifo) ELSE fifo)

\* Faulty: RCIF is not tested in a pass some other event has caused.
NotesUntested == /\ pc["isr"] = "idle" /\ reads = 0
                 /\ Reads /\ lastRxByte' = Read /\ reads' = 1
                 /\ UNCHANGED <<vars, OERR, arrived, received, heard, alone>>

\* lastRxByte = RCREG;  after USBDeviceTasks has returned
NotesByte == /\ pc["isr"] = "idle" /\ reads = 0 /\ RCIF
             /\ Reads /\ lastRxByte' = Read /\ reads' = 1
             /\ UNCHANGED <<vars, OERR, arrived, received, heard, alone>>

\* if(RCREG=='H') ... else if(RCREG=='B') ... else if(RCREG=='N') ...
Compares == /\ reads > 0 /\ Reads
            /\ LET hit == Read.says = Asked[reads]
                   ends == hit \/ reads = 3
               IN  /\ reads' = IF ends THEN 0 ELSE reads + 1
                   /\ arrived' = (arrived /\ ~ends)
                   /\ heard' = IF hit THEN Append(heard, Read) ELSE heard
                   /\ timeOutCounter' = IF hit /\ Read.says = "H" THEN 0 ELSE timeOutCounter
            /\ UNCHANGED <<TXREG, TSR, pc, msg, cur, left, written, wire>>
            /\ UNCHANGED <<OERR, received, lastRxByte, alone>>

\* The transmitter: its calls go on only while no byte is being compared.
Transmits == /\ reads = 0
             /\ \/ MainSends \/ Ages
                \/ \E n \in 1..MaxBytes : HostCommand(n)
                \/ \E c \in Ctx : Putc(c)
             /\ UNCHANGED rxVars

ByteTime == /\ ShiftsOut /\ arrived' = FALSE
            /\ UNCHANGED <<fifo, RCREG, OERR, reads, received, lastRxByte, heard, alone>>

RxNext == (\E letter \in Letters : Arrives(letter)) \/ NotesByte \/ Compares \/ Transmits \/ ByteTime

\* As in UartTx, and the interrupt routine is entered while RCIF is set.
RxSpec == /\ RxInit /\ [][RxNext]_allVars
          /\ WF_allVars(ByteTime) /\ WF_allVars(NotesByte \/ Compares)
          /\ \A c \in Ctx : WF_allVars(reads = 0 /\ Putc(c) /\ UNCHANGED rxVars)
-----------------------------------------------------------------------------
RxTypeOK == /\ fifo \in Seq(Byte) /\ Len(fifo) <= 2 /\ {RCREG, lastRxByte, alone} \subseteq Byte
            /\ OERR \in BOOLEAN /\ reads \in 0..3 /\ arrived \in BOOLEAN
            /\ received \in 0..MaxReceived /\ heard \in Seq(Byte)

\* However the four reads of RCREG fall, no byte is heard twice or after a later
\* one; and a byte no other came near, neither while it waited nor while it was
\* compared, is heard if it is a letter, and is what the host gets for the last
\* byte.  Of two that come together the first may be missed, and after an overrun
\* the station is deaf.
HeardUnlessCrowded ==
    /\ RxTypeOK
    /\ \A i, j \in DOMAIN heard : i < j => heard[i].n < heard[j].n
    /\ alone # Nothing /\ reads = 0 /\ ~RCIF =>
          /\ lastRxByte = alone
          /\ alone.says \in {"H", "B", "N"} => heard # <<>> /\ heard[Len(heard)] = alone

\* Every call of uart_putc returns, and every byte in the FIFO is looked at: the
\* commands of the host hold the receiver up, but not for ever.
AllServed == /\ CallsReturn
             /\ RCIF ~> ~RCIF /\ reads = 0
=============================================================================
