----------------------------- MODULE UartProofs -----------------------------
(***************************************************************************)
(* The transmitter loses no byte and keeps the commands of the host in one *)
(* piece, for any number and length of calls and commands, alone and beside*)
(* the receiver; and the receiver hears what comes alone, for any number of*)
(* bytes and any letters.                                                  *)
(***************************************************************************)
EXTENDS UartRx, SequenceTheorems, TLAPS

\* A context about to write relies on what it saw; the other one must not have
\* taken that away.
Registers == /\ TSR = None => TXREG = None
             /\ pc["main"] = "write" => TXREG = None
             /\ pc["isr"] = "write" => TSR = None

Loop == pc["isr"] # "idle" => left > 0

IsrByte == [from |-> "isr", msg |-> cur["isr"]]

\* Numbers of calls are used once, and the command being sent is at the end.
Numbers == /\ \A i \in 1..Len(written) : written[i].msg < msg
           /\ \A c \in Ctx : pc[c] # "idle" => cur[c] < msg
           /\ pc["isr"] # "idle" =>
                \A i, j \in 1..Len(written) :
                   i < j /\ written[i] = IsrByte => written[j] = IsrByte

IInv == TypeOK /\ Registers /\ Loop /\ NoByteLost /\ Numbers /\ Contiguous(written)
-----------------------------------------------------------------------------
\* An idle transmitter satisfies the invariant.
LEMMA InitOK == Init => IInv
  BY UartAssumption
  DEF Init, IInv, TypeOK, Registers, Loop, NoByteLost, Numbers, Contiguous, InFlight, Ctx

\* The states of the two contexts, step by step.
LEMMA TypeStep == ASSUME IInv, [Next]_vars PROVE TypeOK'
  <1> USE UartAssumption DEF IInv, TypeOK, Loop, Ctx, Goto
  <1>1. CASE MainSends
    BY <1>1 DEF MainSends
  <1>2. ASSUME NEW n \in 1..MaxBytes, HostCommand(n) PROVE TypeOK'
    BY <1>2 DEF HostCommand
  <1>3. ASSUME NEW c \in Ctx, SeesTRMT(c) PROVE TypeOK'
    BY <1>3 DEF SeesTRMT
  <1>4. ASSUME NEW c \in Ctx, WritesTXREG(c) PROVE TypeOK'
    <2> DEFINE x == [from |-> c, msg |-> cur[c]]
    <2>1. x \in Item
      BY DEF Item
    <2>2. written' \in Seq(Item)
      BY <1>4, <2>1, AppendProperties DEF WritesTXREG
    <2>3. TSR' \in Item \cup {None} /\ TXREG' \in Item \cup {None}
      BY <1>4, <2>1 DEF WritesTXREG, LoadTXREG
    <2> QED  BY <1>4, <2>2, <2>3 DEF WritesTXREG
  <1>5. ASSUME NEW c \in Ctx, Returns(c) PROVE TypeOK'
    <2>1. CASE c = "isr"
      <3>1. left > 0
        BY <1>5, <2>1 DEF Returns
      <3> QED  BY <1>5, <2>1, <3>1 DEF Returns
    <2>2. CASE c = "main"
      BY <1>5, <2>2 DEF Returns
    <2> QED  BY <2>1, <2>2
  <1>6. CASE ShiftsOut
    <2>1. wire' \in Seq(Item)
      BY <1>6, AppendProperties DEF ShiftsOut
    <2> QED  BY <1>6, <2>1 DEF ShiftsOut
  <1>7. CASE Ages
    BY <1>7 DEF Ages
  <1>8. CASE UNCHANGED vars
    BY <1>8 DEF vars
  <1> QED  BY <1>1, <1>2, <1>3, <1>4, <1>5, <1>6, <1>7, <1>8 DEF Next

\* What a context has seen still holds when it writes, and a command under way has bytes left.
LEMMA RegistersStep == ASSUME IInv, [Next]_vars PROVE Registers' /\ Loop'
  <1> USE UartAssumption DEF IInv, TypeOK, Loop, Registers, Ctx, Goto, Runs
  <1>1. CASE MainSends
    BY <1>1 DEF MainSends
  <1>2. ASSUME NEW n \in 1..MaxBytes, HostCommand(n) PROVE Registers' /\ Loop'
    BY <1>2 DEF HostCommand
  <1>3. ASSUME NEW c \in Ctx, SeesTRMT(c) PROVE Registers' /\ Loop'
    BY <1>3 DEF SeesTRMT, TRMT
  <1>4. ASSUME NEW c \in Ctx, WritesTXREG(c) PROVE Registers' /\ Loop'
    <2> DEFINE x == [from |-> c, msg |-> cur[c]]
    <2>1. x \in Item /\ x # None
      BY DEF Item
    <2>2. CASE c = "isr"
      BY <1>4, <2>1, <2>2 DEF WritesTXREG, LoadTXREG
    <2>3. CASE c = "main"
      BY <1>4, <2>1, <2>3 DEF WritesTXREG, LoadTXREG
    <2> QED  BY <2>2, <2>3
  <1>5. ASSUME NEW c \in Ctx, Returns(c) PROVE Registers' /\ Loop'
    <2>1. CASE c = "isr"
      BY <1>5, <2>1 DEF Returns
    <2>2. CASE c = "main"
      BY <1>5, <2>2 DEF Returns
    <2> QED  BY <2>1, <2>2
  <1>6. CASE ShiftsOut
    BY <1>6 DEF ShiftsOut
  <1>7. CASE Ages
    BY <1>7 DEF Ages
  <1>8. CASE UNCHANGED vars
    BY <1>8 DEF vars
  <1> QED  BY <1>1, <1>2, <1>3, <1>4, <1>5, <1>6, <1>7, <1>8 DEF Next

\* Three sequences may be joined from either end.
LEMMA Associative == \A a, b, c \in Seq(Item) : (a \o b) \o c = a \o (b \o c)
  BY ConcatAssociative

\* Whatever is written stays in order: TXREG is free when it is loaded.
LEMMA LineStep == ASSUME IInv, [Next]_vars PROVE NoByteLost'
  <1> USE UartAssumption DEF IInv, TypeOK, Ctx, Goto, Runs
  <1>0. /\ None \notin Item /\ InFlight \in Seq(Item)
        /\ written \in Seq(Item) /\ wire \in Seq(Item)
    BY DEF InFlight
  <1>1. CASE MainSends
    BY <1>1 DEF MainSends, NoByteLost, InFlight
  <1>2. ASSUME NEW n \in 1..MaxBytes, HostCommand(n) PROVE NoByteLost'
    BY <1>2 DEF HostCommand, NoByteLost, InFlight
  <1>3. ASSUME NEW c \in Ctx, SeesTRMT(c) PROVE NoByteLost'
    BY <1>3 DEF SeesTRMT, NoByteLost, InFlight
  <1>4. ASSUME NEW c \in Ctx, WritesTXREG(c) PROVE NoByteLost'
    <2> DEFINE x == [from |-> c, msg |-> cur[c]]
    <2>1. x \in Item /\ x # None
      BY <1>0 DEF Item
    <2>2. written' = written \o <<x>> /\ wire' = wire /\ <<x>> \in Seq(Item)
      BY <1>0, <1>4, <2>1, AppendIsConcat DEF WritesTXREG
    <2>3. TXREG = None
      BY <1>4 DEF WritesTXREG, Registers
    <2>4. InFlight' = InFlight \o <<x>>
      <3>1. CASE TSR = None
        BY <1>4, <2>1, <2>3, <3>1 DEF WritesTXREG, LoadTXREG, InFlight
      <3>2. CASE TSR # None
        BY <1>4, <2>1, <2>3, <3>2 DEF WritesTXREG, LoadTXREG, InFlight
      <3> QED  BY <3>1, <3>2
    <2>5. (wire \o InFlight) \o <<x>> = wire \o (InFlight \o <<x>>)
      <3>1. wire \in Seq(Item) /\ InFlight \in Seq(Item) /\ <<x>> \in Seq(Item)
        BY <1>0, <2>2
      <3> QED  BY <3>1, Associative
    <2> QED  BY <2>2, <2>4, <2>5 DEF NoByteLost
  <1>5. ASSUME NEW c \in Ctx, Returns(c) PROVE NoByteLost'
    BY <1>5 DEF Returns, NoByteLost, InFlight
  <1>6. CASE ShiftsOut
    <2>1. /\ TSR \in Item /\ wire' = wire \o <<TSR>> /\ written' = written
          /\ <<TSR>> \in Seq(Item)
      BY <1>0, <1>6, AppendIsConcat DEF ShiftsOut
    <2>2. InFlight = <<TSR>> \o InFlight' /\ InFlight' \in Seq(Item)
      <3>1. CASE TXREG = None
        BY <1>0, <1>6, <3>1 DEF ShiftsOut, InFlight
      <3>2. CASE TXREG # None
        BY <1>0, <1>6, <3>2 DEF ShiftsOut, InFlight
      <3> QED  BY <3>1, <3>2
    <2>3. (wire \o <<TSR>>) \o InFlight' = wire \o (<<TSR>> \o InFlight')
      BY <1>0, <2>1, <2>2, Associative
    <2> QED  BY <2>1, <2>2, <2>3 DEF NoByteLost
  <1>7. CASE Ages
    BY <1>7 DEF Ages, NoByteLost, InFlight
  <1>8. CASE UNCHANGED vars
    BY <1>8 DEF vars, NoByteLost, InFlight
  <1> QED  BY <1>1, <1>2, <1>3, <1>4, <1>5, <1>6, <1>7, <1>8 DEF Next

\* Only a command under way adds to itself, and nobody adds behind it meanwhile.
LEMMA NumbersStep == ASSUME IInv, [Next]_vars PROVE Numbers' /\ Contiguous(written)'
  <1>0. /\ Len(written) \in Nat /\ Numbers /\ Contiguous(written)
        /\ msg \in Nat /\ cur \in [Ctx -> Nat]
        /\ pc \in [Ctx -> {"idle", "wait", "write", "clear"}]
        /\ \A i \in 1..Len(written) : written[i] \in Item /\ written[i].msg \in Nat
    <2>1. written \in Seq(Item) /\ Len(written) \in Nat /\ \A i \in 1..Len(written) : written[i] \in Item
      BY LenProperties, ElementOfSeq DEF IInv, TypeOK
    <2>2. 0..MaxCalls \subseteq Nat /\ \A x \in Item : x.msg \in 0..MaxCalls
      BY UartAssumption DEF Item
    <2>3. /\ Numbers /\ Contiguous(written) /\ msg \in 0..MaxCalls /\ cur \in [Ctx -> 0..MaxCalls]
          /\ pc \in [Ctx -> {"idle", "wait", "write", "clear"}]
      BY DEF IInv, TypeOK
    <2> QED  BY <2>1, <2>2, <2>3
  <1> USE DEF Ctx, Goto, Runs
  <1>1. CASE MainSends
    <2>1. /\ written' = written /\ msg' = msg + 1 /\ cur'["isr"] = cur["isr"]
          /\ pc["isr"] = "idle" /\ pc'["isr"] = "idle" /\ cur'["main"] = msg
      BY <1>0, <1>1 DEF MainSends
    <2>2. \A i \in 1..Len(written) : written[i].msg < msg + 1
      BY <1>0 DEF Numbers
    <2>3. \A d \in Ctx : pc'[d] # "idle" => cur'[d] < msg'
      BY <1>0, <2>1 DEF Numbers
    <2>4. Numbers'
      BY <2>1, <2>2, <2>3 DEF Numbers
    <2> QED  BY <1>0, <2>1, <2>4 DEF Contiguous
  <1>2. ASSUME NEW n \in 1..MaxBytes, HostCommand(n) PROVE Numbers' /\ Contiguous(written)'
    <2>1. /\ written' = written /\ msg' = msg + 1 /\ cur'["main"] = cur["main"]
          /\ pc'["main"] = pc["main"] /\ cur'["isr"] = msg
      BY <1>0, <1>2 DEF HostCommand
    <2>2. \A i \in 1..Len(written) : written[i].msg < msg + 1 /\ written[i].msg # msg
      BY <1>0 DEF Numbers
    <2>3. \A d \in Ctx : pc'[d] # "idle" => cur'[d] < msg'
      BY <1>0, <2>1 DEF Numbers
    <2>4. \A i \in 1..Len(written) : written[i] # IsrByte'
      BY <2>1, <2>2 DEF IsrByte
    <2> QED  BY <1>0, <2>1, <2>2, <2>3, <2>4 DEF Numbers, Contiguous
  <1>3. ASSUME NEW c \in Ctx, SeesTRMT(c) PROVE Numbers' /\ Contiguous(written)'
    BY <1>0, <1>3 DEF SeesTRMT, Numbers, IsrByte, Contiguous
  <1>4. ASSUME NEW c \in Ctx, WritesTXREG(c) PROVE Numbers' /\ Contiguous(written)'
    <2> DEFINE x == [from |-> c, msg |-> cur[c]]
    <2>1. x \in Item /\ written \in Seq(Item)
      BY DEF IInv, TypeOK, Item
    <2>2. /\ Len(written') = Len(written) + 1
          /\ written'[Len(written) + 1] = x
          /\ \A i \in 1..Len(written) : written'[i] = written[i]
      BY <1>4, <2>1, AppendProperties DEF WritesTXREG
    <2>3. cur' = cur /\ msg' = msg /\ cur[c] < msg /\ (c = "main" => pc'["isr"] = "idle")
      BY <1>0, <1>4 DEF WritesTXREG, Numbers
    <2>4. \A i \in 1..Len(written') : written'[i].msg < msg'
      <3>1. \A i \in 1..Len(written) : written[i].msg < msg
        BY <1>0 DEF Numbers
      <3>2. x.msg < msg
        BY <2>3
      <3> QED  BY <1>0, <2>2, <2>3, <3>1, <3>2
    <2>5. \A d \in Ctx : pc'[d] # "idle" => cur'[d] < msg'
      BY <1>0, <1>4, <2>3 DEF WritesTXREG, Numbers
    <2>6. ASSUME NEW i \in 1..Len(written), c = "isr", written[i] = IsrByte
          PROVE  \A j \in 1..Len(written) : i < j => written[j] = IsrByte
      BY <1>0, <1>4, <2>6 DEF WritesTXREG, Numbers
    <2>7. pc'["isr"] # "idle" =>
             \A i, j \in 1..Len(written') : i < j /\ written'[i] = IsrByte' => written'[j] = IsrByte'
      <3>1. CASE c = "main"
        BY <2>3, <3>1
      <3>2. CASE c = "isr"
        <4>1. IsrByte' = IsrByte /\ x = IsrByte
          BY <2>3, <3>2 DEF IsrByte
        <4> SUFFICES ASSUME NEW i \in 1..Len(written'), NEW j \in 1..Len(written'),
                            i < j, written'[i] = IsrByte
                     PROVE  written'[j] = IsrByte
          BY <4>1
        <4>2. i \in 1..Len(written) /\ written[i] = IsrByte
          BY <1>0, <2>2
        <4>3. CASE j \in 1..Len(written)
          BY <2>2, <2>6, <3>2, <4>2, <4>3
        <4>4. CASE j = Len(written) + 1
          BY <2>2, <4>1, <4>4
        <4>5. j \in 1..Len(written) \/ j = Len(written) + 1
          <5> HIDE DEF x
          <5> QED  BY <1>0, <2>2
        <4> QED  BY <4>3, <4>4, <4>5
      <3> QED  BY <3>1, <3>2
    <2>8. Contiguous(written)'
      <3> SUFFICES ASSUME NEW i \in 1..Len(written'), NEW j \in 1..Len(written'),
                          NEW k \in 1..Len(written'),
                          i < j, j < k, written'[i] = written'[k], written'[i].from = "isr"
                   PROVE  written'[j] = written'[i]
        BY DEF Contiguous
      <3>1. i \in 1..Len(written) /\ j \in 1..Len(written)
        BY <1>0, <2>2
      <3>2. CASE k \in 1..Len(written)
        BY <1>0, <2>2, <3>1, <3>2 DEF Contiguous
      <3>3. CASE k = Len(written) + 1
        BY <2>2, <2>6, <3>1, <3>3 DEF IsrByte
      <3> QED  BY <1>0, <2>2, <3>2, <3>3
    <2> QED  BY <2>4, <2>5, <2>7, <2>8 DEF Numbers
  <1>5. ASSUME NEW c \in Ctx, Returns(c) PROVE Numbers' /\ Contiguous(written)'
    BY <1>0, <1>5 DEF Returns, Numbers, IsrByte, Contiguous
  <1>6. CASE ShiftsOut
    BY <1>0, <1>6 DEF ShiftsOut, Numbers, IsrByte, Contiguous
  <1>7. CASE Ages
    BY <1>0, <1>7 DEF Ages, Numbers, IsrByte, Contiguous
  <1>8. CASE UNCHANGED vars
    BY <1>0, <1>8 DEF vars, Numbers, IsrByte, Contiguous
  <1> QED  BY <1>1, <1>2, <1>3, <1>4, <1>5, <1>6, <1>7, <1>8 DEF Next
-----------------------------------------------------------------------------
\* A whole command stays in one piece while it goes from written to wire.
LEMMA Neighbours == ASSUME IInv PROVE CommandsContiguous
  <1>1. wire \in Seq(Item) /\ InFlight \in Seq(Item) /\ written = wire \o InFlight
    BY DEF IInv, TypeOK, NoByteLost, InFlight
  <1>2. /\ Len(wire) \in Nat /\ Len(InFlight) \in Nat
        /\ Len(written) = Len(wire) + Len(InFlight)
        /\ \A i \in 1..Len(wire) : written[i] = wire[i]
    BY <1>1, LenProperties, ConcatProperties
  <1>3. Contiguous(written)
    BY DEF IInv
  <1>4. 1..Len(wire) \subseteq 1..Len(written)
    BY <1>2
  <1> QED  BY <1>2, <1>3, <1>4 DEF CommandsContiguous, Contiguous

\* A write of TXREG is an Accept, a byte shifted out a Deliver, all else a stutter.
LEMMA LineMap == ASSUME IInv, [Next]_vars PROVE [Line!Next]_(Line!lineVars)
  <1> USE DEF IInv, TypeOK
  <1>0. /\ wire \in Seq(Item) /\ InFlight \in Seq(Item)
        /\ Len(wire) \in Nat /\ Len(InFlight) \in Nat
        /\ Len(written) = Len(wire) + Len(InFlight)
        /\ InFlight # <<>> => written[Len(wire) + 1] = InFlight[1]
    BY LenProperties, ConcatProperties, EmptySeq DEF NoByteLost, InFlight
  <1>1. ASSUME NEW c \in Ctx, WritesTXREG(c) PROVE Line!Next
    <2> DEFINE x == [from |-> c, msg |-> cur[c]]
    <2>1. TXREG = None
      BY <1>1 DEF WritesTXREG, Registers, Ctx
    <2>2. Len(InFlight) < 2
      BY <2>1 DEF InFlight
    <2>3. x \in Item
      BY <1>1 DEF Item
    <2>4. Line!Accept(x)
      BY <1>0, <1>1, <2>2 DEF WritesTXREG, Line!Accept
    <2> QED  BY <2>3, <2>4 DEF Line!Next
  <1>2. CASE ShiftsOut
    <2>1. InFlight # <<>> /\ InFlight[1] = TSR /\ Len(InFlight) > 0
      BY <1>2 DEF ShiftsOut, InFlight
    <2> QED  BY <1>0, <1>2, <2>1 DEF ShiftsOut, Line!Next, Line!Deliver
  <1>3. CASE UNCHANGED <<written, wire>>
    BY <1>3 DEF Line!lineVars
  <1>4. \/ \E c \in Ctx : WritesTXREG(c)
        \/ ShiftsOut
        \/ UNCHANGED <<written, wire>>
    BY DEF Next, MainSends, HostCommand, SeesTRMT, Returns, Ages, vars
  <1> QED  BY <1>1, <1>2, <1>3, <1>4
-----------------------------------------------------------------------------
\* Nothing is lost and the registers are in order, whichever context sends.
THEOREM Invariance == Spec => []IInv
  <1>1. IInv /\ [Next]_vars => IInv'
    BY TypeStep, RegistersStep, LineStep, NumbersStep DEF IInv
  <1> QED  BY InitOK, <1>1, PTL DEF Spec

\* The registers, the loop counter and the histories keep their types: left
\* never runs below zero although both contexts share uart_putc.
THEOREM TypeCorrect == Spec => []TypeOK
  <1>1. IInv => TypeOK
    BY DEF IInv
  <1> QED  BY <1>1, Invariance, PTL

\* No byte handed to uart_putc is lost between TXREG and the wire.
THEOREM NothingLost == Spec => []NoByteLost
  <1>1. IInv => NoByteLost
    BY DEF IInv
  <1> QED  BY <1>1, Invariance, PTL

\* The bytes of a host command are neighbours on the wire.
THEOREM CommandsStayTogether == Spec => []CommandsContiguous
  BY Neighbours, Invariance, PTL

\* Step by step the two registers do what the lossless line may do.
THEOREM LineImplemented == Spec => ImplementsLine
  <1>1. Init => Line!Init
    BY DEF Init, Line!Init
  <1> QED  BY <1>1, LineMap, Invariance, PTL DEF Spec, ImplementsLine, Line!Spec
-----------------------------------------------------------------------------
\* The numbers of the bytes on their way: what was read last is older than what
\* waits, and what waits is in order.
Ordered == /\ \A i \in 1..Len(fifo) : RCREG.n < fifo[i].n /\ fifo[i].n <= received
           /\ \A i, j \in 1..Len(fifo) : i < j => fifo[i].n < fifo[j].n
           /\ RCREG.n <= received

\* A pass reads a byte that is younger than all that were heard before it, and
\* ends when it has heard one.
Heard == /\ \A i, j \in 1..Len(heard) : i < j => heard[i].n < heard[j].n
         /\ \A i \in 1..Len(heard) : IF reads > 0 THEN heard[i].n < RCREG.n
                                                ELSE heard[i].n <= RCREG.n

\* A byte no other came near waits alone, or is what every read returns from
\* the first on, and has not been one of the letters asked for so far.
Lone == alone # Nothing =>
          \/ fifo = <<alone>> /\ reads = 0
          \/ /\ fifo = <<>> /\ RCREG = alone /\ lastRxByte = alone
             /\ \A k \in 1..3 : k < reads => alone.says # Asked[k]
             /\ reads = 0 /\ alone.says \in {"H", "B", "N"} =>
                   heard # <<>> /\ heard[Len(heard)] = alone

RxIInv == RxTypeOK /\ Ordered /\ Heard /\ Lone

\* All the transmitter sees of the receiver: a letter 'H' clears timeOutCounter.
Refreshes == timeOutCounter' = 0 /\ UNCHANGED <<TXREG, TSR, pc, msg, cur, left, written, wire>>

\* Beside the receiver the transmitter takes its own steps, or is refreshed.
LEMMA TxPart == ASSUME [RxNext]_allVars PROVE [Next]_vars \/ Refreshes
  <1>1. CASE \E letter \in Letters : Arrives(letter)
    BY <1>1 DEF Arrives
  <1>2. CASE NotesByte
    BY <1>2 DEF NotesByte
  <1>3. CASE Compares
    BY <1>3 DEF Compares, vars, Refreshes
  <1>4. CASE Transmits
    BY <1>4 DEF Transmits, Next, Putc
  <1>5. CASE ByteTime
    BY <1>5 DEF ByteTime, Next
  <1>6. CASE UNCHANGED allVars
    BY <1>6 DEF allVars
  <1> QED  BY <1>1, <1>2, <1>3, <1>4, <1>5, <1>6 DEF RxNext

LEMMA ByteNumber == \A b \in Byte : b.n \in Nat /\ b.n <= MaxReceived
  <1>1. MaxReceived \in Nat
    BY ReceiverAssumption
  <1>2. \A b \in Byte : b.n \in 0..MaxReceived
    BY DEF Byte
  <1> QED  BY <1>1, <1>2

LEMMA NothingIsByte == Nothing \in Byte /\ Nothing.n = 0
  <1>1. MaxReceived \in Nat
    BY ReceiverAssumption
  <1> QED  BY <1>1 DEF Byte, Nothing

LEMMA RxStarts == RxInit => RxIInv
  <1>1. MaxReceived \in Nat /\ <<>> \in Seq(Byte) /\ Len(<<>>) = 0
    BY ReceiverAssumption, EmptySeq
  <1>2. Nothing \in Byte /\ Nothing.n = 0
    BY NothingIsByte
  <1>3. RxInit => RxTypeOK
    <2> SUFFICES ASSUME RxInit PROVE RxTypeOK
      OBVIOUS
    <2>1. fifo \in Seq(Byte) /\ Len(fifo) <= 2 /\ heard \in Seq(Byte)
      BY <1>1 DEF RxInit
    <2>2. {RCREG, lastRxByte, alone} \subseteq Byte
      BY <1>2 DEF RxInit
    <2>3. received \in 0..MaxReceived /\ reads \in 0..3
      BY <1>1 DEF RxInit
    <2>4. OERR \in BOOLEAN /\ arrived \in BOOLEAN
      BY DEF RxInit
    <2> QED  BY <2>1, <2>2, <2>3, <2>4 DEF RxTypeOK
  <1>4. RxInit => Ordered /\ Heard /\ Lone
    BY <1>1, <1>2 DEF RxInit, Ordered, Heard, Lone
  <1> QED  BY <1>3, <1>4 DEF RxIInv

\* A read of RCREG takes the oldest byte, or the last one again.
LEMMA ReadStep ==
    ASSUME RxTypeOK, Ordered, Reads, received' = received
    PROVE  /\ RCREG' \in Byte /\ RCREG' = Read
           /\ fifo' \in Seq(Byte) /\ Len(fifo') <= 2
           /\ RCIF => RCREG.n < RCREG'.n
           /\ ~RCIF => RCREG' = RCREG /\ fifo' = <<>>
           /\ Ordered'
  <1>0. /\ fifo \in Seq(Byte) /\ Len(fifo) \in Nat /\ Len(fifo) <= 2 /\ RCREG \in Byte
        /\ \A i \in 1..Len(fifo) : fifo[i] \in Byte
    BY LenProperties, ElementOfSeq DEF RxTypeOK
  <1>1. CASE RCIF
    <2>1. /\ RCREG' = fifo[1] /\ RCREG' = Read /\ fifo' = Tail(fifo)
      BY <1>1 DEF Reads, Read, RCIF
    <2>2. /\ fifo' \in Seq(Byte) /\ Len(fifo') = Len(fifo) - 1
          /\ \A i \in 1..Len(fifo') : fifo'[i] = fifo[i + 1]
          /\ Len(fifo) > 0
      BY <1>0, <1>1, <2>1, HeadTailProperties, EmptySeq DEF RCIF
    <2>3. RCREG' \in Byte /\ RCREG.n < RCREG'.n /\ RCREG'.n <= received
      <3>1. 1 \in 1..Len(fifo)
        BY <1>0, <2>2
      <3> QED  BY <1>0, <2>1, <3>1 DEF Ordered
    <2>4. \A i \in 1..Len(fifo') : RCREG'.n < fifo'[i].n /\ fifo'[i].n <= received
      <3> SUFFICES ASSUME NEW i \in 1..Len(fifo')
                   PROVE  RCREG'.n < fifo'[i].n /\ fifo'[i].n <= received
        OBVIOUS
      <3>1. 1 \in 1..Len(fifo) /\ i + 1 \in 1..Len(fifo) /\ 1 < i + 1
        BY <1>0, <2>2
      <3> QED  BY <2>1, <2>2, <3>1 DEF Ordered
    <2>5. \A i, j \in 1..Len(fifo') : i < j => fifo'[i].n < fifo'[j].n
      BY <1>0, <2>2 DEF Ordered
    <2> QED  BY <1>0, <1>1, <2>1, <2>2, <2>3, <2>4, <2>5 DEF Ordered
  <1>2. CASE ~RCIF
    BY <1>0, <1>2 DEF Reads, Read, RCIF, Ordered
  <1> QED  BY <1>1, <1>2

\* A new byte is younger than all others, and it is alone if nothing waits and
\* no pass is under way.
LEMMA ArrivesStep == ASSUME RxIInv, NEW letter \in Letters, Arrives(letter) PROVE RxIInv'
  <1> DEFINE b == [n |-> received + 1, says |-> letter]
  <1>0. /\ fifo \in Seq(Byte) /\ Len(fifo) \in Nat /\ Len(fifo) <= 2
        /\ \A i \in 1..Len(fifo) : fifo[i] \in Byte
    BY LenProperties, ElementOfSeq DEF RxIInv, RxTypeOK
  <1>a. Len(fifo) # 2 => Len(fifo) < 2
    <2>1. \A x \in Nat : x <= 2 /\ x # 2 => x < 2
      OBVIOUS
    <2> QED  BY <1>0, <2>1, Zenon
  <1> USE DEF RxIInv, RxTypeOK
  <1>1. /\ received' = received + 1 /\ received' \in 0..MaxReceived
        /\ b \in Byte /\ b # Nothing /\ Nothing \in Byte
    <2>1. MaxReceived \in Nat
      BY ReceiverAssumption
    <2>2. received' = received + 1 /\ received' \in 0..MaxReceived
      BY <2>1 DEF Arrives
    <2>3. b \in Byte
      BY <2>2 DEF Byte
    <2>5. Nothing \in Byte
      BY <2>1, NothingIsByte
    <2>4. b.n # Nothing.n
      BY <2>1 DEF Nothing
    <2> QED  BY <2>2, <2>3, <2>4, <2>5
  <1>2. UNCHANGED <<RCREG, reads, lastRxByte, heard>> /\ arrived' \in BOOLEAN /\ OERR' \in BOOLEAN
    BY DEF Arrives
  <1>3. \/ UNCHANGED fifo /\ OERR'
        \/ Len(fifo) < 2 /\ ~OERR' /\ fifo' = Append(fifo, b)
    <2>1. /\ fifo' = IF OERR' THEN fifo ELSE Append(fifo, b)
          /\ OERR' = (OERR \/ Len(fifo) = 2)
      BY DEF Arrives
    <2>2. CASE OERR'
      BY <2>1, <2>2
    <2>3. CASE ~OERR'
      <3>1. fifo' = Append(fifo, b)
        BY <2>1, <2>3, Zenon
      <3>2. Len(fifo) # 2
        BY <2>1, <2>3, Zenon
      <3>3. Len(fifo) < 2
        BY <1>a, <3>2, Zenon
      <3> QED  BY <2>3, <3>1, <3>3, Zenon
    <2> QED  BY <2>2, <2>3
  <1>4. CASE UNCHANGED fifo /\ OERR'
    <2>1. alone' = Nothing
      BY <1>4 DEF Arrives
    <2>2. RxTypeOK' /\ Ordered'
      BY <1>0, <1>1, <1>2, <1>4, <2>1, ByteNumber DEF Ordered
    <2> QED  BY <1>2, <2>1, <2>2 DEF Heard, Lone
  <1>5. CASE Len(fifo) < 2 /\ ~OERR' /\ fifo' = Append(fifo, b)
    <2>1. /\ fifo' \in Seq(Byte) /\ Len(fifo') = Len(fifo) + 1
          /\ \A i \in 1..Len(fifo) : fifo'[i] = fifo[i]
          /\ fifo'[Len(fifo) + 1] = b
      BY <1>0, <1>1, <1>5, AppendProperties
    <2>2. alone' = IF RCIF \/ reads > 0 THEN Nothing ELSE b
      BY <1>5 DEF Arrives
    <2>3. RxTypeOK'
      BY <1>0, <1>1, <1>2, <1>5, <2>1, <2>2
    <2>4. Ordered'
      <3>1. RCREG.n \in Nat /\ received \in Nat /\ b.n = received + 1
        BY <1>1, ByteNumber
      <3>2. \A i \in 1..Len(fifo) : fifo[i].n \in Nat
        BY <1>0, ByteNumber
      <3>3. \A i \in 1..Len(fifo') : RCREG'.n < fifo'[i].n /\ fifo'[i].n <= received'
        BY <1>0, <1>1, <1>2, <2>1, <3>1, <3>2 DEF Ordered
      <3>4. \A i, j \in 1..Len(fifo') : i < j => fifo'[i].n < fifo'[j].n
        BY <1>0, <1>1, <2>1, <3>1, <3>2 DEF Ordered
      <3> QED  BY <1>1, <1>2, <3>1, <3>3, <3>4 DEF Ordered
    <2>5. Lone'
      <3>1. CASE RCIF \/ reads > 0
        BY <2>2, <3>1 DEF Lone
      <3>2. CASE ~RCIF /\ reads = 0
        BY <1>2, <1>5, <2>2, <3>2 DEF Lone, RCIF
      <3> QED  BY <3>1, <3>2
    <2> QED  BY <1>2, <2>3, <2>4, <2>5 DEF Heard
  <1> QED  BY <1>3, <1>4, <1>5

\* The pass begins with a byte younger than all that were heard.
LEMMA NotesStep == ASSUME RxIInv, NotesByte PROVE RxIInv'
  <1> USE DEF RxIInv, RxTypeOK
  <1>1. /\ Reads /\ received' = received /\ RCIF /\ reads = 0 /\ reads' = 1
        /\ lastRxByte' = Read /\ UNCHANGED <<OERR, arrived, heard, alone>>
    BY DEF NotesByte
  <1>2. /\ RCREG' \in Byte /\ RCREG' = Read /\ fifo' \in Seq(Byte) /\ Len(fifo') <= 2
        /\ RCREG.n < RCREG'.n /\ Ordered'
    BY <1>1, ReadStep
  <1>3. RxTypeOK'
    BY <1>1, <1>2
  <1>4. Heard'
    <2>1. RCREG.n \in Nat /\ RCREG'.n \in Nat /\ \A i \in 1..Len(heard) : heard[i].n \in Nat
      BY <1>2, ElementOfSeq, ByteNumber
    <2> QED  BY <1>1, <1>2, <2>1 DEF Heard
  <1>5. Lone'
    <2> SUFFICES ASSUME alone # Nothing PROVE Lone'
      BY <1>1 DEF Lone
    <2>1. fifo = <<alone>>
      BY <1>1 DEF Lone, RCIF
    <2>2. Read = alone /\ fifo' = <<>>
      BY <1>1, <2>1 DEF Reads, Read, RCIF
    <2> QED  BY <1>1, <1>2, <2>2 DEF Lone
  <1> QED  BY <1>2, <1>3, <1>4, <1>5

\* A comparison reads the same byte or a younger one; the third one ends the pass.
LEMMA ComparesStep == ASSUME RxIInv, Compares PROVE RxIInv'
  <1> DEFINE hit == Read.says = Asked[reads]
             ends == hit \/ reads = 3
  <1> USE DEF RxIInv, RxTypeOK
  <1>1. /\ Reads /\ received' = received /\ reads \in 1..3
        /\ reads' = (IF ends THEN 0 ELSE reads + 1)
        /\ arrived' = (arrived /\ ~ends)
        /\ heard' = (IF hit THEN Append(heard, Read) ELSE heard)
        /\ UNCHANGED <<OERR, lastRxByte, alone>>
    BY DEF Compares
  <1>2. /\ RCREG' \in Byte /\ RCREG' = Read /\ fifo' \in Seq(Byte) /\ Len(fifo') <= 2
        /\ RCREG.n \in Nat /\ Read.n \in Nat /\ RCREG.n <= Read.n /\ Ordered'
        /\ ~RCIF => RCREG' = RCREG /\ fifo' = <<>>
    <2>1. /\ RCREG' \in Byte /\ RCREG' = Read /\ fifo' \in Seq(Byte) /\ Len(fifo') <= 2
          /\ Ordered' /\ (RCIF => RCREG.n < RCREG'.n) /\ (~RCIF => RCREG' = RCREG /\ fifo' = <<>>)
      BY <1>1, ReadStep
    <2> QED  BY <2>1, ByteNumber
  <1>3. /\ hit => /\ heard' \in Seq(Byte) /\ Len(heard') = Len(heard) + 1
                  /\ \A i \in 1..Len(heard) : heard'[i] = heard[i]
                  /\ heard'[Len(heard) + 1] = Read /\ heard' # <<>>
        /\ ~hit => heard' = heard
    BY <1>1, <1>2, AppendProperties
  <1>4. /\ Len(heard) \in Nat
        /\ \A i \in 1..Len(heard) : heard[i].n \in Nat /\ heard[i].n < RCREG.n
    <2>1. Len(heard) \in Nat /\ \A i \in 1..Len(heard) : heard[i] \in Byte
      BY LenProperties, ElementOfSeq
    <2> QED  BY <1>1, <2>1, ByteNumber DEF Heard
  <1>5. reads' \in 0..3 /\ arrived' \in BOOLEAN
    BY <1>1
  <1>6. RxTypeOK'
    BY <1>1, <1>2, <1>3, <1>5
  <1>7. Heard'
    <2>1. CASE hit
      <3>1. Len(heard') = Len(heard) + 1 /\ reads' = 0
        BY <1>1, <1>3, <2>1
      <3>0. \A i \in 1..Len(heard') : i \in 1..Len(heard) \/ i = Len(heard) + 1
        BY <1>4, <3>1
      <3>a. /\ heard'[Len(heard) + 1].n = Read.n
            /\ \A i \in 1..Len(heard) : heard'[i].n = heard[i].n /\ heard[i].n < Read.n
        BY <1>2, <1>3, <1>4, <2>1
      <3>2. \A i \in 1..Len(heard') : heard'[i].n <= RCREG'.n
        BY <1>2, <1>4, <3>0, <3>a
      <3>3. \A i, j \in 1..Len(heard') : i < j => heard'[i].n < heard'[j].n
        BY <1>4, <3>0, <3>a DEF Heard
      <3> QED  BY <3>1, <3>2, <3>3 DEF Heard
    <2>2. CASE ~hit
      <3>1. heard' = heard /\ \A i \in 1..Len(heard) : heard[i].n < RCREG'.n
        BY <1>2, <1>3, <1>4, <2>2
      <3> QED  BY <1>2, <1>4, <3>1 DEF Heard
    <2> QED  BY <2>1, <2>2
  <1>8. Lone'
    <2> SUFFICES ASSUME alone # Nothing PROVE Lone'
      BY <1>1 DEF Lone
    <2>1. /\ fifo = <<>> /\ RCREG = alone /\ lastRxByte = alone
          /\ \A k \in 1..3 : k < reads => alone.says # Asked[k]
      BY <1>1 DEF Lone
    <2>2. fifo' = <<>> /\ RCREG' = alone /\ lastRxByte' = alone /\ Read = alone
      BY <1>1, <1>2, <2>1 DEF RCIF
    <2>3. CASE hit
      <3>1. reads' = 0 /\ heard' # <<>> /\ heard'[Len(heard')] = alone
        BY <1>1, <1>3, <1>4, <2>2, <2>3
      <3> QED  BY <1>1, <2>2, <3>1 DEF Lone
    <2>4. CASE ~hit /\ reads < 3
      <3>1. reads' = reads + 1 /\ \A k \in 1..3 : k < reads' => alone.says # Asked[k]
        BY <1>1, <2>1, <2>2, <2>4
      <3> QED  BY <1>1, <2>2, <3>1 DEF Lone
    <2>5. CASE ~hit /\ reads = 3
      <3>1. \A k \in 1..3 : alone.says # Asked[k]
        BY <2>1, <2>2, <2>5
      <3>2. Asked[1] = "H" /\ Asked[2] = "B" /\ Asked[3] = "N"
        BY DEF Asked
      <3>3. alone.says \notin {"H", "B", "N"} /\ reads' = 0
        BY <1>1, <2>5, <3>1, <3>2
      <3> QED  BY <1>1, <2>2, <3>3 DEF Lone
    <2> QED  BY <1>1, <2>3, <2>4, <2>5
  <1> QED  BY <1>2, <1>6, <1>7, <1>8

\* Of the rest of the station only a byte time is seen, which ends the wait for the next byte.
LEMMA RxStep == ASSUME RxIInv, [RxNext]_allVars PROVE RxIInv'
  <1> USE DEF RxIInv
  <1>1. ASSUME UNCHANGED <<fifo, RCREG, OERR, reads, received, lastRxByte, heard, alone>>,
               arrived' \in BOOLEAN
        PROVE  RxIInv'
    BY <1>1 DEF RxTypeOK, Ordered, Heard, Lone
  <1>2. CASE Transmits \/ UNCHANGED allVars
    BY <1>1, <1>2 DEF Transmits, rxVars, allVars, RxTypeOK
  <1>3. CASE ByteTime
    BY <1>1, <1>3 DEF ByteTime
  <1> QED  BY <1>2, <1>3, ArrivesStep, NotesStep, ComparesStep DEF RxNext
-----------------------------------------------------------------------------
\* The invariant of the transmitter survives beside the receiver.
LEMMA TxStep == ASSUME IInv, [RxNext]_allVars PROVE IInv'
  <1>1. CASE [Next]_vars
    BY <1>1, TypeStep, RegistersStep, LineStep, NumbersStep DEF IInv
  <1>2. CASE Refreshes
    <2>1. 0 \in 0..MaxTime
      BY UartAssumption
    <2>2. TypeOK'
      BY <1>2, <2>1 DEF Refreshes, IInv, TypeOK
    <2>3. Registers' /\ Loop' /\ NoByteLost'
      BY <1>2 DEF Refreshes, IInv, Registers, Loop, NoByteLost, InFlight
    <2>4. Numbers' /\ Contiguous(written)'
      BY <1>2 DEF Refreshes, IInv, Numbers, Contiguous, IsrByte
    <2> QED  BY <2>2, <2>3, <2>4 DEF IInv
  <1> QED  BY <1>1, <1>2, TxPart

\* Both halves of the UART keep their invariants while they run together.
THEOREM RxInvariance == RxSpec => [](IInv /\ RxIInv)
  <1>1. RxInit => IInv /\ RxIInv
    BY InitOK, RxStarts DEF RxInit
  <1>2. IInv /\ RxIInv /\ [RxNext]_allVars => (IInv /\ RxIInv)'
    BY TxStep, RxStep
  <1> QED  BY <1>1, <1>2, PTL DEF RxSpec

\* Side by side, both halves keep their types: the transmitter's registers, loop
\* counters and time-outs, and of the receiver a FIFO of two bytes at most, the reads
\* of RCREG the routine has made, and the letters heard.
THEOREM StationTypeCorrect == RxSpec => [](TypeOK /\ RxTypeOK)
  <1>1. IInv /\ RxIInv => TypeOK /\ RxTypeOK
    BY DEF IInv, RxIInv
  <1> QED  BY <1>1, RxInvariance, PTL

\* A command of the host stays in one piece whatever the watch says meanwhile.
THEOREM StationCommandsStayTogether == RxSpec => []CommandsContiguous
  BY Neighbours, RxInvariance, PTL

\* Beside the receiver, too, the transmitter implements the lossless line.
THEOREM StationLineImplemented == RxSpec => ImplementsLine
  <1>1. RxInit => Line!Init
    BY DEF RxInit, Init, Line!Init
  <1>2. ASSUME IInv, [RxNext]_allVars PROVE [Line!Next]_(Line!lineVars)
    <2>1. CASE [Next]_vars
      BY <1>2, <2>1, LineMap
    <2>2. CASE Refreshes
      BY <2>2 DEF Refreshes, Line!lineVars
    <2> QED  BY <1>2, <2>1, <2>2, TxPart
  <1> QED  BY <1>1, <1>2, RxInvariance, PTL DEF RxSpec, ImplementsLine, Line!Spec

\* Four reads of RCREG for one byte: none is heard twice or out of order, and one
\* that comes alone is heard, whatever the transmitter delays and however many
\* bytes came before.
THEOREM LoneByteHeard == RxSpec => []HeardUnlessCrowded
  <1>1. ASSUME RxIInv PROVE HeardUnlessCrowded
    <2>1. heard \in Seq(Byte) /\ DOMAIN heard = 1..Len(heard)
      BY <1>1, LenProperties DEF RxIInv, RxTypeOK
    <2>2. \A i, j \in DOMAIN heard : i < j => heard[i].n < heard[j].n
      BY <1>1, <2>1 DEF RxIInv, Heard
    <2>3. ASSUME alone # Nothing, reads = 0, ~RCIF
          PROVE  /\ lastRxByte = alone
                 /\ alone.says \in {"H", "B", "N"} => heard # <<>> /\ heard[Len(heard)] = alone
      BY <1>1, <2>3 DEF RxIInv, Lone, RCIF
    <2> QED  BY <1>1, <2>2, <2>3 DEF RxIInv, HeardUnlessCrowded
  <1> QED  BY <1>1, RxInvariance, PTL
=============================================================================
