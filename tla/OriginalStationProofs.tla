------------------------ MODULE OriginalStationProofs ------------------------
(***************************************************************************)
(* What the first firmware promises for every time-out, cycle, integer     *)
(* width and brightness.                                                   *)
(***************************************************************************)
EXTENDS OriginalStation, TLAPS

\* Neither counter leaves its cycle, so neither comes near IntMax, and the time-out
\* is not ahead of quiet.
Counters == /\ st.batteryCounter <= WrapAt /\ st.timeOutCounter <= TimeOut
            /\ st.timeOutCounter <= quiet

IInv == TypeOK /\ Counters /\ DarkAsleep

\* A state between two parts of the routine.
Mid == { s \in Stations : s.batteryCounter <= WrapAt /\ s.timeOutCounter <= TimeOut }
-----------------------------------------------------------------------------
\* The bounds the registers start from and are set to are in their ranges.
LEMMA Ranges == /\ 0 \in 0..LedMax /\ LedMax \in 0..LedMax /\ Glow \in 0..LedMax /\ 0 \in 0..IntMax
                /\ 0 <= WrapAt /\ 0 < WrapAt /\ 0 <= TimeOut /\ WrapAt \in Nat /\ TimeOut \in Nat /\ CheckAt < WrapAt
  BY OriginalAssumption

\* The pulse keeps the duty cycle in its range.
LEMMA PulseKeeps ==
  ASSUME NEW s \in Mid
  PROVE  /\ Pulse(s) \in Mid
         /\ Pulse(s).batteryCounter = s.batteryCounter
         /\ Pulse(s).timeOutCounter = s.timeOutCounter
         /\ Pulse(s).TMR0IE = s.TMR0IE
  <1> DEFINE duty == IF s.LEDdirection = 1 THEN (s.PWM2DCH + 1) % (LedMax + 1)
                                           ELSE (s.PWM2DCH + LedMax) % (LedMax + 1)
             edge == IF s.LEDdirection = 1 THEN LedMax ELSE 0
             turn == IF duty = edge THEN 1 - s.LEDdirection ELSE s.LEDdirection
  <1>1. duty \in 0..LedMax /\ turn \in {0, 1}
    BY OriginalAssumption DEF Mid, Stations
  <1>2. Pulse(s) = IF s.batteryCharged = 1 THEN s
                   ELSE [s EXCEPT !.PWM2DCH = duty, !.LEDdirection = turn]
    BY DEF Pulse
  <1> HIDE DEF duty, edge, turn
  <1> QED  BY <1>1, <1>2 DEF Mid, Stations

\* The battery cycle keeps its count and the supply in theirs.
LEMMA BatteryKeeps ==
  ASSUME NEW s \in Mid
  PROVE  /\ Battery(s) \in Mid
         /\ Battery(s).batteryCounter < WrapAt
         /\ Battery(s).timeOutCounter = IF AsksIn(s) THEN 0 ELSE s.timeOutCounter
         /\ Battery(s).TMR0IE = s.TMR0IE
  <1>1. [s EXCEPT !.RC2 = 1, !.timeOutCounter = 0] \in Stations
    BY Ranges DEF Mid, Stations
  <1>2. [s EXCEPT !.RC2 = 0, !.batteryCounter = 0] \in Stations
    BY Ranges DEF Mid, Stations
  <1>3. s.batteryCounter \in Nat /\ s \in Stations
    BY DEF Mid, Stations
  <1>4. CASE AsksIn(s)
    BY <1>1, <1>3, <1>4, Ranges DEF Battery, AsksIn, Mid, Stations
  <1>5. CASE ~AsksIn(s) /\ s.batteryCounter >= WrapAt
    BY <1>2, <1>3, <1>5, Ranges DEF Battery, Mid, Stations
  <1>6. CASE ~AsksIn(s) /\ ~(s.batteryCounter >= WrapAt)
    BY <1>3, <1>6, Ranges DEF Battery, Mid
  <1> QED  BY <1>4, <1>5, <1>6

\* Power-down keeps the duty cycle and the counter in theirs.
LEMMA PowerDownKeeps ==
  ASSUME NEW s \in Mid
  PROVE  /\ PowerDown(s) \in Mid
         /\ PowerDown(s).batteryCounter = s.batteryCounter
         /\ PowerDown(s).timeOutCounter = IF s.timeOutCounter >= TimeOut THEN 0 ELSE s.timeOutCounter
         /\ PowerDown(s).TMR0IE = IF s.timeOutCounter >= TimeOut THEN 0 ELSE s.TMR0IE
         /\ s.timeOutCounter >= TimeOut => PowerDown(s).PWM2DCH = 0
  <1>1. [s EXCEPT !.PWM2DCH = 0, !.TMR0IE = 0, !.timeOutCounter = 0] \in Stations
    BY Ranges DEF Mid, Stations
  <1>2. CASE s.timeOutCounter >= TimeOut
    BY <1>1, <1>2, Ranges DEF PowerDown, Mid, Stations
  <1>3. CASE ~(s.timeOutCounter >= TimeOut)
    BY <1>3 DEF PowerDown
  <1> QED  BY <1>2, <1>3

\* What one update does to the counters and the timer.
LEMMA TickIs ==
  ASSUME NEW s \in Mid
  PROVE  LET silent == ~AsksIn(s) /\ s.timeOutCounter >= TimeOut
             heard  == AsksIn(s) \/ silent
         IN  /\ Tick(s) \in Mid
             /\ Tick(s).timeOutCounter = (IF heard THEN 0 ELSE s.timeOutCounter) + 1
             /\ Tick(s).TMR0IE = IF silent THEN 0 ELSE s.TMR0IE
             /\ silent => Tick(s).PWM2DCH = 0
  <1> DEFINE p == Pulse(s)
             b == Battery(p)
             d == PowerDown(b)
  <1>1. p \in Mid /\ p.timeOutCounter = s.timeOutCounter /\ p.TMR0IE = s.TMR0IE /\ (AsksIn(p) <=> AsksIn(s))
    BY PulseKeeps DEF AsksIn
  <1>2. /\ b \in Mid /\ b.batteryCounter < WrapAt /\ b.TMR0IE = p.TMR0IE
        /\ b.timeOutCounter = IF AsksIn(p) THEN 0 ELSE p.timeOutCounter
    BY <1>1, BatteryKeeps
  <1>3. /\ d \in Mid /\ d.batteryCounter < WrapAt
        /\ d.timeOutCounter = IF b.timeOutCounter >= TimeOut THEN 0 ELSE b.timeOutCounter
        /\ d.TMR0IE = IF b.timeOutCounter >= TimeOut THEN 0 ELSE b.TMR0IE
        /\ b.timeOutCounter >= TimeOut => d.PWM2DCH = 0
    BY <1>2, PowerDownKeeps
  <1>4. Tick(s) = [d EXCEPT !.timeOutCounter = @ + 1, !.batteryCounter = @ + 1]
    BY DEF Tick, Count
  <1> HIDE DEF p, b, d
  <1>5. d.timeOutCounter < TimeOut
    BY <1>3, OriginalAssumption DEF Mid, Stations
  <1>6. d.timeOutCounter + 1 \in 0..IntMax /\ d.batteryCounter + 1 \in 0..IntMax
    BY <1>3, <1>5, OriginalAssumption DEF Mid, Stations
  <1>7. /\ Tick(s) \in Mid /\ Tick(s).timeOutCounter = d.timeOutCounter + 1
        /\ Tick(s).TMR0IE = d.TMR0IE /\ Tick(s).PWM2DCH = d.PWM2DCH
    <2>1. d \in Stations
      BY <1>3 DEF Mid
    <2>2. Tick(s) \in Stations
      BY <1>4, <1>6, <2>1 DEF Stations
    <2>3. /\ Tick(s).timeOutCounter = d.timeOutCounter + 1 /\ Tick(s).batteryCounter = d.batteryCounter + 1
          /\ Tick(s).TMR0IE = d.TMR0IE /\ Tick(s).PWM2DCH = d.PWM2DCH
      BY <1>4, <2>1 DEF Stations
    <2>4. d.timeOutCounter \in Nat /\ d.batteryCounter \in Nat /\ WrapAt \in Nat /\ TimeOut \in Nat
      BY <2>1, OriginalAssumption DEF Stations
    <2> QED  BY <1>3, <1>5, <2>2, <2>3, <2>4 DEF Mid
  <1> QED  BY <1>1, <1>2, <1>3, <1>7, OriginalAssumption
-----------------------------------------------------------------------------
\* The station is switched on in the invariant.
LEMMA Starts == Init => IInv
  BY OriginalAssumption DEF Init, IInv, TypeOK, Stations, Counters, DarkAsleep

\* Every interrupt and every key keeps it.
LEMMA Inductive == ASSUME IInv, [Next]_vars PROVE IInv'
  <1>0. st \in Mid /\ quiet \in 0..TimeOut /\ pc \in {"loop", "diagnose", "diagnostic"}
    BY DEF IInv, TypeOK, Counters, Mid
  <1>1. CASE TimerOverflow
    <2> USE OriginalAssumption
    <2>1. st'.timeOutCounter <= quiet' /\ quiet' \in 0..TimeOut
      BY <1>0, <1>1, TickIs DEF TimerOverflow, IInv, Counters, Mid, Stations
    <2>2. st' \in Mid /\ DarkAsleep'
      BY <1>0, <1>1, TickIs DEF TimerOverflow, DarkAsleep, Mid, Stations
    <2> QED  BY <1>0, <1>1, <2>1, <2>2 DEF TimerOverflow, IInv, TypeOK, Counters, Mid
  <1> USE OriginalAssumption DEF IInv, TypeOK, Stations, Counters, DarkAsleep
  <1>2. CASE HearsHi
    <2>1. st' \in Stations
      BY <1>0, <1>2, Ranges DEF HearsHi, Mid
    <2> QED  BY <1>2, <2>1 DEF HearsHi
  <1>3. CASE HearsFull
    <2>1. st' \in Stations
      BY <1>0, <1>3, Ranges DEF HearsFull, Mid
    <2> QED  BY <1>3, <2>1 DEF HearsFull
  <1>4. CASE HearsNotFull
    BY <1>4 DEF HearsNotFull
  <1>5. CASE KeySends
    BY <1>5 DEF KeySends
  <1>6. CASE SendsX
    BY <1>6 DEF SendsX
  <1>7. CASE DiagnosticOn
    BY <1>7 DEF DiagnosticOn
  <1>8. CASE DiagnosticOff
    BY <1>8 DEF DiagnosticOff
  <1>9. CASE UNCHANGED vars
    BY <1>9 DEF vars
  <1> QED  BY <1>1, <1>2, <1>3, <1>4, <1>5, <1>6, <1>7, <1>8, <1>9 DEF Next
-----------------------------------------------------------------------------
\* The strengthening of what follows.
THEOREM Invariance == Spec => []IInv
  BY Starts, Inductive, PTL DEF Spec

\* Every register and counter keeps its range; neither int overflows.
THEOREM TypeCorrect == Spec => []TypeOK
  <1>1. IInv => TypeOK
    BY DEF IInv
  <1> QED  BY <1>1, Invariance, PTL

\* Asleep, the LED is dark, or glows for a late answer.
THEOREM SleepsDark == Spec => []DarkAsleep
  <1>1. IInv => DarkAsleep
    BY DEF IInv
  <1> QED  BY <1>1, Invariance, PTL

\* The station goes to sleep only after a whole time-out in which no 'H' was heard and
\* nothing sent: what the firmware with USB does not keep.
THEOREM SleepsAfterTimeOut == Spec => SleepOnlyAfterTimeOut
  <1>1. IInv /\ [Next]_vars => [st.TMR0IE = 1 /\ st'.TMR0IE = 0 => quiet = TimeOut]_vars
    <2> SUFFICES ASSUME IInv, Next, st.TMR0IE = 1, st'.TMR0IE = 0 PROVE quiet = TimeOut
      BY DEF vars
    <2>1. st \in Mid /\ quiet \in 0..TimeOut /\ st.timeOutCounter <= quiet
      BY DEF IInv, TypeOK, Counters, Mid
    <2>2. CASE TimerOverflow
      BY <2>1, <2>2, TickIs, OriginalAssumption DEF TimerOverflow, Mid, Stations
    <2>3. CASE HearsHi
      BY <2>1, <2>3 DEF HearsHi, Mid, Stations
    <2>4. CASE HearsFull
      BY <2>1, <2>4 DEF HearsFull, Mid, Stations
    <2>5. CASE HearsNotFull
      BY <2>1, <2>5 DEF HearsNotFull, Mid, Stations
    <2>6. CASE KeySends \/ SendsX \/ DiagnosticOn \/ DiagnosticOff
      BY <2>1, <2>6 DEF KeySends, SendsX, DiagnosticOn, DiagnosticOff, Mid, Stations
    <2> QED  BY <2>2, <2>3, <2>4, <2>5, <2>6 DEF Next
  <1> QED  BY <1>1, Invariance, PTL DEF Spec, SleepOnlyAfterTimeOut

\* The station stays awake for the answer it has asked for.
THEOREM AwaitsAnswer == Spec => AwakeForTheAnswer
  <1>1. IInv /\ [Next]_vars => [AsksIn(st) /\ st'.batteryCounter > CheckAt => st'.TMR0IE = 1]_vars
    <2> SUFFICES ASSUME IInv, Next, AsksIn(st), st'.batteryCounter > CheckAt PROVE st'.TMR0IE = 1
      BY DEF vars
    <2>1. st \in Mid
      BY DEF IInv, TypeOK, Counters, Mid
    <2>2. CASE TimerOverflow
      BY <2>1, <2>2, TickIs DEF TimerOverflow
    <2>3. CASE HearsHi
      BY <2>1, <2>3, OriginalAssumption DEF AsksIn, HearsHi, Mid, Stations
    <2>4. CASE HearsFull
      BY <2>1, <2>4, OriginalAssumption DEF AsksIn, HearsFull, Mid, Stations
    <2>5. CASE HearsNotFull
      BY <2>1, <2>5, OriginalAssumption DEF AsksIn, HearsNotFull, Mid, Stations
    <2>6. CASE KeySends \/ SendsX \/ DiagnosticOn \/ DiagnosticOff
      BY <2>1, <2>6, OriginalAssumption DEF AsksIn, KeySends, SendsX, DiagnosticOn, DiagnosticOff, Mid, Stations
    <2> QED  BY <2>2, <2>3, <2>4, <2>5, <2>6 DEF Next
  <1> QED  BY <1>1, Invariance, PTL DEF Spec, AwakeForTheAnswer
=============================================================================
