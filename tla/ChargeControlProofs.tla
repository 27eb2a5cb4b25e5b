------------------------- MODULE ChargeControlProofs -------------------------
(***************************************************************************)
(* What ChargeControl promises for every time-out, cycle and counter: the  *)
(* two counters, the supply and the LED stay consistent, wherever an       *)
(* interrupt falls into an update.  And, in the second half, an update that*)
(* nothing interrupts is the update of the first firmware.                 *)
(***************************************************************************)
EXTENDS FaithfulUpdate, TLAPS

\* Steps between the request for an update and the moment the timer is stopped.
Awake == {"led", "fade", "turn", "battery", "ask", "asked", "timeout", "dark", "off"}

\* Steps after batteryCounter was looked at, up to its increment.
Measured == {"timeout", "dark", "off", "zero", "count", "carry", "age"}

\* timeOutCounter stays below the time-out, and runs ahead of quiet by
\* less than one byte.
Counter == /\ timeOutCounter <= TimeOut
           /\ pc = "count" => timeOutCounter < TimeOut
           /\ pc = "carry" => timeOutCounter + Base <= TimeOut
           /\ quiet < TimeOut => timeOutCounter < quiet + Base
           /\ pc = "carry" /\ quiet < TimeOut => timeOutCounter <= quiet

\* Where the cycle of batteryCounter is, and whether the watch was asked in it.
Cycle == /\ pc \in {"ask", "asked"} => batteryCounter = CheckAt
         /\ pc \in Measured => batteryCounter < WrapAt
         /\ batteryCounter < CheckAt => asked = 0
         /\ batteryCounter > CheckAt => asked = 1
         /\ batteryCounter = CheckAt =>
              asked = IF pc \in Measured \cup {"asked"} THEN 1 ELSE 0

\* The timer interrupt is on in an update, or no update is asked for.
Timer == /\ pc \in Awake => TMR0IE = 1
         /\ TMR0IE = 0 /\ pc \notin InBody => timeToUpdateState = 0

Led == /\ TMR0IE = 0 \/ pc = "off" => PWM2DCH \in {0, Glow}
       /\ batteryCharged = 1 /\ pc = "fade" => PWM2DCH = Glow

IInv == /\ TypeOK /\ Counter /\ Cycle /\ Timer /\ Led
        /\ SleepJustified /\ FiveVoltsOnlyToMeasure /\ SteadyWhenFull
-----------------------------------------------------------------------------
\* The station is switched on in the invariant.
LEMMA InitOK == Init => IInv
  BY ChargeAssumption
  DEF Init, IInv, TypeOK, Counter, Cycle, Timer, Led, SleepJustified,
      FiveVoltsOnlyToMeasure, SteadyWhenFull, Labels, InBody, Awake, Measured

\* Every step of the main loop, of the interrupt routine and of the keys keeps it.
LEMMA Step == ASSUME IInv, [Next]_vars PROVE IInv'
  <1> USE ChargeAssumption
      DEF IInv, TypeOK, Counter, Cycle, Timer, Led, SleepJustified, FiveVoltsOnlyToMeasure,
          SteadyWhenFull, Labels, InBody, Awake, Measured, At, led, supply, silence
  <1>1. CASE TimerOverflow
    BY <1>1 DEF TimerOverflow
  <1>2. CASE HearsHi
    BY <1>2 DEF HearsHi, Wake, Sound
  <1>3. CASE HearsFull
    BY <1>3 DEF HearsFull
  <1>4. CASE HearsNotFull
    BY <1>4 DEF HearsNotFull
  <1>5. CASE HostSends
    BY <1>5 DEF HostSends, Sound
  <1>6. CASE Begins
    BY <1>6 DEF Begins
  <1>7. CASE TestsCharged
    BY <1>7 DEF TestsCharged
  <1>8. CASE Fades
    BY <1>8 DEF Fades, Up, Down
  <1>9. CASE Turns
    BY <1>9 DEF Turns
  <1>10. CASE Checks
    BY <1>10 DEF Checks
  <1>11. CASE Wraps
    BY <1>11 DEF Wraps
  <1>12. CASE Charges
    BY <1>12 DEF Charges
  <1>13. CASE Asks
    BY <1>13 DEF Asks
  <1>14. CASE Asked
    BY <1>14 DEF Asked, Sound
  <1>15. CASE TestsTimeOut
    BY <1>15 DEF TestsTimeOut
  <1>16. CASE LedOff
    BY <1>16 DEF LedOff
  <1>17. CASE TimerOff
    BY <1>17 DEF TimerOff
  <1>18. CASE Zeroes
    BY <1>18 DEF Zeroes
  <1>19. CASE CountsLow
    BY <1>19 DEF CountsLow, OneMore
  <1>20. CASE LowWraps
    BY <1>20 DEF LowWraps
  <1>21. CASE CountsHigh
    BY <1>21 DEF CountsHigh, OneMore
  <1>22. CASE Ages
    BY <1>22 DEF Ages
  <1>23. CASE Ends
    BY <1>23 DEF Ends
  <1>24. CASE KeySends
    BY <1>24 DEF KeySends, Sound
  <1>25. CASE SendsX
    BY <1>25 DEF SendsX, Sound
  <1>26. CASE DiagnosticOn
    BY <1>26 DEF DiagnosticOn
  <1>27. CASE DiagnosticOff
    BY <1>27 DEF DiagnosticOff
  <1>28. CASE KeysReturn
    BY <1>28 DEF KeysReturn
  <1>29. CASE UNCHANGED vars
    BY <1>29 DEF vars
  <1> QED  BY <1>1, <1>2, <1>3, <1>4, <1>5, <1>6, <1>7, <1>8, <1>9, <1>10, <1>11, <1>12, <1>13, <1>14, <1>15, <1>16, <1>17, <1>18, <1>19, <1>20, <1>21, <1>22, <1>23, <1>24, <1>25, <1>26, <1>27, <1>28, <1>29
          DEF Next, Interrupt, Update, Keys
-----------------------------------------------------------------------------
\* The strengthening of all that follows, for every value of the constants.
THEOREM Invariance == Spec => []IInv
  BY InitOK, Step, PTL DEF Spec

\* Every register and counter keeps its range: batteryCounter never passes WrapAt.
THEOREM TypeCorrect == Spec => []TypeOK
  <1>1. IInv => TypeOK
    BY DEF IInv
  <1> QED  BY <1>1, Invariance, PTL

\* The station falls asleep only after the time-out, less a low byte, without an 'H'
\* heard or a byte sent, or when one of these came after the test.
THEOREM SleepIsJustified == Spec => []SleepJustified
  <1>1. IInv => SleepJustified
    BY DEF IInv
  <1> QED  BY <1>1, Invariance, PTL

\* The supply is at 5 V only in a measurement, or in the diagnostic mode.
THEOREM SupplyReturns == Spec => []FiveVoltsOnlyToMeasure
  <1>1. IInv => FiveVoltsOnlyToMeasure
    BY DEF IInv
  <1> QED  BY <1>1, Invariance, PTL

\* One 'T' in each cycle, whatever sleeps and wakes up in between.
THEOREM AskedOnce == Spec => []OneQuestionPerCycle
  <1>1. IInv => OneQuestionPerCycle
    BY ChargeAssumption DEF IInv, TypeOK, Cycle, OneQuestionPerCycle
  <1> QED  BY <1>1, Invariance, PTL

\* No update is left over when the station sleeps, and its LED is not on the pulse.
THEOREM QuietAsleep == Spec => []AsleepIsQuiet
  <1>1. IInv => AsleepIsQuiet
    BY DEF IInv, Timer, Led, AsleepIsQuiet
  <1> QED  BY <1>1, Invariance, PTL

\* The LED of a full battery is steady up to one step.
THEOREM SteadyGlow == Spec => []SteadyWhenFull
  <1>1. IInv => SteadyWhenFull
    BY DEF IInv
  <1> QED  BY <1>1, Invariance, PTL

\* A sleeping station is dark or glows, with no update pending, and a station
\* with a full battery glows steadily.
THEOREM LedTrue == Spec => []LedIsTrue
  BY QuietAsleep, SteadyGlow, PTL DEF LedIsTrue
-----------------------------------------------------------------------------
\* The states of a station, as the first firmware keeps them.
Stations == [ PWM2DCH : 0..LedMax, LEDdirection : {0, 1},
              batteryCharged : {0, 1}, batteryCounter : Nat,
              RC2 : {0, 1}, timeOutCounter : Nat, TMR0IE : {0, 1} ]

\* The variables have the values of the record s.
Holds(s) == /\ PWM2DCH = s.PWM2DCH /\ LEDdirection = s.LEDdirection
            /\ batteryCharged = s.batteryCharged /\ batteryCounter = s.batteryCounter
            /\ RC2 = s.RC2 /\ timeOutCounter = s.timeOutCounter /\ TMR0IE = s.TMR0IE

\* What the first firmware makes of the state the update began in: after its
\* pulse, its check of the battery, its power-down.
Pulsed   == Original!Pulse(before)
Checked  == Original!Battery(Pulsed)
Powered  == Original!PowerDown(Checked)

\* How far the update has come, and what that is in the first firmware's routine.
Progress ==
  /\ pc \in {"led", "fade"} => Holds(before)
  /\ pc \in {"fade", "turn"} => before.batteryCharged = 0
  /\ pc = "turn" =>
       Holds([before EXCEPT !.PWM2DCH = IF before.LEDdirection = 1 THEN Up(@) ELSE Down(@)])
  /\ pc = "battery" => Holds(Pulsed)
  /\ pc \in {"ask", "asked"} => Holds([Pulsed EXCEPT !.RC2 = 1]) /\ Pulsed.batteryCounter = CheckAt
  /\ pc \in {"timeout", "dark"} => Holds(Checked)
  /\ pc \in {"dark", "off", "zero"} => Checked.timeOutCounter >= TimeOut
  /\ pc = "off" => Holds([Checked EXCEPT !.PWM2DCH = 0])
  /\ pc = "zero" => Holds([Checked EXCEPT !.PWM2DCH = 0, !.TMR0IE = 0])
  /\ pc = "count" => Holds(Powered)
  /\ pc = "carry" => Holds([Powered EXCEPT !.timeOutCounter = @ - (Base - 1)])
  /\ pc = "age" => Holds([Powered EXCEPT !.timeOutCounter = @ + 1])
  /\ pc = "done" => Holds([Powered EXCEPT !.timeOutCounter = @ + 1, !.batteryCounter = @ + 1])

PairInv == /\ IInv
           /\ before \in Stations /\ disturbed \in {0, 1}
           /\ disturbed = 0 => Progress
-----------------------------------------------------------------------------
\* Counting up and down modulo the width of a register.
LEMMA ModUp ==
  ASSUME NEW m \in Nat, NEW d \in 0..m PROVE (d + 1) % (m + 1) = IF d = m THEN 0 ELSE d + 1
  <1>1. CASE d = m
    BY <1>1
  <1>2. CASE d # m
    BY <1>2
  <1> QED  BY <1>1, <1>2

\* The same downwards.
LEMMA ModDown ==
  ASSUME NEW m \in Nat, NEW d \in 0..m PROVE (d + m) % (m + 1) = IF d = 0 THEN m ELSE d - 1
  <1>1. CASE d = 0
    BY <1>1
  <1>2. CASE d # 0
    <2>1. d + m = 1 * (m + 1) + (d - 1) /\ d - 1 \in 0..m
      BY <1>2
    <2> QED  BY <1>2, <2>1
  <1> QED  BY <1>1, <1>2

\* The pulse of the first firmware in the terms of this one's.
LEMMA PulseIs ==
  ASSUME NEW s \in Stations
  PROVE  LET d == IF s.LEDdirection = 1 THEN Up(s.PWM2DCH) ELSE Down(s.PWM2DCH)
             e == IF s.LEDdirection = 1 THEN LedMax ELSE 0
         IN  Original!Pulse(s) =
               IF s.batteryCharged = 1 THEN s
               ELSE [s EXCEPT !.PWM2DCH = d,
                              !.LEDdirection = IF d = e THEN 1 - s.LEDdirection ELSE s.LEDdirection]
  <1>1. s.PWM2DCH \in 0..LedMax /\ LedMax \in Nat
    BY ChargeAssumption DEF Stations
  <1>2. (s.PWM2DCH + 1) % (LedMax + 1) = Up(s.PWM2DCH)
    BY <1>1, ModUp DEF Up
  <1>3. (s.PWM2DCH + LedMax) % (LedMax + 1) = Down(s.PWM2DCH)
    BY <1>1, ModDown DEF Down
  <1> QED  BY <1>2, <1>3 DEF Original!Pulse

\* The duty cycle and the direction after the pulse of an update.
Duty == IF before.LEDdirection = 1 THEN Up(before.PWM2DCH) ELSE Down(before.PWM2DCH)
Turned == IF Duty = IF before.LEDdirection = 1 THEN LedMax ELSE 0
          THEN 1 - before.LEDdirection ELSE before.LEDdirection

\* Its three outcomes.
LEMMA PulsedIs ==
  ASSUME before \in Stations
  PROVE  Pulsed = IF before.batteryCharged = 1 THEN before
                  ELSE [before EXCEPT !.PWM2DCH = Duty, !.LEDdirection = Turned]
  BY PulseIs DEF Pulsed, Duty, Turned

\* What each part of the routine makes of a station is a station.
LEMMA PulsedTyped == ASSUME before \in Stations PROVE Pulsed \in Stations
  <1>1. Duty \in 0..LedMax /\ Turned \in {0, 1}
    BY ChargeAssumption DEF Stations, Duty, Turned, Up, Down
  <1> QED  BY <1>1, PulsedIs DEF Stations

\* The same for the battery cycle, ...
LEMMA CheckedTyped == ASSUME before \in Stations PROVE Checked \in Stations
  BY PulsedTyped, ChargeAssumption DEF Checked, Stations, Original!Battery, Original!AsksIn

\* ... and for power-down.
LEMMA PoweredTyped == ASSUME before \in Stations PROVE Powered \in Stations
  <1>1. Checked \in Stations
    BY CheckedTyped
  <1>2. 0 \in 0..LedMax
    BY ChargeAssumption
  <1>3. [Checked EXCEPT !.PWM2DCH = 0, !.TMR0IE = 0, !.timeOutCounter = 0] \in Stations
    BY <1>1, <1>2 DEF Stations
  <1> QED  BY <1>1, <1>3 DEF Powered, Original!PowerDown

\* Two records of the seven fields are equal when their fields are.
LEMMA StationIs == ASSUME NEW s \in Stations PROVE Holds(s) <=> Station = s
  BY DEF Holds, Station, Stations
-----------------------------------------------------------------------------
\* Nothing is compared before the first update.
LEMMA PairStarts == PairInit => PairInv
  BY InitOK, ChargeAssumption DEF PairInit, PairInv, Progress, Station, Stations, Init

\* An interrupt that does not disturb the update leaves all of its state alone.
LEMMA InterruptKeeps ==
  ASSUME PairInv, Interrupt, Station' = Station, UNCHANGED before PROVE Progress => Progress'
  <1>1. pc' = pc
    BY DEF Interrupt, TimerOverflow, HearsHi, HearsFull, HearsNotFull, HostSends
  <1>2. UNCHANGED <<PWM2DCH, LEDdirection, batteryCharged, batteryCounter, RC2, timeOutCounter, TMR0IE>>
    BY DEF Station
  <1> QED
    BY <1>1, <1>2 DEF Progress, Pulsed, Checked, Powered, Holds

\* Each step of an undisturbed update makes its part of the routine.
LEMMA UpdateProgresses ==
  ASSUME PairInv, disturbed = 0, Update, pc # "loop", UNCHANGED before PROVE Progress'
  <1> USE ChargeAssumption DEF At, led, supply, silence, Stations, Holds
  <1>0. /\ before \in Stations /\ Pulsed \in Stations /\ Checked \in Stations /\ Powered \in Stations
        /\ Pulsed' = Pulsed /\ Checked' = Checked /\ Powered' = Powered
    BY PulsedTyped, CheckedTyped, PoweredTyped DEF PairInv, Pulsed, Checked, Powered
  <1>01. Progress /\ TypeOK /\ Counter
    BY DEF PairInv, IInv
  <1>1. CASE TestsCharged
    <2>1. before.batteryCharged = 1 => Pulsed = before
      BY <1>0, PulsedIs
    <2> QED  BY <1>0, <1>01, <1>1, <2>1 DEF TestsCharged, Progress, TypeOK
  <1>2. CASE Fades
    BY <1>0, <1>01, <1>2 DEF Fades, Progress
  <1>3. CASE Turns
    <2>1. before.batteryCharged = 0 /\ Holds([before EXCEPT !.PWM2DCH = Duty])
      BY <1>01, <1>3 DEF Turns, Progress, Duty
    <2>2. Pulsed = [before EXCEPT !.PWM2DCH = Duty, !.LEDdirection = Turned]
      BY <1>0, <2>1, PulsedIs
    <2>3. LEDdirection' = Turned
      BY <1>0, <1>3, <2>1 DEF Turns, Turned
    <2> QED  BY <1>0, <1>3, <2>1, <2>2, <2>3 DEF Turns, Progress
  <1>4. CASE Checks
    BY <1>0, <1>01, <1>4 DEF Checks, Progress
  <1>5. CASE Wraps
    BY <1>0, <1>01, <1>5 DEF Wraps, Progress, Checked, Original!Battery, Original!AsksIn
  <1>6. CASE Charges
    BY <1>0, <1>01, <1>6 DEF Charges, Progress, TypeOK, Checked, Original!Battery, Original!AsksIn
  <1>7. CASE Asks
    BY <1>0, <1>01, <1>7 DEF Asks, Progress
  <1>8. CASE Asked
    BY <1>0, <1>01, <1>8 DEF Asked, Sound, Progress, Checked, Original!Battery, Original!AsksIn
  <1>9. CASE TestsTimeOut
    BY <1>0, <1>01, <1>9 DEF TestsTimeOut, Progress, Powered, Original!PowerDown
  <1>10. CASE LedOff
    BY <1>0, <1>01, <1>10 DEF LedOff, Progress
  <1>11. CASE TimerOff
    BY <1>0, <1>01, <1>11 DEF TimerOff, Progress
  <1>12. CASE Zeroes
    BY <1>0, <1>01, <1>12 DEF Zeroes, Progress, Powered, Original!PowerDown
  <1>13. CASE CountsLow
    BY <1>0, <1>01, <1>13 DEF CountsLow, Progress
  <1>14. CASE LowWraps
    BY <1>0, <1>01, <1>14 DEF LowWraps, Progress
  <1>15. CASE CountsHigh
    BY <1>0, <1>01, <1>15 DEF CountsHigh, Progress, Counter, TypeOK
  <1>16. CASE Ages
    BY <1>0, <1>01, <1>16 DEF Ages, Progress
  <1>17. CASE Ends
    BY <1>0, <1>01, <1>17 DEF Ends, Progress
  <1>18. ~Begins
    BY DEF Begins
  <1> QED  BY <1>1, <1>2, <1>3, <1>4, <1>5, <1>6, <1>7, <1>8, <1>9, <1>10, <1>11, <1>12, <1>13,
              <1>14, <1>15, <1>16, <1>17, <1>18 DEF Update

\* Where a key handler is at work no update is in progress.
LEMMA KeysKeep == ASSUME PairInv, Keys PROVE Progress'
  BY DEF Keys, KeySends, SendsX, DiagnosticOn, DiagnosticOff, KeysReturn, At, Progress

\* An update begins with the state it is compared with.
LEMMA BeginsWithStation == ASSUME PairInv, Begins, before' = Station PROVE Progress'
  <1>1. Holds(before)'
    BY DEF Begins, led, supply, silence, Holds, Station
  <1> QED  BY <1>1 DEF Begins, At, Progress

\* The invariant of the pair is inductive.
LEMMA PairStep == ASSUME PairInv, [PairNext]_pairVars PROVE PairInv'
  <1>1. IInv'
    BY Step DEF PairInv, PairNext, pairVars, Next, vars
  <1>2. Station \in Stations
    BY ChargeAssumption DEF PairInv, IInv, TypeOK, Station, Stations
  <1>3. (before \in Stations /\ disturbed \in {0, 1})'
    BY <1>2 DEF PairInv, PairNext, pairVars, Stations
  <1>4. disturbed' = 0 => Progress'
    <2> SUFFICES ASSUME disturbed' = 0 PROVE Progress'
      OBVIOUS
    <2>1. CASE Interrupt /\ disturbed' = (IF Station' = Station THEN disturbed ELSE 1) /\ UNCHANGED before
      <3>1. Station' = Station /\ disturbed = 0
        BY <2>1
      <3> QED  BY <2>1, <3>1, InterruptKeeps DEF PairInv
    <2>2. CASE Update /\ pc # "loop" /\ UNCHANGED <<before, disturbed>>
      BY <2>2, UpdateProgresses
    <2>3. CASE Update /\ pc = "loop" /\ before' = Station
      <3>1. Begins
        BY <2>3 DEF Update, TestsCharged, Fades, Turns, Checks, Wraps, Charges, Asks, Asked,
             TestsTimeOut, LedOff, TimerOff, Zeroes, CountsLow, LowWraps, CountsHigh, Ages, Ends, At
      <3> QED  BY <2>3, <3>1, BeginsWithStation
    <2>4. CASE Keys
      BY <2>4, KeysKeep
    <2>5. CASE UNCHANGED pairVars
      BY <2>5 DEF pairVars, vars, led, supply, silence, PairInv, Progress, Pulsed, Checked, Powered, Holds
    <2> QED  BY <2>1, <2>2, <2>3, <2>4, <2>5 DEF PairNext
  <1> QED  BY <1>1, <1>3, <1>4 DEF PairInv

\* The update of this firmware, when nothing interrupts it, changes the station as
\* the interrupt routine of the first firmware does, for every time-out, cycle,
\* counter width and brightness.
THEOREM UpdateRecreated == PairSpec => []RecreatesUpdate
  <1>1. PairInv => RecreatesUpdate
    <2> SUFFICES ASSUME PairInv, pc = "done", disturbed = 0 PROVE Station = Original!Tick(before)
      BY DEF RecreatesUpdate
    <2>1. Powered \in Stations
      BY PoweredTyped DEF PairInv
    <2>2. Holds([Powered EXCEPT !.timeOutCounter = @ + 1, !.batteryCounter = @ + 1])
      BY DEF PairInv, Progress
    <2>3. [Powered EXCEPT !.timeOutCounter = @ + 1, !.batteryCounter = @ + 1] \in Stations
      <3>1. Powered.timeOutCounter + 1 \in Nat /\ Powered.batteryCounter + 1 \in Nat
        BY <2>1 DEF Stations
      <3> QED  BY <2>1, <3>1 DEF Stations
    <2>4. Station = [Powered EXCEPT !.timeOutCounter = @ + 1, !.batteryCounter = @ + 1]
      BY <2>2, <2>3, StationIs
    <2> QED  BY <2>4 DEF Original!Tick, Original!Count, Powered, Checked, Pulsed
  <1> QED  BY <1>1, PairStarts, PairStep, PTL DEF PairSpec
=============================================================================
