---------------------------- MODULE ChargeControl ----------------------------
(***************************************************************************)
(* Charging, LED and power-down of the base station with USB,              *)
(* firmware/cstbase-hid/main.c: ISRCode and updateState, and what          *)
(* handleKeys and handleMessage do to the state they share.                *)
(*                                                                         *)
(* The watch says 'H' (hi) while it lies on the station, and answers the   *)
(* station's 'T' (check the voltage) with 'B' (full) or 'N' (not full).    *)
(* Every timer overflow asks the main loop for one update: a step of the   *)
(* LED pulse, of batteryCounter and of timeOutCounter.  The station        *)
(* switches to 5 V at CheckAt updates to measure, back to 12 V on the      *)
(* answer or at WrapAt, and goes to sleep, its timer interrupt off, after  *)
(* TimeOut updates in which no 'H' was heard and nothing sent.  'B' and    *)
(* 'N' leave the time-out alone.                                           *)
(*                                                                         *)
(* The main loop is interrupted between any two of its steps; the          *)
(* interrupt routine runs to completion.  timeOutCounter is a 16-bit       *)
(* integer of an 8-bit processor: its increment is two steps.              *)
(***************************************************************************)
EXTENDS Naturals

CONSTANTS TimeOut,     \* 500 updates
          CheckAt,     \* 1000
          WrapAt,      \* 2000
          Base,        \* values of a byte of timeOutCounter: 256
          LedMax,      \* largest duty cycle, 0xFF
          Glow         \* duty cycle of the full battery, 0x44

ASSUME ChargeAssumption ==
    /\ TimeOut \in Nat /\ CheckAt \in Nat /\ WrapAt \in Nat /\ Base \in Nat
    /\ LedMax \in Nat /\ Glow \in Nat
    /\ 1 < Base /\ Base <= TimeOut /\ TimeOut < Base * Base
    /\ 0 < CheckAt /\ CheckAt < WrapAt
    /\ 1 < Glow /\ Glow + 1 < LedMax

VARIABLES
    pc,                 \* where the main loop is
    timeToUpdateState,  \* 1: a timer overflow asks for an update
    timeOutCounter, batteryCounter,
    batteryCharged,     \* 1: the last answer was 'B'
    PWM2DCH,            \* duty cycle of the LED
    LEDdirection,       \* 1: up, 0: down
    RC2,                \* 1: 5 V, 0: 12 V
    TMR0IE,             \* 1: timer interrupt on; 0: asleep
    quiet,              \* history: updates since an 'H' was heard or a byte sent, up to TimeOut
    late,               \* history: an 'H' was heard or a byte sent since the last test for the time-out
    asked               \* history: 'T' sent since batteryCounter last started over, up to 2

led      == <<PWM2DCH, LEDdirection>>
supply   == <<batteryCounter, RC2, asked>>
silence  == <<timeOutCounter, quiet, late>>
vars     == <<pc, timeToUpdateState, batteryCharged, TMR0IE, led, supply, silence>>

Init == /\ pc = "loop"
        /\ timeToUpdateState = 0 /\ timeOutCounter = 0 /\ batteryCounter = 0
        /\ batteryCharged = 0 /\ PWM2DCH = 0 /\ LEDdirection = 0
        /\ RC2 = 0 /\ TMR0IE = 0
        /\ quiet = 0 /\ late = 0 /\ asked = 0
-----------------------------------------------------------------------------
(* The interrupt routine. *)

\* timeOutCounter=0, because an 'H' was heard or a byte sent.
Sound == timeOutCounter' = 0 /\ quiet' = 0 /\ late' = 1

\* TMR0IE && TMR0IF
TimerOverflow == /\ TMR0IE = 1
                 /\ timeToUpdateState' = 1
                 /\ UNCHANGED <<pc, batteryCharged, TMR0IE, led, supply, silence>>

\* Faulty: only waking up starts the time-out over.
HearsHiOnce == /\ IF TMR0IE = 0
                  THEN TMR0IE' = 1 /\ batteryCharged' = 0 /\ PWM2DCH' = LedMax /\ Sound
                  ELSE /\ UNCHANGED <<TMR0IE, batteryCharged, PWM2DCH, timeOutCounter>>
                       /\ quiet' = 0 /\ late' = 1
               /\ UNCHANGED <<pc, timeToUpdateState, LEDdirection, supply>>

\* RCREG=='H' wakes the station up, or keeps it awake.
Wake == IF TMR0IE = 0
        THEN TMR0IE' = 1 /\ batteryCharged' = 0 /\ PWM2DCH' = LedMax
        ELSE UNCHANGED <<TMR0IE, batteryCharged, PWM2DCH>>

HearsHi == /\ Wake
           /\ Sound
           /\ UNCHANGED <<pc, timeToUpdateState, LEDdirection, supply>>

\* RCREG=='B': full.  RCREG=='N': not full.  Both go back to 12 V, and neither
\* starts the time-out over.
HearsFull == /\ batteryCharged' = 1 /\ PWM2DCH' = Glow /\ RC2' = 0
             /\ UNCHANGED <<pc, timeToUpdateState, TMR0IE, LEDdirection,
                            batteryCounter, asked, silence>>

HearsNotFull == /\ batteryCharged' = 0 /\ RC2' = 0
                /\ UNCHANGED <<pc, timeToUpdateState, TMR0IE, led,
                               batteryCounter, asked, silence>>

\* handleMessage sends the bytes of a 'T' or 'S' command of the host.
HostSends == /\ Sound
             /\ UNCHANGED <<pc, timeToUpdateState, batteryCharged, TMR0IE, led, supply>>

Interrupt == TimerOverflow \/ HearsHi \/ HearsFull \/ HearsNotFull \/ HostSends
-----------------------------------------------------------------------------
(* updateState, step by step. *)

At(here, next) == pc = here /\ pc' = next

\* if( !timeToUpdateState ) return;
Begins == /\ At("loop", IF timeToUpdateState = 1 THEN "led" ELSE "keys")
          /\ UNCHANGED <<timeToUpdateState, batteryCharged, TMR0IE, led, supply, silence>>

\* if(!batteryCharged) ...
TestsCharged == /\ At("led", IF batteryCharged = 0 THEN "fade" ELSE "battery")
                /\ UNCHANGED <<timeToUpdateState, batteryCharged, TMR0IE, led, supply, silence>>

\* Faulty: the duty cycle is kept in a wider integer.
FadesWide == /\ At("fade", "turn")
             /\ PWM2DCH' = IF LEDdirection = 1 THEN PWM2DCH + 1 ELSE PWM2DCH - 1
             /\ UNCHANGED <<timeToUpdateState, batteryCharged, TMR0IE, LEDdirection, supply, silence>>

\* PWM2DCH++ or PWM2DCH--, an 8-bit register
Up(d)   == IF d = LedMax THEN 0 ELSE d + 1
Down(d) == IF d = 0 THEN LedMax ELSE d - 1

Fades == /\ At("fade", "turn")
         /\ PWM2DCH' = IF LEDdirection = 1 THEN Up(PWM2DCH) ELSE Down(PWM2DCH)
         /\ UNCHANGED <<timeToUpdateState, batteryCharged, TMR0IE, LEDdirection, supply, silence>>

\* the pulse turns at 0xFF and at 0x00
Turns == /\ At("turn", "battery")
         /\ LEDdirection' = CASE LEDdirection = 1 /\ PWM2DCH = LedMax -> 0
                              [] LEDdirection = 0 /\ PWM2DCH = 0 -> 1
                              [] OTHER -> LEDdirection
         /\ UNCHANGED <<timeToUpdateState, batteryCharged, TMR0IE, PWM2DCH, supply, silence>>

\* Faulty: asks in every update from 1000 on.
ChecksFrom == /\ batteryCounter >= CheckAt /\ batteryCounter < WrapAt
              /\ At("battery", "ask")
              /\ RC2' = 1
              /\ UNCHANGED <<timeToUpdateState, batteryCharged, TMR0IE, led,
                             batteryCounter, asked, silence>>

\* Faulty: trusts the answer of the watch to bring the 12 V back.
WrapsAt5V == /\ batteryCounter # CheckAt /\ batteryCounter >= WrapAt
             /\ At("battery", "timeout")
             /\ batteryCounter' = 0 /\ asked' = 0
             /\ UNCHANGED <<timeToUpdateState, batteryCharged, TMR0IE, led, RC2, silence>>

\* batteryCounter==1000: 5 V, then ask; >=2000: 12 V and start over
Checks == /\ batteryCounter = CheckAt
          /\ At("battery", "ask")
          /\ RC2' = 1
          /\ UNCHANGED <<timeToUpdateState, batteryCharged, TMR0IE, led,
                         batteryCounter, asked, silence>>

Wraps == /\ batteryCounter # CheckAt /\ batteryCounter >= WrapAt
         /\ At("battery", "timeout")
         /\ RC2' = 0 /\ batteryCounter' = 0 /\ asked' = 0
         /\ UNCHANGED <<timeToUpdateState, batteryCharged, TMR0IE, led, silence>>

Charges == /\ batteryCounter # CheckAt /\ batteryCounter < WrapAt
           /\ At("battery", "timeout")
           /\ UNCHANGED <<timeToUpdateState, batteryCharged, TMR0IE, led, supply, silence>>

\* uart_putc('T'): the write, when TRMT allows it, and then timeOutCounter=0
Asks == /\ At("ask", "asked")
        /\ asked' = IF asked < 2 THEN asked + 1 ELSE asked
        /\ UNCHANGED <<timeToUpdateState, batteryCharged, TMR0IE, led,
                       batteryCounter, RC2, silence>>

Asked == /\ At("asked", "timeout")
         /\ Sound
         /\ UNCHANGED <<timeToUpdateState, batteryCharged, TMR0IE, led, supply>>

\* if(timeOutCounter>=500)
TestsTimeOut == /\ At("timeout", IF timeOutCounter >= TimeOut THEN "dark" ELSE "count")
                /\ late' = 0
                /\ UNCHANGED <<timeToUpdateState, batteryCharged, TMR0IE, led, supply,
                               timeOutCounter, quiet>>

\* PWM2DCH=0x00; TMR0IE=0; timeOutCounter=0;
LedOff == /\ At("dark", "off")
          /\ PWM2DCH' = 0
          /\ UNCHANGED <<timeToUpdateState, batteryCharged, TMR0IE, LEDdirection, supply, silence>>

TimerOff == /\ At("off", "zero")
            /\ TMR0IE' = 0
            /\ UNCHANGED <<timeToUpdateState, batteryCharged, led, supply, silence>>

Zeroes == /\ At("zero", "count")
          /\ timeOutCounter' = 0 /\ quiet' = 0
          /\ UNCHANGED <<timeToUpdateState, batteryCharged, TMR0IE, led, supply, late>>

\* Faulty: a counter of one byte.
NoCarry == /\ At("carry", "age")
           /\ quiet' = IF quiet < TimeOut THEN quiet + 1 ELSE quiet
           /\ UNCHANGED <<timeToUpdateState, timeOutCounter, batteryCharged, TMR0IE,
                          led, supply, late>>

\* timeOutCounter++: the low byte, and the high byte if the low one wrapped
OneMore == quiet' = IF quiet < TimeOut THEN quiet + 1 ELSE quiet

CountsLow == /\ pc = "count" /\ timeOutCounter % Base # Base - 1
             /\ pc' = "age"
             /\ timeOutCounter' = timeOutCounter + 1
             /\ OneMore
             /\ UNCHANGED <<timeToUpdateState, batteryCharged, TMR0IE, led, supply, late>>

LowWraps == /\ pc = "count" /\ timeOutCounter % Base = Base - 1
            /\ pc' = "carry"
            /\ timeOutCounter' = timeOutCounter - (Base - 1)
            /\ UNCHANGED <<timeToUpdateState, batteryCharged, TMR0IE, led, supply, quiet, late>>

CountsHigh == /\ At("carry", "age")
              /\ timeOutCounter' = (timeOutCounter + Base) % (Base * Base)
              /\ OneMore
              /\ UNCHANGED <<timeToUpdateState, batteryCharged, TMR0IE, led, supply, late>>

\* batteryCounter++;
Ages == /\ At("age", "done")
        /\ batteryCounter' = batteryCounter + 1
        /\ UNCHANGED <<timeToUpdateState, batteryCharged, TMR0IE, led, RC2, asked, silence>>

\* Faulty: the request stays, and the station updates without pause.
EndsAsking == /\ At("done", "keys")
              /\ UNCHANGED <<timeToUpdateState, batteryCharged, TMR0IE, led, supply, silence>>

\* timeToUpdateState = 0;  an overflow during the update is forgotten
Ends == /\ At("done", "keys")
        /\ timeToUpdateState' = 0
        /\ UNCHANGED <<batteryCharged, TMR0IE, led, supply, silence>>

Update == \/ Begins \/ TestsCharged \/ Fades \/ Turns
          \/ Checks \/ Wraps \/ Charges \/ Asks \/ Asked
          \/ TestsTimeOut \/ LedOff \/ TimerOff \/ Zeroes
          \/ CountsLow \/ LowWraps \/ CountsHigh \/ Ages \/ Ends
-----------------------------------------------------------------------------
(* handleKeys, as far as it touches this state; see KeyHandler. *)

KeySends == /\ At("keys", "keys")
            /\ Sound
            /\ UNCHANGED <<timeToUpdateState, batteryCharged, TMR0IE, led, supply>>

\* diagnostic mode: 'X', 5 V for three seconds, and 12 V again
SendsX == /\ At("keys", "diagnose")
          /\ Sound
          /\ UNCHANGED <<timeToUpdateState, batteryCharged, TMR0IE, led, supply>>

DiagnosticOn == /\ At("diagnose", "diagnostic")
                /\ RC2' = 1
                /\ UNCHANGED <<timeToUpdateState, batteryCharged, TMR0IE, led,
                               batteryCounter, asked, silence>>

DiagnosticOff == /\ At("diagnostic", "keys")
                 /\ RC2' = 0
                 /\ UNCHANGED <<timeToUpdateState, batteryCharged, TMR0IE, led,
                                batteryCounter, asked, silence>>

KeysReturn == /\ At("keys", "loop")
              /\ UNCHANGED <<timeToUpdateState, batteryCharged, TMR0IE, led, supply, silence>>

Keys == KeySends \/ SendsX \/ DiagnosticOn \/ DiagnosticOff \/ KeysReturn

Next == Interrupt \/ Update \/ Keys

Spec == Init /\ [][Next]_vars

\* The processor executes the main loop, buttons are released in the end, and
\* the timer overflows.  The watch and the host owe nothing.
Fairness == /\ WF_vars(Update) /\ WF_vars(TimerOverflow)
            /\ WF_vars(KeysReturn) /\ WF_vars(DiagnosticOn) /\ WF_vars(DiagnosticOff)

FairSpec == Spec /\ Fairness
-----------------------------------------------------------------------------
InBody == {"led", "fade", "turn", "battery", "ask", "asked", "timeout", "dark", "off",
           "zero", "count", "carry", "age", "done"}
Labels == InBody \cup {"loop", "keys", "diagnose", "diagnostic"}

TypeOK == /\ pc \in Labels
          /\ timeToUpdateState \in {0, 1} /\ batteryCharged \in {0, 1}
          /\ TMR0IE \in {0, 1} /\ RC2 \in {0, 1} /\ LEDdirection \in {0, 1}
          /\ timeOutCounter \in 0..(Base * Base - 1)
          /\ batteryCounter \in 0..WrapAt
          /\ PWM2DCH \in 0..LedMax
          /\ quiet \in 0..TimeOut /\ late \in {0, 1} /\ asked \in 0..2

\* The station falls asleep only when no 'H' was heard and nothing sent for TimeOut
\* updates, less one byte of the counter (a reset between the two bytes of an
\* increment leaves a carry behind), unless that happened after the test.  A 'B' or
\* 'N' does not count: a station that has just heard one may fall asleep.
SleepJustified == pc \in {"dark", "off"} => late = 1 \/ quiet > TimeOut - Base

\* What the firmware without USB does, whose interrupt routine tests and
\* increments in one go: it never falls asleep right after an 'H' or a byte it sent.
SleepOnlyAfterTimeOut == [][TMR0IE = 1 /\ TMR0IE' = 0 => quiet = TimeOut]_vars

\* Outside the diagnostic mode 5 V means that a measurement is under way; no
\* order of answers, key presses and time-outs leaves the station at 5 V in the
\* first half of the cycle, where it is to charge.
FiveVoltsOnlyToMeasure ==
    RC2 = 1 /\ pc # "diagnostic" => batteryCounter \in CheckAt..WrapAt

\* The watch is asked exactly once in every cycle of batteryCounter, also when
\* the station slept and woke up in the middle of it.
OneQuestionPerCycle == /\ asked <= 1
                       /\ batteryCounter < CheckAt => asked = 0
                       /\ batteryCounter > CheckAt => asked = 1

\* Asleep and back in the loop no update is pending, and the LED is not on the
\* pulse: an overflow that fires while the update puts the station to sleep must not
\* light it again.  A 'B' that comes late lights it all the same, at the glow.
AsleepIsQuiet == TMR0IE = 0 /\ pc \notin InBody =>
                    timeToUpdateState = 0 /\ PWM2DCH \in {0, Glow}

\* With a full battery the LED glows steadily, up to the one step of the pulse
\* that was decided upon before the answer came.
SteadyWhenFull == batteryCharged = 1 /\ TMR0IE = 1 /\ pc # "off" =>
                    PWM2DCH \in (Glow - 1)..(Glow + 1)

\* What the LED shows of a sleeping station and of a full battery.
LedIsTrue == AsleepIsQuiet /\ SteadyWhenFull

\* A station that nobody talks to any more falls asleep, although an increment may
\* lose its low byte, overflows may be forgotten, and its own question to the watch
\* starts the time-out over.
FallsAsleep == []<><<HearsHi \/ HostSends \/ KeySends \/ SendsX>>_vars \/ []<>(TMR0IE = 0)

\* A measurement ends without an answer too, while the station is awake.
MeasuringEnds == RC2 = 1 ~> RC2 = 0 \/ TMR0IE = 0

\* Left alone the station ends what it does.
EndsByItself == FallsAsleep /\ MeasuringEnds
=============================================================================
