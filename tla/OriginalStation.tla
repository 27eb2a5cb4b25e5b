--------------------------- MODULE OriginalStation ---------------------------
(***************************************************************************)
(* Charging, LED and power-down of the first base station, without USB,    *)
(* firmware/CST-Base_Station_1454.X/main.c.  The whole update is done by   *)
(* its interrupt routine, so nothing comes between its steps: one update   *)
(* is a function of the station's state.                                   *)
(*                                                                         *)
(* The firmware with USB calls itself a faithful recreation of this one;   *)
(* FaithfulUpdate compares the two.                                        *)
(***************************************************************************)
EXTENDS Naturals

CONSTANTS TimeOut, CheckAt, WrapAt,   \* 500, 1000 and 2000 updates
          IntMax,                     \* largest int of the compiler, 2^15 - 1
          LedMax, Glow                \* duty cycles 0xFF and 0x44

ASSUME OriginalAssumption ==
    /\ TimeOut \in Nat /\ CheckAt \in Nat /\ WrapAt \in Nat /\ IntMax \in Nat
    /\ LedMax \in Nat /\ Glow \in Nat
    /\ 0 < TimeOut /\ 0 < CheckAt /\ CheckAt < WrapAt
    /\ TimeOut < IntMax /\ WrapAt < IntMax
    /\ 0 < Glow /\ Glow < LedMax

VARIABLES st,       \* the state of the station
          pc,       \* where the main loop is
          quiet     \* history: updates since an 'H' was heard or a byte sent, up to TimeOut

vars == <<st, pc, quiet>>

Stations == [ PWM2DCH : 0..LedMax, LEDdirection : {0, 1},
              batteryCharged : {0, 1}, batteryCounter : 0..IntMax,
              RC2 : {0, 1},                        \* 1: 5 V, 0: 12 V
              timeOutCounter : 0..IntMax, TMR0IE : {0, 1} ]

Init == /\ st = [ PWM2DCH |-> 0, LEDdirection |-> 0, batteryCharged |-> 0,
                  batteryCounter |-> 0, RC2 |-> 0, timeOutCounter |-> 0, TMR0IE |-> 0 ]
        /\ pc = "loop"
        /\ quiet = 0
-----------------------------------------------------------------------------
(* The timer branch of the interrupt routine. *)

\* the LED pulse: one step, and a turn at 0xFF and at 0x00
Pulse(s) ==
    LET duty == IF s.LEDdirection = 1 THEN (s.PWM2DCH + 1) % (LedMax + 1)
                                      ELSE (s.PWM2DCH + LedMax) % (LedMax + 1)
        edge == IF s.LEDdirection = 1 THEN LedMax ELSE 0
    IN  IF s.batteryCharged = 1 THEN s
        ELSE [s EXCEPT !.PWM2DCH = duty,
                       !.LEDdirection = IF duty = edge THEN 1 - @ ELSE @]

\* the check of the battery; putByteUSART('T') clears timeOutCounter
AsksIn(s) == s.batteryCounter = CheckAt

Battery(s) == IF AsksIn(s) THEN [s EXCEPT !.RC2 = 1, !.timeOutCounter = 0]
              ELSE IF s.batteryCounter >= WrapAt
                   THEN [s EXCEPT !.RC2 = 0, !.batteryCounter = 0]
                   ELSE s

PowerDown(s) == IF s.timeOutCounter >= TimeOut
                THEN [s EXCEPT !.PWM2DCH = 0, !.TMR0IE = 0, !.timeOutCounter = 0]
                ELSE s

Count(s) == [s EXCEPT !.timeOutCounter = @ + 1, !.batteryCounter = @ + 1]

Tick(s) == Count(PowerDown(Battery(Pulse(s))))
-----------------------------------------------------------------------------
TimerOverflow ==
    /\ st.TMR0IE = 1
    /\ st' = Tick(st)
    /\ quiet' = IF AsksIn(st) THEN 1 ELSE IF quiet < TimeOut THEN quiet + 1 ELSE quiet
    /\ UNCHANGED pc

\* Faulty: only waking up starts the time-out over.
HearsHiOnce == /\ st' = IF st.TMR0IE = 0
                        THEN [st EXCEPT !.TMR0IE = 1, !.batteryCharged = 0,
                                        !.PWM2DCH = LedMax, !.timeOutCounter = 0]
                        ELSE st
               /\ quiet' = 0
               /\ UNCHANGED pc

\* The receive branch.
HearsHi == /\ st' = IF st.TMR0IE = 0
                    THEN [st EXCEPT !.TMR0IE = 1, !.batteryCharged = 0,
                                    !.PWM2DCH = LedMax, !.timeOutCounter = 0]
                    ELSE [st EXCEPT !.timeOutCounter = 0]
           /\ quiet' = 0
           /\ UNCHANGED pc

HearsFull == /\ st' = [st EXCEPT !.batteryCharged = 1, !.PWM2DCH = Glow, !.RC2 = 0]
             /\ UNCHANGED <<pc, quiet>>

HearsNotFull == /\ st' = [st EXCEPT !.batteryCharged = 0, !.RC2 = 0]
                /\ UNCHANGED <<pc, quiet>>

\* The main loop: putByteUSART for a key, and the diagnostic mode.
KeySends == /\ pc = "loop"
            /\ st' = [st EXCEPT !.timeOutCounter = 0]
            /\ quiet' = 0
            /\ UNCHANGED pc

SendsX == /\ pc = "loop" /\ pc' = "diagnose"
          /\ st' = [st EXCEPT !.timeOutCounter = 0]
          /\ quiet' = 0

DiagnosticOn == /\ pc = "diagnose" /\ pc' = "diagnostic"
                /\ st' = [st EXCEPT !.RC2 = 1]
                /\ UNCHANGED quiet

DiagnosticOff == /\ pc = "diagnostic" /\ pc' = "loop"
                 /\ st' = [st EXCEPT !.RC2 = 0]
                 /\ UNCHANGED quiet

Next == \/ TimerOverflow \/ HearsHi \/ HearsFull \/ HearsNotFull
        \/ KeySends \/ SendsX \/ DiagnosticOn \/ DiagnosticOff

Spec == Init /\ [][Next]_vars
-----------------------------------------------------------------------------
TypeOK == st \in Stations /\ pc \in {"loop", "diagnose", "diagnostic"} /\ quiet \in 0..TimeOut

\* The station falls asleep only when TimeOut updates have gone by since it last
\* heard an 'H' or sent a byte; an answer, 'B' or 'N', does not keep it awake.
SleepOnlyAfterTimeOut == [][st.TMR0IE = 1 /\ st'.TMR0IE = 0 => quiet = TimeOut]_vars

\* A station that asks the watch for its voltage stays awake for the answer.
AwakeForTheAnswer == [][AsksIn(st) /\ st'.batteryCounter > CheckAt => st'.TMR0IE = 1]_vars

\* Asleep, the LED is off, or glows if the answer came after the time-out; it
\* never stays somewhere on the pulse.
DarkAsleep == st.TMR0IE = 0 => st.PWM2DCH \in {0, Glow}
=============================================================================
