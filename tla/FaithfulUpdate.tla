--------------------------- MODULE FaithfulUpdate ---------------------------
(***************************************************************************)
(* The two firmwares side by side: ChargeControl with a copy of the state  *)
(* each update started from.  The README of the firmware says that the one *)
(* with USB "tries to be a faithful recreation" of the one without, with   *)
(* changes "mostly in the ISR".                                            *)
(***************************************************************************)
EXTENDS ChargeControl

VARIABLES before,     \* history: the state when the update began
          disturbed   \* history: an interrupt changed something since then

pairVars == <<vars, before, disturbed>>

Original == INSTANCE OriginalStation
            WITH st <- before, pc <- pc, quiet <- quiet, IntMax <- Base * Base - 1

\* The state of the station, as the first firmware has it.
Station == [ PWM2DCH |-> PWM2DCH, LEDdirection |-> LEDdirection,
             batteryCharged |-> batteryCharged, batteryCounter |-> batteryCounter,
             RC2 |-> RC2, timeOutCounter |-> timeOutCounter, TMR0IE |-> TMR0IE ]

PairInit == Init /\ before = Station /\ disturbed = 0

PairNext == \/ /\ Interrupt
               /\ disturbed' = IF Station' = Station THEN disturbed ELSE 1
               /\ UNCHANGED before
            \/ /\ Update \/ Keys
               /\ IF pc = "loop" THEN before' = Station /\ disturbed' = 0
                                 ELSE UNCHANGED <<before, disturbed>>

PairSpec == PairInit /\ [][PairNext]_pairVars

FairPairSpec == PairSpec /\ Fairness

\* An update into which no interrupt falls does what the interrupt routine of
\* the first firmware does in one go, from every state either can be in.
RecreatesUpdate == pc = "done" /\ disturbed = 0 => Station = Original!Tick(before)
=============================================================================
