----------------------------- MODULE KeyHandler -----------------------------
(***************************************************************************)
(* The keys of the base station: handleKeys, countStepsRA3 and             *)
(* countStepsRA4 of firmware/cstbase-hid/main.c.  A held key repeats its   *)
(* step, first by one, then by ten, then by an hour; quick presses within  *)
(* the half second after a step are counted and sent as one byte.  The     *)
(* user presses and releases keys at any moment.                           *)
(*                                                                         *)
(* KeepsCount says whose count it is: in the firmware with USB the repeat  *)
(* count i is static and outlives the call; the first firmware (main of    *)
(* CST-Base_Station_1454.X/main.c) has the same loops inline and starts    *)
(* each round with i=0.  Milliseconds are loop rounds.                     *)
(***************************************************************************)
EXTENDS Naturals, FiniteSets

CONSTANTS KeepsCount,       \* is i static?
          Slow, Medium,     \* last repeat by one, by ten: 10 and 22
          Hold,             \* rounds a combination is 5000
          Window, Debounce, \* rounds of a count and of a debounce, 510 and 10
          RepeatBound       \* bound of i: nobody holds a key longer

ASSUME KeyAssumption ==
    /\ KeepsCount \in BOOLEAN
    /\ Slow \in Nat /\ Medium \in Nat /\ Hold \in Nat
    /\ Window \in Nat /\ Debounce \in Nat /\ RepeatBound \in Nat
    /\ 0 < Slow /\ Slow < Medium /\ Medium < Hold /\ Hold + 1 < RepeatBound

Keys == {"plus", "minus", "mode"}

VARIABLES buttons,            \* the keys that are down
          i,                  \* repeats of a step, or rounds a combination is held
          modeButtonPressed,
          pc,
          w, pressCount, buttonUp,  \* the locals of countStepsRA3 and countStepsRA4
          sent,               \* the byte sent in the last step, or "none"
          first,              \* history: the first step of the clock sent in this call
          presses,            \* history: times the key went down in this count
          modeWasUp,          \* history: the mode key was up since the last 'M'
          seenUp              \* history: the last look of handleKeys found the mode key up

locals == <<w, pressCount, buttonUp>>
vars   == <<buttons, i, modeButtonPressed, pc, locals, sent, first, presses, modeWasUp, seenUp>>

Init == /\ buttons = {} /\ i = 0 /\ modeButtonPressed = FALSE
        /\ pc = "top"
        /\ w = 0 /\ pressCount = 0 /\ buttonUp = FALSE
        /\ sent = "none" /\ first = "none" /\ presses = 0
        /\ modeWasUp = TRUE /\ seenUp = TRUE

\* Steps of the clock: by one, by ten, by an hour; and for presses in a count.
ByOne    == [plus |-> "u", minus |-> "d"]
Bigger   == [plus |-> {"U", "P"}, minus |-> {"D", "W"}]
Repeat(k, n) == IF n <= Slow THEN ByOne[k]
                ELSE IF n > Medium THEN IF k = "plus" THEN "P" ELSE "W"
                                   ELSE IF k = "plus" THEN "U" ELSE "D"
Extra(k, n) == CASE n = 0 -> "none"
                 [] n = 1 -> ByOne[k]
                 [] n = 2 -> IF k = "plus" THEN "a" ELSE "z"
                 [] n > 2 -> IF k = "plus" THEN "b" ELSE "y"

Counting(k) == IF k = "plus" THEN "countPlus" ELSE "countMinus"
After(k)    == IF k = "plus" THEN "minus" ELSE "mode"
-----------------------------------------------------------------------------
\* A key goes down or comes up, at any moment.
UserPresses(k) ==
    /\ k \notin buttons
    /\ buttons' = buttons \cup {k}
    /\ presses' = IF k # "mode" /\ pc = Counting(k) /\ presses < Window
                  THEN presses + 1 ELSE presses
    /\ sent' = "none"
    /\ UNCHANGED <<i, modeButtonPressed, pc, locals, first, modeWasUp, seenUp>>

UserReleases(k) ==
    /\ k \in buttons
    /\ buttons' = buttons \ {k}
    /\ modeWasUp' = (modeWasUp \/ k = "mode")
    /\ sent' = "none"
    /\ UNCHANGED <<i, modeButtonPressed, pc, locals, first, presses, seenUp>>

\* handleKeys is called; the first firmware begins the round with i=0.
Enter == /\ pc = "top" /\ pc' = "plus"
         /\ i' = IF KeepsCount THEN i ELSE 0
         /\ first' = "none" /\ sent' = "none"
         /\ UNCHANGED <<buttons, modeButtonPressed, locals, presses, modeWasUp, seenUp>>

\* while(only k pressed) { i++; send the step; count presses; ... }
RepeatsStep(k) ==
    /\ pc = k /\ buttons = {k} /\ i < RepeatBound
    /\ pc' = Counting(k)
    /\ i' = i + 1
    /\ sent' = Repeat(k, i + 1)
    /\ first' = IF first = "none" THEN Repeat(k, i + 1) ELSE first
    /\ w' = 0 /\ pressCount' = 0 /\ buttonUp' = FALSE /\ presses' = 0
    /\ UNCHANGED <<buttons, modeButtonPressed, modeWasUp, seenUp>>

LeavesRepeat(k) == /\ pc = k /\ buttons # {k}
                   /\ pc' = After(k)
                   /\ sent' = "none"
                   /\ UNCHANGED <<buttons, i, modeButtonPressed, locals, first, presses, modeWasUp, seenUp>>

\* Faulty: counts every round in which the key is down.
CountsLevels(k) ==
    /\ pc = Counting(k) /\ w < Window
    /\ IF k \in buttons /\ w > 0 THEN pressCount' = pressCount + 1 ELSE UNCHANGED pressCount
    /\ w' = w + 1
    /\ sent' = "none"
    /\ UNCHANGED <<buttons, i, modeButtonPressed, pc, buttonUp, first, presses, modeWasUp, seenUp>>

\* Faulty: time passes only while the key is down.
CountsWhileDown(k) ==
    /\ pc = Counting(k) /\ w < Window
    /\ w' = IF k \in buttons THEN w + 1 ELSE w
    /\ sent' = "none"
    /\ UNCHANGED <<buttons, i, modeButtonPressed, pc, pressCount, buttonUp, first, presses,
                   modeWasUp, seenUp>>

\* for(i=0; i<510; i++): a change of the key costs ten rounds more
CountsRound(k) ==
    /\ pc = Counting(k) /\ w < Window
    /\ LET up   == k \notin buttons /\ ~buttonUp
           down == k \in buttons /\ buttonUp
       IN  /\ buttonUp' = IF up THEN TRUE ELSE IF down THEN FALSE ELSE buttonUp
           /\ pressCount' = IF down THEN pressCount + 1 ELSE pressCount
           /\ w' = IF up \/ down THEN w + Debounce + 1 ELSE w + 1
    /\ sent' = "none"
    /\ UNCHANGED <<buttons, i, modeButtonPressed, pc, first, presses, modeWasUp, seenUp>>

SendsExtra(k) == /\ pc = Counting(k) /\ w >= Window
                 /\ pc' = k
                 /\ sent' = Extra(k, pressCount)
                 /\ UNCHANGED <<buttons, i, modeButtonPressed, locals, first, presses, modeWasUp, seenUp>>

\* Faulty: no flag, one 'M' in every round the key is down.
ModePressedAgain == /\ pc = "mode" /\ "mode" \in buttons
                    /\ pc' = "swap"
                    /\ modeButtonPressed' = TRUE /\ sent' = "M" /\ modeWasUp' = FALSE
                    /\ seenUp' = ("mode" \notin buttons)
                    /\ UNCHANGED <<buttons, i, locals, first, presses>>

\* the mode key: 'M' when it is down and was not before
ModePressed == /\ pc = "mode" /\ "mode" \in buttons /\ ~modeButtonPressed
               /\ pc' = "swap"
               /\ modeButtonPressed' = TRUE
               /\ sent' = "M" /\ modeWasUp' = FALSE
               /\ seenUp' = ("mode" \notin buttons)
               /\ UNCHANGED <<buttons, i, locals, first, presses>>

ModeReleased == /\ pc = "mode" /\ "mode" \notin buttons /\ modeButtonPressed
                /\ pc' = "swap"
                /\ modeButtonPressed' = FALSE
                /\ sent' = "none"
                /\ seenUp' = ("mode" \notin buttons)
                /\ UNCHANGED <<buttons, i, locals, first, presses, modeWasUp>>

ModeUnchanged == /\ pc = "mode" /\ modeButtonPressed = ("mode" \in buttons)
                 /\ pc' = "swap"
                 /\ sent' = "none"
                 /\ seenUp' = ("mode" \notin buttons)
                 /\ UNCHANGED <<buttons, i, modeButtonPressed, locals, first, presses, modeWasUp>>

\* A combination held down: while(...) { wait; if(i>5000) { send; i=0; } i++; }
Combo == [swap |-> Keys, diagnose |-> {"plus", "minus"}]
Order == [swap |-> "S", diagnose |-> "X"]
FollowedBy(c) == IF c = "swap" THEN "diagnose" ELSE "top"

\* Faulty: i is not set back after sending.
HoldsOn(c) == /\ pc = c /\ buttons = Combo[c]
              /\ sent' = IF i > Hold THEN Order[c] ELSE "none"
              /\ i' = i + 1
              /\ UNCHANGED <<buttons, modeButtonPressed, pc, locals, first, presses, modeWasUp, seenUp>>

HoldsCombo(c) == /\ pc = c /\ buttons = Combo[c]
                 /\ sent' = IF i > Hold THEN Order[c] ELSE "none"
                 /\ i' = IF i > Hold THEN 1 ELSE i + 1
                 /\ UNCHANGED <<buttons, modeButtonPressed, pc, locals, first, presses, modeWasUp, seenUp>>

LeavesCombo(c) == /\ pc = c /\ buttons # Combo[c]
                  /\ pc' = FollowedBy(c)
                  /\ sent' = "none"
                  /\ UNCHANGED <<buttons, i, modeButtonPressed, locals, first, presses, modeWasUp, seenUp>>

Step == \/ Enter
        \/ \E k \in {"plus", "minus"} :
              RepeatsStep(k) \/ LeavesRepeat(k) \/ CountsRound(k) \/ SendsExtra(k)
        \/ ModePressed \/ ModeReleased \/ ModeUnchanged
        \/ \E c \in {"swap", "diagnose"} : HoldsCombo(c) \/ LeavesCombo(c)

Next == Step \/ \E k \in Keys : UserPresses(k) \/ UserReleases(k)

Spec == Init /\ [][Next]_vars

\* The processor executes the loop; the user owes nothing.
FairSpec == Spec /\ WF_vars(Step)
-----------------------------------------------------------------------------
TypeOK == /\ buttons \subseteq Keys /\ i \in 0..RepeatBound
          /\ modeButtonPressed \in BOOLEAN
          /\ pc \in {"top", "plus", "minus", "mode", "swap", "diagnose", "countPlus", "countMinus"}
          /\ w \in 0..(Window + Debounce) /\ pressCount \in 0..Window /\ buttonUp \in BOOLEAN
          /\ presses \in 0..Window /\ modeWasUp \in BOOLEAN
          /\ seenUp \in BOOLEAN

\* Presses are never invented: what a count adds to the clock the user did
\* press, however the key bounces around the rounds that look at it.
NoPhantomPress == pc \in {"countPlus", "countMinus"} => pressCount <= presses

\* handleKeys looks at the mode key once in a call, and is in the loops of other keys
\* for seconds in between.  An 'M' is never sent twice for one press, however the key
\* moves, and it is sent for a press that a look finds where the look before found the
\* key up.  It is not sent for a press of which no look sees the start: the key let go
\* and pressed again between two looks, for the firmware, is held down.
OneModePerPress ==
    [][ /\ sent' = "M" => modeWasUp
        /\ pc = "mode" /\ pc' # "mode" /\ "mode" \in buttons /\ seenUp => sent' = "M" ]_vars

\* The comment at the repeat says it steps by one for the first five seconds: the
\* first step a call sends is a step by one, whatever was held before.
FirstStepIsByOne == first \notin Bigger.plus \cup Bigger.minus

\* When the keys are let go the call returns, and the rest of the main loop runs.
ReturnsWhenReleased == <>[](buttons = {}) => []<>(pc = "top")
=============================================================================
