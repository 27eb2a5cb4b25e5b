-------------------------- MODULE KeyHandlerProofs --------------------------
(***************************************************************************)
(* What KeyHandler promises for every repeat count, window and debounce,   *)
(* and for both firmwares.                                                 *)
(***************************************************************************)
EXTENDS KeyHandler, TLAPS

\* TypeOK in two parts: the numbers and labels, and the flags.
Numbers == /\ buttons \subseteq Keys /\ i \in 0..RepeatBound
           /\ pc \in {"top", "plus", "minus", "mode", "swap", "diagnose", "countPlus", "countMinus"}
           /\ w \in 0..(Window + Debounce) /\ pressCount \in 0..Window
           /\ presses \in 0..Window
Flags   == /\ modeButtonPressed \in BOOLEAN /\ buttonUp \in BOOLEAN
           /\ modeWasUp \in BOOLEAN /\ seenUp \in BOOLEAN

\* A press the count has yet to see: the key is down, and was last seen up.
Unseen(k) == IF k \in buttons /\ buttonUp THEN 1 ELSE 0

\* No count runs ahead of the rounds it has had, nor of the presses of its key.
Count == /\ pressCount <= w
         /\ \A k \in {"plus", "minus"} : pc = Counting(k) =>
              pressCount + Unseen(k) <= presses \/ presses = Window

\* The flag of the mode key is only down when the key was up after the last 'M', and
\* it is down after a look that found the key up.
Mode == /\ "mode" \notin buttons => modeWasUp
        /\ ~modeButtonPressed => modeWasUp
        /\ seenUp => ~modeButtonPressed

IInv == TypeOK /\ Count /\ Mode

\* In a round that starts with i=0 nothing is counted before the first step.
Fresh == /\ pc \in {"plus", "minus"} /\ first = "none" => i = 0
         /\ pc \in {"countPlus", "countMinus"} => first # "none"
         /\ first \in {"none", "u", "d"}
-----------------------------------------------------------------------------
\* The handler starts in the invariant.
LEMMA Starts == Init => IInv
  <1>1. Init => Numbers
    BY KeyAssumption DEF Init, Numbers, Keys
  <1>2. Init => Flags
    BY Zenon DEF Init, Flags
  <1>3. Init => Count /\ Mode
    BY KeyAssumption DEF Init, Count, Mode, Counting, Unseen
  <1> QED  BY <1>1, <1>2, <1>3 DEF IInv, TypeOK, Numbers, Flags

\* Every round of every loop and every move of a key keeps it.
LEMMA Inductive == ASSUME IInv, [Next]_vars PROVE IInv'
  <1> USE KeyAssumption DEF IInv, TypeOK, Count, Mode, Counting, Unseen, Keys
  <1>1. ASSUME NEW k \in Keys, UserPresses(k) PROVE IInv'
    BY <1>1 DEF UserPresses, locals
  <1>2. ASSUME NEW k \in Keys, UserReleases(k) PROVE IInv'
    BY <1>2 DEF UserReleases, locals
  <1>3. CASE Enter
    BY <1>3 DEF Enter, locals
  <1>4. ASSUME NEW k \in {"plus", "minus"}, RepeatsStep(k) PROVE IInv'
    <2>1. TypeOK'
      <3>1. Numbers'
        BY <1>4 DEF Numbers, RepeatsStep
      <3>2. Flags'
        BY <1>4, Zenon DEF Flags, RepeatsStep
      <3> QED  BY <3>1, <3>2 DEF TypeOK, Numbers, Flags
    <2>2. Count'
      BY <1>4 DEF RepeatsStep
    <2>3. Mode'
      BY <1>4 DEF RepeatsStep
    <2> QED  BY <2>1, <2>2, <2>3
  <1>5. ASSUME NEW k \in {"plus", "minus"}, LeavesRepeat(k) PROVE IInv'
    BY <1>5 DEF LeavesRepeat, After, locals
  <1>6. ASSUME NEW k \in {"plus", "minus"}, CountsRound(k) PROVE IInv'
    <2>1. TypeOK'
      <3>1. Numbers'
        BY <1>6 DEF Numbers, CountsRound
      <3>2. Flags'
        BY <1>6, Zenon DEF Flags, CountsRound
      <3> QED  BY <3>1, <3>2 DEF TypeOK, Numbers, Flags
    <2>2. Count'
      BY <1>6 DEF CountsRound
    <2>3. Mode'
      BY <1>6 DEF CountsRound
    <2> QED  BY <2>1, <2>2, <2>3
  <1>7. ASSUME NEW k \in {"plus", "minus"}, SendsExtra(k) PROVE IInv'
    BY <1>7 DEF SendsExtra, locals
  <1>8. CASE ModePressed
    <2>1. TypeOK'
      <3>1. Numbers'
        BY <1>8 DEF Numbers, ModePressed, locals
      <3>2. Flags'
        BY <1>8, Zenon DEF Flags, ModePressed, locals
      <3> QED  BY <3>1, <3>2 DEF TypeOK, Numbers, Flags
    <2>2. Count'
      BY <1>8 DEF ModePressed, locals
    <2>3. Mode'
      BY <1>8 DEF ModePressed, locals
    <2> QED  BY <2>1, <2>2, <2>3
  <1>9. CASE ModeReleased
    <2>1. TypeOK'
      <3>1. Numbers'
        BY <1>9 DEF Numbers, ModeReleased, locals
      <3>2. Flags'
        BY <1>9, Zenon DEF Flags, ModeReleased, locals
      <3> QED  BY <3>1, <3>2 DEF TypeOK, Numbers, Flags
    <2>2. Count'
      BY <1>9 DEF ModeReleased, locals
    <2>3. Mode'
      BY <1>9 DEF ModeReleased, locals
    <2> QED  BY <2>1, <2>2, <2>3
  <1>10. CASE ModeUnchanged
    BY <1>10 DEF ModeUnchanged, locals
  <1>11. ASSUME NEW c \in {"swap", "diagnose"}, HoldsCombo(c) PROVE IInv'
    BY <1>11 DEF HoldsCombo, locals
  <1>12. ASSUME NEW c \in {"swap", "diagnose"}, LeavesCombo(c) PROVE IInv'
    BY <1>12 DEF LeavesCombo, FollowedBy, locals
  <1>13. CASE UNCHANGED vars
    BY <1>13 DEF vars, locals
  <1> QED  BY <1>1, <1>2, <1>3, <1>4, <1>5, <1>6, <1>7, <1>8, <1>9, <1>10, <1>11, <1>12, <1>13
           DEF Next, Step
-----------------------------------------------------------------------------
\* Counts and flags are right at every label of the handler.
THEOREM Invariance == Spec => []IInv
  BY Starts, Inductive, PTL DEF Spec

\* The counts and flags keep their ranges in both firmwares, whatever the user does.
THEOREM TypeCorrect == Spec => []TypeOK
  <1>1. IInv => TypeOK
    BY DEF IInv
  <1> QED  BY <1>1, Invariance, PTL

\* No press is invented by the counts of countStepsRA3 and countStepsRA4.
THEOREM NoneInvented == Spec => []NoPhantomPress
  <1>1. IInv => NoPhantomPress
    <2> SUFFICES ASSUME IInv, pc \in {"countPlus", "countMinus"} PROVE pressCount <= presses
      BY DEF NoPhantomPress
    <2>1. PICK k \in {"plus", "minus"} : pc = Counting(k)
      BY DEF Counting
    <2>2. pressCount \in 0..Window /\ presses \in 0..Window /\ Window \in Nat
      BY KeyAssumption DEF IInv, TypeOK
    <2> QED  BY <2>1, <2>2 DEF IInv, Count, Unseen
  <1> QED  BY <1>1, Invariance, PTL

\* No step but ModePressed sends an 'M'.
LEMMA OnlyThere == ASSUME IInv, Next, sent' = "M" PROVE ModePressed
  <1>1. ASSUME NEW k \in Keys PROVE ~UserPresses(k) /\ ~UserReleases(k)
    BY DEF UserPresses, UserReleases
  <1>2. ASSUME NEW k \in {"plus", "minus"} PROVE ~RepeatsStep(k)
    BY DEF RepeatsStep, Repeat, ByOne
  <1>3. ASSUME NEW k \in {"plus", "minus"} PROVE ~LeavesRepeat(k) /\ ~CountsRound(k)
    BY DEF LeavesRepeat, CountsRound
  <1>4. ASSUME NEW k \in {"plus", "minus"} PROVE ~SendsExtra(k)
    <2>1. pressCount \in Nat
      BY KeyAssumption DEF IInv, TypeOK
    <2>2. Extra(k, pressCount) # "M"
      BY <2>1 DEF Extra, ByOne
    <2> QED  BY <2>2 DEF SendsExtra
  <1>5. ASSUME NEW c \in {"swap", "diagnose"} PROVE ~HoldsCombo(c) /\ ~LeavesCombo(c)
    BY DEF HoldsCombo, LeavesCombo, Order
  <1>6. ~Enter /\ ~ModeReleased /\ ~ModeUnchanged
    BY DEF Enter, ModeReleased, ModeUnchanged
  <1> QED  BY <1>1, <1>2, <1>3, <1>4, <1>5, <1>6 DEF Next, Step

\* At most one 'M' for each press of the mode key, and one for each press that two
\* looks of handleKeys tell from the last.
THEOREM OneMode == Spec => OneModePerPress
  <1> DEFINE Once  == sent' = "M" => modeWasUp
             Comes == pc = "mode" /\ pc' # "mode" /\ "mode" \in buttons /\ seenUp => sent' = "M"
  <1>1. IInv /\ [Next]_vars => [Once /\ Comes]_vars
    <2> SUFFICES ASSUME IInv, Next PROVE Once /\ Comes
      BY DEF vars
    <2>1. Once
      BY OnlyThere DEF ModePressed, IInv, Mode
    <2>2. ASSUME pc = "mode", pc' # "mode", "mode" \in buttons, seenUp PROVE sent' = "M"
      <3>1. ~modeButtonPressed
        BY <2>2 DEF IInv, Mode
      <3>2. ASSUME NEW k \in Keys PROVE ~UserPresses(k) /\ ~UserReleases(k)
        BY <2>2 DEF UserPresses, UserReleases
      <3>3. ASSUME NEW k \in {"plus", "minus"}
            PROVE ~RepeatsStep(k) /\ ~LeavesRepeat(k) /\ ~CountsRound(k) /\ ~SendsExtra(k)
        BY <2>2 DEF RepeatsStep, LeavesRepeat, CountsRound, SendsExtra, Counting
      <3>4. ASSUME NEW c \in {"swap", "diagnose"} PROVE ~HoldsCombo(c) /\ ~LeavesCombo(c)
        BY <2>2 DEF HoldsCombo, LeavesCombo
      <3>5. ~Enter /\ ~ModeReleased /\ ~ModeUnchanged
        BY <2>2, <3>1 DEF Enter, ModeReleased, ModeUnchanged
      <3> QED  BY <3>2, <3>3, <3>4, <3>5 DEF Next, Step, ModePressed
    <2> QED  BY <2>1, <2>2
  <1> QED  BY <1>1, Invariance, PTL DEF Spec, OneModePerPress

\* The first firmware starts every round with a step by one.
THEOREM FirstByOne == ASSUME KeepsCount = FALSE PROVE Spec => []FirstStepIsByOne
  <1>1. Init => Fresh
    BY DEF Init, Fresh
  <1>2. Fresh /\ [Next]_vars => Fresh'
    <2> SUFFICES ASSUME Fresh, [Next]_vars PROVE Fresh'
      OBVIOUS
    <2>1. ASSUME NEW k \in Keys, UserPresses(k) \/ UserReleases(k) PROVE Fresh'
      BY <2>1 DEF UserPresses, UserReleases, locals, Fresh
    <2>2. CASE Enter
      BY <2>2, KeepsCount = FALSE DEF Enter, locals, Fresh
    <2>3. ASSUME NEW k \in {"plus", "minus"}, RepeatsStep(k) PROVE Fresh'
      BY <2>3, KeyAssumption DEF RepeatsStep, Counting, Repeat, ByOne, Fresh
    <2>4. ASSUME NEW k \in {"plus", "minus"}, LeavesRepeat(k) PROVE Fresh'
      BY <2>4 DEF LeavesRepeat, After, locals, Fresh
    <2>5. ASSUME NEW k \in {"plus", "minus"}, CountsRound(k) PROVE Fresh'
      BY <2>5 DEF CountsRound, Counting, Fresh
    <2>6. ASSUME NEW k \in {"plus", "minus"}, SendsExtra(k) PROVE Fresh'
      BY <2>6 DEF SendsExtra, Counting, locals, Fresh
    <2>7. CASE ModePressed \/ ModeReleased \/ ModeUnchanged
      BY <2>7 DEF ModePressed, ModeReleased, ModeUnchanged, locals, Fresh
    <2>8. ASSUME NEW c \in {"swap", "diagnose"}, HoldsCombo(c) \/ LeavesCombo(c) PROVE Fresh'
      BY <2>8 DEF HoldsCombo, LeavesCombo, FollowedBy, locals, Fresh
    <2>9. CASE UNCHANGED vars
      BY <2>9 DEF vars, locals, Fresh
    <2> QED  BY <2>1, <2>2, <2>3, <2>4, <2>5, <2>6, <2>7, <2>8, <2>9 DEF Next, Step
  <1>3. Fresh => FirstStepIsByOne
    BY DEF Fresh, FirstStepIsByOne, Bigger
  <1> QED  BY <1>1, <1>2, <1>3, PTL DEF Spec
=============================================================================
