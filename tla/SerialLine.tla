----------------------------- MODULE SerialLine -----------------------------
(***************************************************************************)
(* What the watch may rely on: the serial line of the base station is a    *)
(* lossless first-in first-out channel that holds at most two bytes, and   *)
(* the bytes of one command arrive next to each other.  Nothing here knows *)
(* of registers, of interrupts or of who sends.                            *)
(***************************************************************************)
EXTENDS Naturals, Sequences

CONSTANT Item            \* what can be sent

VARIABLES accepted,      \* everything a sender handed over, oldest first
          delivered      \* everything that left the station, oldest first

lineVars == <<accepted, delivered>>

Init == accepted = <<>> /\ delivered = <<>>

Accept(x) == /\ Len(accepted) - Len(delivered) < 2
             /\ accepted' = Append(accepted, x)
             /\ UNCHANGED delivered

Deliver == /\ Len(delivered) < Len(accepted)
           /\ delivered' = Append(delivered, accepted[Len(delivered) + 1])
           /\ UNCHANGED accepted

Next == Deliver \/ \E x \in Item : Accept(x)

Spec == Init /\ [][Next]_lineVars
=============================================================================
