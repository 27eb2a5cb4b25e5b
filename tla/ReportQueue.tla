----------------------------- MODULE ReportQueue -----------------------------
(***************************************************************************)
(* What hidapi promises of the input reports of an open device, whatever   *)
(* the backend: a read returns the oldest report there is, each report is  *)
(* returned at most once and in the order of arrival, and a report nobody  *)
(* reads is given up only when Least newer ones wait, or with the device.  *)
(***************************************************************************)
EXTENDS Naturals, Sequences

CONSTANT Least

VARIABLES queue,    \* the numbers of the reports that wait to be read
          last      \* the number of the report read last

Init == queue = <<>> /\ last = 0

Arrives == /\ queue' = Append(queue, queue'[Len(queue) + 1])
           /\ \A n \in {last} \cup { queue[i] : i \in DOMAIN queue } : n < queue'[Len(queue) + 1]
           /\ UNCHANGED last

Reads == queue # <<>> /\ last' = Head(queue) /\ queue' = Tail(queue)

GivesUp == Len(queue) > Least /\ queue' = Tail(queue) /\ UNCHANGED last

Discards == queue' = <<>> /\ UNCHANGED last

Next == (Len(queue') > Len(queue) /\ Arrives) \/ Reads \/ GivesUp \/ Discards

Spec == Init /\ [][Next]_<<queue, last>>
=============================================================================
