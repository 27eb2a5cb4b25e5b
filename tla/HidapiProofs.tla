----------------------------- MODULE HidapiProofs -----------------------------
(***************************************************************************)
(* What the four backends of hidapi promise, for every number of reports,  *)
(* every limit of the list and every number of reports the system holds:   *)
(* each implements the ReportQueue, a read fails only when the device is   *)
(* gone or a call of the system has failed, and hid_close frees what is    *)
(* still in use only in the ways that CloseSafe names.                     *)
(***************************************************************************)
EXTENDS HidapiBackends, SequenceTheorems, TLAPS

Waiting == reports \o os

\* The numbers of the reports that wait are in order and beyond the one read last.
Order == /\ last <= sent
         /\ \A i \in 1..Len(Waiting) : last < Waiting[i]
         /\ \A i, j \in 1..Len(Waiting) : i < j => Waiting[i] < Waiting[j]

QueueOK == /\ last \in 0..Reports /\ sent \in 0..Reports
           /\ os \in Seq(1..sent) /\ reports \in Seq(1..sent)
           /\ Len(os) <= Pending /\ Len(reports) <= Limit + 2
           /\ Order

\* All that a step of any backend does to the two queues.
Kept      == UNCHANGED <<reports, os, last, sent>>
Collected == Sends /\ UNCHANGED <<reports, last>>
Moved     == os # <<>> /\ os' = Tail(os) /\ reports' = Queued(reports, Head(os)) /\ UNCHANGED <<last, sent>>
Taken     == reports # <<>> /\ last' = Head(reports) /\ reports' = Tail(reports) /\ UNCHANGED <<os, sent>>
Fetched   == /\ reports = <<>> /\ os # <<>>
             /\ last' = Head(os) /\ os' = Tail(os) /\ UNCHANGED <<reports, sent>>
Emptied   == reports' = <<>> /\ os' = <<>> /\ UNCHANGED <<last, sent>>

QueueStep == Kept \/ Collected \/ Moved \/ Taken \/ Fetched \/ Emptied
-----------------------------------------------------------------------------
LEMMA WaitingProps ==
    ASSUME QueueOK
    PROVE  /\ Waiting \in Seq(1..sent) /\ Len(Waiting) = Len(reports) + Len(os)
           /\ Len(reports) \in Nat /\ Len(os) \in Nat /\ sent \in Nat /\ last \in Nat
           /\ \A i \in 1..Len(Waiting) : Waiting[i] \in 1..sent
           /\ \A i \in 1..Len(reports) : Waiting[i] = reports[i]
           /\ \A i \in 1..Len(os) : Waiting[Len(reports) + i] = os[i]
  <1>1. sent \in Nat /\ last \in Nat
    BY DeviceAssumption DEF QueueOK
  <1>2. os \in Seq(1..sent) /\ reports \in Seq(1..sent)
    BY DEF QueueOK
  <1>3. Len(reports) \in Nat /\ Len(os) \in Nat
    BY <1>2, LenProperties
  <1>4. /\ Waiting \in Seq(1..sent) /\ Len(Waiting) = Len(reports) + Len(os)
        /\ \A i \in 1..Len(reports) + Len(os) :
              Waiting[i] = IF i <= Len(reports) THEN reports[i] ELSE os[i - Len(reports)]
    BY <1>2, ConcatProperties DEF Waiting
  <1>5. \A i \in 1..Len(Waiting) : Waiting[i] \in 1..sent
    BY <1>4, ElementOfSeq
  <1>6. \A i \in 1..Len(reports) : Waiting[i] = reports[i]
    BY <1>3, <1>4
  <1>7. \A i \in 1..Len(os) : Waiting[Len(reports) + i] = os[i]
    BY <1>3, <1>4
  <1> QED  BY <1>1, <1>3, <1>4, <1>5, <1>6, <1>7

\* A queue that loses its oldest report keeps its order.
LEMMA HeadGoes ==
    ASSUME QueueOK, Waiting # <<>>, Waiting' = Tail(Waiting), sent' = sent,
           last' \in {last, Head(Waiting)}
    PROVE  Order' /\ Head(Waiting) \in 1..sent
  <1>1. /\ Waiting \in Seq(1..sent) /\ Len(Waiting) \in Nat /\ Len(Waiting) > 0
        /\ \A i \in 1..Len(Waiting) : Waiting[i] \in 1..sent
        /\ sent \in Nat /\ last \in Nat
    BY WaitingProps, EmptySeq, LenProperties
  <1>2. /\ Len(Waiting') = Len(Waiting) - 1 /\ Head(Waiting) = Waiting[1]
        /\ \A i \in 1..Len(Waiting') : Waiting'[i] = Waiting[i + 1]
    BY <1>1, HeadTailProperties
  <1>3. 1 \in 1..Len(Waiting) /\ \A i \in 1..Len(Waiting') : i + 1 \in 1..Len(Waiting) /\ 1 < i + 1
    BY <1>1, <1>2
  <1>4. Head(Waiting) \in 1..sent /\ last < Head(Waiting)
    BY <1>1, <1>2, <1>3 DEF QueueOK, Order
  <1>5. last' <= sent'
    BY <1>1, <1>4 DEF QueueOK, Order
  <1>6. \A i \in 1..Len(Waiting') : last' < Waiting'[i]
    BY <1>1, <1>2, <1>3 DEF QueueOK, Order
  <1>7. \A i, j \in 1..Len(Waiting') : i < j => Waiting'[i] < Waiting'[j]
    BY <1>1, <1>2, <1>3 DEF QueueOK, Order
  <1> QED  BY <1>4, <1>5, <1>6, <1>7 DEF Order

\* Taking the head off the first part takes it off the whole.
LEMMA TailOfConcat ==
    ASSUME NEW S, NEW s \in Seq(S), NEW t \in Seq(S), s # <<>>
    PROVE  /\ Tail(s \o t) = Tail(s) \o t /\ Head(s \o t) = Head(s)
           /\ s \o t # <<>>
  <1>1. /\ Len(s) \in Nat /\ Len(t) \in Nat /\ Len(s) > 0
        /\ s \o t \in Seq(S) /\ Len(s \o t) = Len(s) + Len(t)
        /\ \A i \in 1..Len(s) + Len(t) : (s \o t)[i] = IF i <= Len(s) THEN s[i] ELSE t[i - Len(s)]
    BY ConcatProperties, LenProperties, EmptySeq
  <1>2. s \o t # <<>>
    BY <1>1, EmptySeq
  <1>3. /\ Tail(s) \in Seq(S) /\ Len(Tail(s)) = Len(s) - 1
        /\ \A i \in 1..Len(Tail(s)) : Tail(s)[i] = s[i + 1]
    BY HeadTailProperties
  <1>4. /\ Tail(s \o t) \in Seq(S) /\ Len(Tail(s \o t)) = Len(s \o t) - 1
        /\ \A i \in 1..Len(Tail(s \o t)) : Tail(s \o t)[i] = (s \o t)[i + 1]
    BY <1>1, <1>2, HeadTailProperties
  <1>5. /\ Tail(s) \o t \in Seq(S) /\ Len(Tail(s) \o t) = Len(Tail(s)) + Len(t)
        /\ \A i \in 1..Len(Tail(s)) + Len(t) :
              (Tail(s) \o t)[i] = IF i <= Len(Tail(s)) THEN Tail(s)[i] ELSE t[i - Len(Tail(s))]
    BY <1>3, ConcatProperties
  <1>6. Len(Tail(s \o t)) = Len(Tail(s) \o t)
    BY <1>1, <1>3, <1>4, <1>5
  <1>7. ASSUME NEW i \in 1..Len(Tail(s \o t)) PROVE Tail(s \o t)[i] = (Tail(s) \o t)[i]
    <2>1. i \in Nat /\ i + 1 \in 1..Len(s) + Len(t) /\ i \in 1..Len(Tail(s)) + Len(t)
      BY <1>1, <1>3, <1>4
    <2>2. CASE i + 1 <= Len(s)
      BY <1>1, <1>3, <1>4, <1>5, <2>1, <2>2
    <2>3. CASE ~(i + 1 <= Len(s))
      <3>1. ~(i <= Len(Tail(s))) /\ i + 1 - Len(s) = i - Len(Tail(s))
        BY <1>1, <1>3, <2>1, <2>3
      <3> QED  BY <1>1, <1>4, <1>5, <2>1, <2>3, <3>1
    <2> QED  BY <2>2, <2>3
  <1>8. Tail(s \o t) = Tail(s) \o t
    BY <1>4, <1>5, <1>6, <1>7, SeqEqual
  <1>9. Head(s \o t) = Head(s)
    BY <1>1, <1>2
  <1> QED  BY <1>2, <1>8, <1>9

\* Handing a report from one part to the other leaves the whole as it is.
LEMMA HandedOn ==
    ASSUME NEW S, NEW s \in Seq(S), NEW t \in Seq(S), t # <<>>
    PROVE  /\ Append(s, Head(t)) \o Tail(t) = s \o t
           /\ Head(t) \in S /\ Tail(t) \in Seq(S) /\ Append(s, Head(t)) \in Seq(S)
  <1>1. /\ Head(t) \in S /\ Tail(t) \in Seq(S) /\ Len(Tail(t)) = Len(t) - 1
        /\ \A i \in 1..Len(Tail(t)) : Tail(t)[i] = t[i + 1]
    BY HeadTailProperties
  <1>2. <<Head(t)>> \in Seq(S) /\ Append(s, Head(t)) = s \o <<Head(t)>> /\ Append(s, Head(t)) \in Seq(S)
    BY <1>1, AppendIsConcat, AppendProperties
  <1>3. <<Head(t)>> \o Tail(t) = t
    <2>1. /\ <<Head(t)>> \o Tail(t) \in Seq(S) /\ Len(<<Head(t)>>) = 1
          /\ Len(<<Head(t)>> \o Tail(t)) = 1 + Len(Tail(t))
          /\ \A i \in 1..1 + Len(Tail(t)) :
                (<<Head(t)>> \o Tail(t))[i] = IF i <= 1 THEN <<Head(t)>>[i] ELSE Tail(t)[i - 1]
      BY <1>1, <1>2, ConcatProperties
    <2>2. Len(t) \in Nat /\ Len(t) > 0 /\ Head(t) = t[1]
      BY LenProperties, EmptySeq
    <2>3. ASSUME NEW i \in 1..Len(t) PROVE (<<Head(t)>> \o Tail(t))[i] = t[i]
      <3>1. CASE i = 1
        BY <1>1, <2>1, <2>2, <3>1
      <3>2. CASE i # 1
        <4>1. i - 1 \in 1..Len(Tail(t)) /\ i \in 1..1 + Len(Tail(t)) /\ ~(i <= 1) /\ (i - 1) + 1 = i
          BY <1>1, <2>2, <3>2
        <4> QED  BY <1>1, <2>1, <4>1
      <3> QED  BY <3>1, <3>2
    <2>4. Len(<<Head(t)>> \o Tail(t)) = Len(t)
      BY <1>1, <2>1, <2>2
    <2> QED  BY <2>1, <2>3, <2>4, SeqEqual
  <1>4. (s \o <<Head(t)>>) \o Tail(t) = s \o (<<Head(t)>> \o Tail(t))
    BY <1>1, <1>2, ConcatAssociative
  <1> QED  BY <1>1, <1>2, <1>3, <1>4

Simulated == [Queue!Next]_<<Waiting, last>>

\* A report the system collects is younger than all others.
LEMMA CollectedStep == ASSUME QueueOK, Collected PROVE QueueOK' /\ Simulated
  <1>1. /\ sent \in Nat /\ last \in Nat /\ Waiting \in Seq(1..sent) /\ Len(Waiting) \in Nat
        /\ \A i \in 1..Len(Waiting) : Waiting[i] \in 1..sent
    BY WaitingProps, LenProperties
  <1>2. /\ sent < Reports /\ Len(os) < Pending /\ sent' = sent + 1 /\ os' = Append(os, sent + 1)
        /\ reports' = reports /\ last' = last
    BY DEF Collected, Sends
  <1>3. Reports \in Nat /\ Pending \in Nat
    BY DeviceAssumption
  <1>4. 1..sent \subseteq 1..sent' /\ sent + 1 \in 1..sent' /\ sent' \in 0..Reports
    BY <1>1, <1>2, <1>3
  <1>5. os \in Seq(1..sent') /\ reports' \in Seq(1..sent') /\ Waiting \in Seq(1..sent')
    BY <1>1, <1>2, <1>4, SeqMonotonic DEF QueueOK
  <1>6. os' \in Seq(1..sent') /\ Len(os') = Len(os) + 1
    BY <1>2, <1>4, <1>5, AppendProperties
  <1>7. Len(os') <= Pending
    BY <1>2, <1>3, <1>6, WaitingProps
  <1>8. Waiting' = Append(Waiting, sent + 1)
    <2>1. os' = os \o <<sent + 1>> /\ <<sent + 1>> \in Seq(1..sent')
      BY <1>2, <1>4, <1>5, AppendIsConcat
    <2>2. reports \o (os \o <<sent + 1>>) = (reports \o os) \o <<sent + 1>>
      BY <1>2, <1>5, <2>1, ConcatAssociative
    <2> QED  BY <1>2, <1>4, <1>5, <2>1, <2>2, AppendIsConcat DEF Waiting
  <1>9. /\ Len(Waiting') = Len(Waiting) + 1 /\ Waiting'[Len(Waiting) + 1] = sent + 1
        /\ \A i \in 1..Len(Waiting) : Waiting'[i] = Waiting[i]
    BY <1>4, <1>5, <1>8, AppendProperties
  <1>10. \A i \in 1..Len(Waiting') : i \in 1..Len(Waiting) \/ i = Len(Waiting) + 1
    BY <1>1, <1>9
  <1>11. last <= sent /\ \A i \in 1..Len(Waiting) : last < Waiting[i] /\ Waiting[i] <= sent
    BY <1>1 DEF QueueOK, Order
  <1>12. Order'
    <2>1. last' <= sent' /\ last' < sent + 1
      BY <1>1, <1>2, <1>11
    <2>2. \A i \in 1..Len(Waiting') : last' < Waiting'[i]
      BY <1>2, <1>9, <1>10, <1>11, <2>1
    <2>3. \A i \in 1..Len(Waiting) : Waiting'[i] < sent + 1
      BY <1>1, <1>9, <1>11
    <2>4. ASSUME NEW i \in 1..Len(Waiting'), NEW j \in 1..Len(Waiting'), i < j
          PROVE  Waiting'[i] < Waiting'[j]
      <3>1. i \in 1..Len(Waiting)
        BY <1>1, <1>9, <2>4
      <3>2. CASE j \in 1..Len(Waiting)
        BY <1>9, <2>4, <3>1, <3>2 DEF QueueOK, Order
      <3>3. CASE j = Len(Waiting) + 1
        BY <1>9, <2>3, <3>1, <3>3
      <3> QED  BY <1>10, <3>2, <3>3
    <2> QED  BY <2>1, <2>2, <2>4 DEF Order
  <1>13. QueueOK'
    BY <1>2, <1>4, <1>5, <1>6, <1>7, <1>12 DEF QueueOK
  <1>14. Simulated
    <2>1. Waiting' = Append(Waiting, Waiting'[Len(Waiting) + 1])
      BY <1>8, <1>9
    <2>2. DOMAIN Waiting = 1..Len(Waiting)
      BY <1>1, LenProperties
    <2>3. \A n \in {last} \cup { Waiting[i] : i \in DOMAIN Waiting } : n < Waiting'[Len(Waiting) + 1]
      BY <1>1, <1>9, <1>11, <2>2
    <2>4. Len(Waiting') > Len(Waiting)
      BY <1>1, <1>9
    <2> QED  BY <1>2, <2>1, <2>3, <2>4 DEF Simulated, Queue!Next, Queue!Arrives, Waiting
  <1> QED  BY <1>13, <1>14

\* A report goes from the system to the list; a full list loses its oldest.
LEMMA MovedStep == ASSUME QueueOK, Moved PROVE QueueOK' /\ Simulated
  <1> DEFINE h == Head(os)
  <1>1. /\ os # <<>> /\ os' = Tail(os) /\ reports' = Queued(reports, h)
        /\ last' = last /\ sent' = sent
        /\ os \in Seq(1..sent) /\ reports \in Seq(1..sent)
    BY DEF Moved, QueueOK
  <1>2. /\ Len(reports) \in Nat /\ Len(os) \in Nat /\ Len(reports) <= Limit + 2 /\ Len(os) <= Pending
        /\ Limit \in Nat /\ Pending \in Nat /\ Len(os) > 0
    BY <1>1, DeviceAssumption, WaitingProps, EmptySeq DEF QueueOK
  <1>3. /\ h \in 1..sent /\ os' \in Seq(1..sent) /\ Len(os') = Len(os) - 1
    BY <1>1, HeadTailProperties
  <1>4. Len(os') <= Pending
    BY <1>2, <1>3
  <1>5. CASE Len(reports) - 1 > Limit
    <2>1. reports' = Append(Tail(reports), h) /\ Len(reports) > 0 /\ reports # <<>>
      BY <1>1, <1>2, <1>5, EmptySeq DEF Queued
    <2>2. Tail(reports) \in Seq(1..sent) /\ Len(Tail(reports)) = Len(reports) - 1
      BY <1>1, <2>1, HeadTailProperties
    <2>3. reports' \in Seq(1..sent) /\ Len(reports') = Len(reports)
      BY <1>2, <1>3, <2>1, <2>2, AppendProperties
    <2>4. Waiting' = Tail(reports) \o os
      BY <1>1, <2>1, <2>2, HandedOn DEF Waiting
    <2>5. Waiting' = Tail(Waiting) /\ Waiting # <<>>
      BY <1>1, <2>1, <2>4, TailOfConcat DEF Waiting
    <2>6. Order'
      BY <1>1, <2>5, HeadGoes
    <2>7. Len(Waiting) > Limit + 2
      BY <1>2, <1>5, WaitingProps
    <2>8. Simulated
      BY <1>1, <2>5, <2>7 DEF Simulated, Queue!Next, Queue!GivesUp, Waiting
    <2> QED  BY <1>1, <1>2, <1>3, <1>4, <2>3, <2>6, <2>8 DEF QueueOK
  <1>6. CASE ~(Len(reports) - 1 > Limit)
    <2>1. reports' = Append(reports, h)
      BY <1>1, <1>6 DEF Queued
    <2>2. reports' \in Seq(1..sent) /\ Len(reports') = Len(reports) + 1
      <3> HIDE DEF h
      <3> QED  BY <1>1, <1>3, <2>1, AppendProperties
    <2>3. Len(reports') <= Limit + 2
      BY <1>2, <1>6, <2>2
    <2>4. Waiting' = Waiting
      BY <1>1, <2>1, HandedOn DEF Waiting
    <2>5. Order' /\ Simulated
      BY <1>1, <2>4 DEF QueueOK, Order, Simulated
    <2> QED  BY <1>1, <1>3, <1>4, <2>2, <2>3, <2>5 DEF QueueOK
  <1> QED  BY <1>5, <1>6

\* The application takes the oldest report of the list ...
LEMMA TakenStep == ASSUME QueueOK, Taken PROVE QueueOK' /\ Simulated /\ last' \in 1..sent
  <1>1. /\ reports # <<>> /\ last' = Head(reports) /\ reports' = Tail(reports) /\ os' = os /\ sent' = sent
        /\ os \in Seq(1..sent) /\ reports \in Seq(1..sent)
    BY DEF Taken, QueueOK
  <1>2. Waiting' = Tail(Waiting) /\ Waiting # <<>> /\ Head(Waiting) = Head(reports)
    BY <1>1, TailOfConcat DEF Waiting
  <1>3. Order' /\ last' \in 1..sent
    BY <1>1, <1>2, HeadGoes
  <1>4. reports' \in Seq(1..sent) /\ Len(reports') = Len(reports) - 1
    BY <1>1, HeadTailProperties
  <1>5. Len(reports') <= Limit + 2 /\ last' \in 0..Reports
    BY <1>3, <1>4, WaitingProps, DeviceAssumption DEF QueueOK
  <1>6. Simulated
    BY <1>1, <1>2 DEF Simulated, Queue!Next, Queue!Reads, Waiting
  <1> QED  BY <1>1, <1>3, <1>4, <1>5, <1>6 DEF QueueOK

\* ... or of the system, where there is no list.
LEMMA FetchedStep == ASSUME QueueOK, Fetched PROVE QueueOK' /\ Simulated /\ last' \in 1..sent
  <1>1. /\ reports = <<>> /\ os # <<>> /\ last' = Head(os) /\ os' = Tail(os)
        /\ reports' = <<>> /\ sent' = sent
        /\ os \in Seq(1..sent) /\ reports \in Seq(1..sent)
    BY DEF Fetched, QueueOK
  <1>2. os' \in Seq(1..sent) /\ Len(os') = Len(os) - 1
    BY <1>1, HeadTailProperties
  <1>3. Waiting = os /\ Waiting' = os'
    BY <1>1, <1>2, ConcatEmptySeq DEF Waiting
  <1>4. Order' /\ last' \in 1..sent
    BY <1>1, <1>3, HeadGoes
  <1>5. Len(os') <= Pending /\ last' \in 0..Reports
    BY <1>2, <1>4, WaitingProps, DeviceAssumption DEF QueueOK
  <1>6. Simulated
    BY <1>1, <1>3 DEF Simulated, Queue!Next, Queue!Reads, Waiting
  <1> QED  BY <1>1, <1>2, <1>4, <1>5, <1>6 DEF QueueOK

\* hid_close takes both queues away.
LEMMA EmptiedStep == ASSUME QueueOK, Emptied PROVE QueueOK' /\ Simulated
  <1>1. /\ <<>> \in Seq(1..sent) /\ Len(<<>>) = 0 /\ Limit \in Nat /\ Pending \in Nat
    BY DeviceAssumption, EmptySeq
  <1>2. Waiting' = <<>> /\ last' = last /\ sent' = sent /\ os' = <<>> /\ reports' = <<>>
    BY <1>1, ConcatEmptySeq DEF Emptied, Waiting
  <1>3. Order'
    BY <1>1, <1>2 DEF QueueOK, Order
  <1>4. Simulated
    BY <1>2 DEF Simulated, Queue!Next, Queue!Discards, Waiting
  <1> QED  BY <1>1, <1>2, <1>3, <1>4 DEF QueueOK

\* Every step of the two queues keeps the order and is a step of the one queue.
LEMMA QueueStepOK == ASSUME QueueOK, QueueStep PROVE QueueOK' /\ Simulated
  <1>1. CASE Kept
    BY <1>1 DEF Kept, QueueOK, Order, Waiting, Simulated
  <1> QED  BY <1>1, CollectedStep, MovedStep, TakenStep, FetchedStep, EmptiedStep DEF QueueStep
-----------------------------------------------------------------------------
\* pc has two entries; what they may be is in TypeOK.
Labels == DOMAIN pc = {"app", "thread"}

\* The flags and the result, as far as the backends agree about them.
Flagged == /\ mode \in Modes /\ result \in -1..Reports
           /\ shutdown_thread \in BOOLEAN /\ plugged \in BOOLEAN

Opened == (pc.app = "closed") <=> (pc.thread = "none")

\* libusb: the transfer is there while the device is open, the report it brought
\* is with the system until its callback has queued it, one callback runs at a time,
\* and nobody hands the transfer in again once hid_close waits for a thread that has
\* given up.
Carried == transfer = "completed" \/ pc.thread = "queues" \/ pc.app = "queues"
LTransfer == /\ (pc.app = "closed") <=> (transfer = "none")
             /\ Carried => Len(os) = 1
             /\ ~Carried => os = <<>>
             /\ pc.thread \in {"starts", "queues", "resubmits"} => transfer = "idle"
             /\ pc.app \in {"queues", "resubmits"} =>
                   transfer = "idle" /\ pc.thread \notin {"queues", "resubmits"}
             /\ pc.thread \in {"starts", "arrives"} => pc.app = "opening"
             /\ pc.app = "joins" /\ pc.thread \in {"last", "broadcasts", "ends"} => transfer # "submitted"

\* Who sets shutdown_thread is hid_close, or has a cause: the device, or libusb.
LReason == /\ pc.app \in {"cancels", "joins"} => shutdown_thread
           /\ pc.thread \in {"cancels", "last"} => shutdown_thread \/ failed \/ ~plugged
           /\ transfer = "cancelled" => shutdown_thread \/ failed \/ ~plugged
           /\ transfer = "gone" => ~plugged
           /\ shutdown_thread => ~plugged \/ failed \/ pc.app \in {"cancels", "joins", "closed"}
           /\ result = Error /\ pc.app # "closed" => ~plugged \/ failed

\* A transfer that is done may still be called back, was done behind the back of the
\* thread, or left by it.
LSeen == transfer \in L!Done => missed \/ interrupted \/ pc.thread \in {"events", "last"}

LTypes == /\ deaf \in BOOLEAN /\ missed \in BOOLEAN /\ interrupted \in BOOLEAN /\ failed \in BOOLEAN
          /\ transfer \in {"none", "idle", "submitted"} \cup L!Done
          /\ pc.app \in {"closed", "opening", "open", "transfers", "queues", "resubmits", "cancels", "joins"} \cup L!Reading
          /\ pc.thread \in {"none", "starts", "arrives", "loop", "events", "queues", "resubmits", "cancels", "last", "broadcasts", "ends"}

LInv == Labels /\ Flagged /\ QueueOK /\ LTypes /\ Opened /\ LTransfer /\ LReason /\ LSeen

\* The part of it that is about the threads.
LThreads == /\ Labels /\ LTypes /\ Opened /\ LTransfer /\ LReason /\ LSeen
            /\ mode \in Modes /\ shutdown_thread \in BOOLEAN /\ plugged \in BOOLEAN

\* What a read returns.
Answers == \/ result' \in {Timeout, Error, result}
           \/ (Taken \/ Fetched) /\ result' = last'

\* Behind the only report there is nothing.
LEMMA OneReport == ASSUME NEW S, NEW s \in Seq(S), Len(s) = 1 PROVE s # <<>> /\ Tail(s) = <<>>
  <1>1. s # <<>> /\ Tail(s) \in Seq(S) /\ Len(Tail(s)) = 0
    BY HeadTailProperties, EmptySeq
  <1> QED  BY <1>1, EmptySeq

\* libusb: each action is a step of the queues, with the one report of a transfer.
LEMMA LQueue == ASSUME LInv, L!Next PROVE QueueStep /\ Answers
  <1> USE DEF QueueStep, Kept, Answers
  <1>1. ASSUME NEW t \in DOMAIN pc, L!HandlesReport(t) \/ L!HandlesEnd(t) \/ L!HandlesTimeOut(t) \/ L!Resubmits(t)
        PROVE  QueueStep /\ Answers
    BY <1>1 DEF L!HandlesReport, L!HandlesEnd, L!HandlesTimeOut, L!CalledBack, L!Resubmits
  <1>2. CASE L!ThreadStarts \/ L!ThreadTests \/ L!EventsReturn \/ L!ThreadCancels \/ L!Broadcasts \/ L!Barrier \/ L!Locks
             \/ L!Waits \/ L!CloseCancels \/ L!TransferEnds
    BY <1>2 DEF L!ThreadStarts, L!ThreadTests, L!EventsReturn, L!ThreadCancels, L!Broadcasts, L!Barrier, L!Locks,
                L!Waits, L!CloseCancels, L!TransferEnds
  <1>3. CASE L!HidOpenPath \/ L!HidRead \/ L!HidFeature \/ L!HidClose \/ L!WakesUp \/ L!Expires \/ L!FatalError
    BY <1>3 DEF L!HidOpenPath, L!HidRead, L!HidFeature, L!HidClose, L!WakesUp, L!Expires, L!FatalError, L!Returns, L!Calls,
                L!Timeout, Timeout
  <1>4. CASE L!Silence \/ L!Unplug \/ L!PlugIn
    BY <1>4 DEF L!Silence, L!Unplug, L!PlugIn, L!Plug, L!common
  <1>5. CASE L!DeviceSends
    BY <1>5 DEF L!DeviceSends, L!Sends, Collected, Sends
  <1>6. ASSUME NEW t \in {"app", "thread"}, L!Queues(t) PROVE QueueStep /\ Answers
    <2>1. os \in Seq(1..sent) /\ Len(os) = 1
      BY <1>6 DEF L!Queues, LInv, QueueOK, LTransfer, Carried
    <2>2. os # <<>> /\ Tail(os) = <<>>
      BY ONLY <2>1, OneReport
    <2> QED  BY <1>6, <2>2 DEF L!Queues, L!Queued, Moved, Queued
  <1>7. CASE L!Tests
    BY <1>7 DEF L!Tests, L!ReturnsData, L!Returns, L!Timeout, L!Error, Timeout, Error, Taken
  <1>8. CASE L!CloseFrees
    BY <1>8 DEF L!CloseFrees, Emptied
  <1>9. DOMAIN pc = {"app", "thread"}
    BY DEF LInv, Labels
  <1> QED  BY <1>1, <1>2, <1>3, <1>4, <1>5, <1>6, <1>7, <1>8, <1>9 DEF L!Next, L!Handles, L!ReadThread, L!InCall, L!Others

\* libusb: the threads, action by action.
LEMMA LThreadsStep == ASSUME LInv, L!Next PROVE LThreads'
  <1> USE DEF LInv, LThreads, Labels, LTypes, Opened, LTransfer, Carried, LReason, LSeen, Flagged,
              L!Done, L!Reading, Modes, L!Modes
  <1>1. CASE L!ThreadStarts
    BY <1>1 DEF L!ThreadStarts, L!Thread
  <1>2. CASE L!ThreadTests
    BY <1>2 DEF L!ThreadTests, L!Thread, L!own
  <1>3. ASSUME NEW t \in {"app", "thread"}, L!HandlesReport(t) PROVE LThreads'
    <2>1. CASE t = "thread"
      <3>1. Labels' /\ LTypes' /\ Opened' /\ mode' \in Modes /\ shutdown_thread' \in BOOLEAN /\ plugged' \in BOOLEAN
        <4>1. Labels' /\ Opened' /\ mode' \in Modes
          BY <1>3, <2>1 DEF L!HandlesReport, L!CalledBack
        <4>2. deaf' \in BOOLEAN /\ missed' \in BOOLEAN /\ interrupted' \in BOOLEAN /\ failed' \in BOOLEAN
          BY <1>3, <2>1 DEF L!HandlesReport, L!CalledBack
        <4>3. shutdown_thread' \in BOOLEAN /\ plugged' \in BOOLEAN
          BY <1>3, <2>1 DEF L!HandlesReport, L!CalledBack
        <4>4. LTypes'
          BY <4>2, <1>3, <2>1 DEF L!HandlesReport, L!CalledBack
        <4> QED  BY <4>1, <4>3, <4>4
      <3>2. LTransfer'
        BY <1>3, <2>1 DEF L!HandlesReport, L!CalledBack
      <3>3. LReason' /\ LSeen'
        BY <1>3, <2>1 DEF L!HandlesReport, L!CalledBack
      <3> QED  BY <3>1, <3>2, <3>3
    <2>2. CASE t = "app"
      <3>1. Labels' /\ LTypes' /\ Opened' /\ mode' \in Modes /\ shutdown_thread' \in BOOLEAN /\ plugged' \in BOOLEAN
        BY <1>3, <2>2 DEF L!HandlesReport, L!CalledBack
      <3>2. LTransfer'
        BY <1>3, <2>2 DEF L!HandlesReport, L!CalledBack
      <3>3. LReason' /\ LSeen'
        BY <1>3, <2>2 DEF L!HandlesReport, L!CalledBack
      <3> QED  BY <3>1, <3>2, <3>3
    <2> QED  BY <2>1, <2>2
  <1>4. ASSUME NEW t \in {"app", "thread"}, L!HandlesEnd(t) PROVE LThreads'
    <2>1. CASE t = "thread"
      <3>1. Labels' /\ LTypes' /\ Opened' /\ mode' \in Modes /\ shutdown_thread' \in BOOLEAN /\ plugged' \in BOOLEAN
        <4>1. Labels' /\ Opened' /\ mode' \in Modes
          BY <1>4, <2>1 DEF L!HandlesEnd, L!CalledBack
        <4>2. deaf' \in BOOLEAN /\ missed' \in BOOLEAN /\ interrupted' \in BOOLEAN /\ failed' \in BOOLEAN
          BY <1>4, <2>1 DEF L!HandlesEnd, L!CalledBack
        <4>3. shutdown_thread' \in BOOLEAN /\ plugged' \in BOOLEAN
          BY <1>4, <2>1 DEF L!HandlesEnd, L!CalledBack
        <4>4. LTypes'
          BY <4>2, <1>4, <2>1 DEF L!HandlesEnd, L!CalledBack
        <4> QED  BY <4>1, <4>3, <4>4
      <3>2. LTransfer'
        BY <1>4, <2>1 DEF L!HandlesEnd, L!CalledBack
      <3>3. LReason' /\ LSeen'
        BY <1>4, <2>1 DEF L!HandlesEnd, L!CalledBack
      <3> QED  BY <3>1, <3>2, <3>3
    <2>2. CASE t = "app"
      <3>1. Labels' /\ LTypes' /\ Opened' /\ mode' \in Modes /\ shutdown_thread' \in BOOLEAN /\ plugged' \in BOOLEAN
        <4>1. Labels' /\ Opened' /\ mode' \in Modes
          BY <1>4, <2>2 DEF L!HandlesEnd, L!CalledBack
        <4>2. deaf' \in BOOLEAN /\ missed' \in BOOLEAN /\ interrupted' \in BOOLEAN /\ failed' \in BOOLEAN
          BY <1>4, <2>2 DEF L!HandlesEnd, L!CalledBack
        <4>3. shutdown_thread' \in BOOLEAN /\ plugged' \in BOOLEAN
          BY <1>4, <2>2 DEF L!HandlesEnd, L!CalledBack
        <4>4. LTypes'
          BY <4>2, <1>4, <2>2 DEF L!HandlesEnd, L!CalledBack
        <4> QED  BY <4>1, <4>3, <4>4
      <3>2. LTransfer'
        BY <1>4, <2>2 DEF L!HandlesEnd, L!CalledBack
      <3>3. LReason' /\ LSeen'
        BY <1>4, <2>2 DEF L!HandlesEnd, L!CalledBack
      <3> QED  BY <3>1, <3>2, <3>3
    <2> QED  BY <2>1, <2>2
  <1>5. ASSUME NEW t \in {"app", "thread"}, L!HandlesTimeOut(t) PROVE LThreads'
    <2>1. CASE t = "thread"
      <3>1. Labels' /\ LTypes' /\ Opened' /\ mode' \in Modes /\ shutdown_thread' \in BOOLEAN /\ plugged' \in BOOLEAN
        <4>1. Labels' /\ Opened' /\ mode' \in Modes
          BY <1>5, <2>1 DEF L!HandlesTimeOut, L!CalledBack
        <4>2. deaf' \in BOOLEAN /\ missed' \in BOOLEAN /\ interrupted' \in BOOLEAN /\ failed' \in BOOLEAN
          BY <1>5, <2>1 DEF L!HandlesTimeOut, L!CalledBack
        <4>3. shutdown_thread' \in BOOLEAN /\ plugged' \in BOOLEAN
          BY <1>5, <2>1 DEF L!HandlesTimeOut, L!CalledBack
        <4>4. LTypes'
          BY <4>2, <1>5, <2>1 DEF L!HandlesTimeOut, L!CalledBack
        <4> QED  BY <4>1, <4>3, <4>4
      <3>2. LTransfer'
        BY <1>5, <2>1 DEF L!HandlesTimeOut, L!CalledBack
      <3>3. LReason' /\ LSeen'
        BY <1>5, <2>1 DEF L!HandlesTimeOut, L!CalledBack
      <3> QED  BY <3>1, <3>2, <3>3
    <2>2. CASE t = "app"
      <3>1. Labels' /\ LTypes' /\ Opened' /\ mode' \in Modes /\ shutdown_thread' \in BOOLEAN /\ plugged' \in BOOLEAN
        BY <1>5, <2>2 DEF L!HandlesTimeOut, L!CalledBack
      <3>2. LTransfer'
        BY <1>5, <2>2 DEF L!HandlesTimeOut, L!CalledBack
      <3>3. LReason' /\ LSeen'
        BY <1>5, <2>2 DEF L!HandlesTimeOut, L!CalledBack
      <3> QED  BY <3>1, <3>2, <3>3
    <2> QED  BY <2>1, <2>2
  <1>6. CASE L!EventsReturn
    <2>1. Labels' /\ LTypes' /\ Opened' /\ mode' \in Modes /\ shutdown_thread' \in BOOLEAN /\ plugged' \in BOOLEAN
      BY <1>6 DEF L!EventsReturn, L!Thread
    <2>2. LTransfer'
      BY <1>6 DEF L!EventsReturn, L!Thread
    <2>3. LReason' /\ LSeen'
      BY <1>6 DEF L!EventsReturn, L!Thread
    <2> QED  BY <2>1, <2>2, <2>3
  <1>7. ASSUME NEW t \in {"app", "thread"}, L!Resubmits(t) PROVE LThreads'
    <2>1. CASE t = "thread"
      <3>1. Labels' /\ LTypes' /\ Opened' /\ mode' \in Modes /\ shutdown_thread' \in BOOLEAN /\ plugged' \in BOOLEAN
        BY <1>7, <2>1 DEF L!Resubmits
      <3>2. LTransfer'
        BY <1>7, <2>1 DEF L!Resubmits
      <3>3. LReason' /\ LSeen'
        BY <1>7, <2>1 DEF L!Resubmits
      <3> QED  BY <3>1, <3>2, <3>3
    <2>2. CASE t = "app"
      <3>1. Labels' /\ LTypes' /\ Opened' /\ mode' \in Modes /\ shutdown_thread' \in BOOLEAN /\ plugged' \in BOOLEAN
        BY <1>7, <2>2 DEF L!Resubmits
      <3>2. LTransfer'
        BY <1>7, <2>2 DEF L!Resubmits
      <3>3. LReason' /\ LSeen'
        BY <1>7, <2>2 DEF L!Resubmits
      <3> QED  BY <3>1, <3>2, <3>3
    <2> QED  BY <2>1, <2>2
  <1>26. ASSUME NEW t \in {"app", "thread"}, L!Queues(t) PROVE LThreads'
    BY <1>26 DEF L!Queues, L!Unlocked, L!Woken, L!own
  <1>27. CASE L!HidFeature
    BY <1>27 DEF L!HidFeature, L!App, L!own
  <1>28. CASE L!TransferEnds
    BY <1>28 DEF L!TransferEnds, L!App, L!own
  <1>8. CASE L!ThreadCancels
    BY <1>8 DEF L!ThreadCancels, L!Thread
  <1>9. CASE L!Broadcasts
    BY <1>9 DEF L!Broadcasts, L!Unlocked, L!Woken, L!own
  <1>10. CASE L!Barrier
    BY <1>10 DEF L!Barrier, L!own
  <1>11. CASE L!Locks
    BY <1>11 DEF L!Locks, L!App, L!own
  <1>12. CASE L!Tests
    <2>1. UNCHANGED <<mode, shutdown_thread, plugged, os, transfer, deaf, missed, interrupted, failed>>
      BY <1>12 DEF L!Tests, L!own
    <2>2. /\ pc' = [pc EXCEPT !.app = "open"] \/ pc' = [pc EXCEPT !.app = "sleeps"]
          /\ pc.app = "tests"
      BY <1>12 DEF L!Tests, L!App, L!Returns, L!ReturnsData
    <2>3. result' = Error => result = Error \/ shutdown_thread
      <3>1. Timeout # Error /\ (reports # <<>> => Head(reports) # Error)
        <4>1. ASSUME reports # <<>> PROVE Head(reports) \in 1..sent
          BY <4>1, HeadTailProperties DEF QueueOK
        <4> QED  BY <4>1 DEF Timeout, Error
      <3> HIDE DEF Timeout, Error
      <3> QED  BY <1>12, <3>1 DEF L!Tests, L!Returns, L!ReturnsData, L!Timeout, L!Error, Timeout, Error
    <2> QED  BY <2>1, <2>2, <2>3
  <1>13. CASE L!Waits
    BY <1>13 DEF L!Waits, L!App, L!own
  <1>14. CASE L!CloseCancels
    <2>1. Labels' /\ LTypes' /\ Opened' /\ mode' \in Modes /\ shutdown_thread' \in BOOLEAN /\ plugged' \in BOOLEAN
      BY <1>14 DEF L!CloseCancels, L!App
    <2>2. LTransfer'
      BY <1>14 DEF L!CloseCancels, L!App
    <2>3. LReason' /\ LSeen'
      BY <1>14 DEF L!CloseCancels, L!App
    <2> QED  BY <2>1, <2>2, <2>3
  <1>15. CASE L!CloseFrees
    BY <1>15 DEF L!CloseFrees
  <1>16. CASE L!HidOpenPath
    <2>1. result' # Error
      BY <1>16 DEF L!HidOpenPath, L!Timeout, Error
    <2> QED  BY <1>16, <2>1 DEF L!HidOpenPath
  <1>17. CASE L!HidRead
    BY <1>17 DEF L!HidRead, L!Calls, L!App, L!own
  <1>18. CASE L!HidClose
    BY <1>18 DEF L!HidClose, L!App, L!own
  <1>19. CASE L!WakesUp
    BY <1>19 DEF L!WakesUp, L!App, L!own
  <1>20. CASE L!Expires
    BY <1>20 DEF L!Expires, L!Returns, L!App, L!own, L!Timeout, L!Error, Timeout, Error
  <1>21. CASE L!FatalError
    <2>1. Labels' /\ LTypes' /\ Opened' /\ mode' \in Modes /\ shutdown_thread' \in BOOLEAN /\ plugged' \in BOOLEAN
      BY <1>21 DEF L!FatalError, L!Thread
    <2>2. LTransfer'
      BY <1>21 DEF L!FatalError, L!Thread
    <2>3. LReason' /\ LSeen'
      BY <1>21 DEF L!FatalError, L!Thread
    <2> QED  BY <2>1, <2>2, <2>3
  <1>22. CASE L!DeviceSends
    <2>1. Len(os') = 1
      BY <1>22, EmptySeq, AppendProperties DEF L!DeviceSends, L!Sends
    <2>2. Labels' /\ LTypes' /\ Opened' /\ mode' \in Modes /\ shutdown_thread' \in BOOLEAN /\ plugged' \in BOOLEAN
      BY <1>22 DEF L!DeviceSends, L!Sends
    <2>3. LTransfer'
      BY <1>22, <2>1 DEF L!DeviceSends, L!Sends
    <2>4. LReason' /\ LSeen'
      BY <1>22 DEF L!DeviceSends, L!Sends
    <2> QED  BY <2>2, <2>3, <2>4
  <1>23. CASE L!Silence
    <2>1. Labels' /\ LTypes' /\ Opened' /\ mode' \in Modes /\ shutdown_thread' \in BOOLEAN /\ plugged' \in BOOLEAN
      BY <1>23 DEF L!Silence, L!common
    <2>2. LTransfer'
      BY <1>23 DEF L!Silence, L!common
    <2>3. LReason' /\ LSeen'
      BY <1>23 DEF L!Silence, L!common
    <2> QED  BY <2>1, <2>2, <2>3
  <1>24. CASE L!Unplug
    <2>1. UNCHANGED <<pc, mode, result, shutdown_thread, os, deaf, interrupted, failed>> /\ plugged' = FALSE
      BY <1>24 DEF L!Unplug
    <2>2. CASE transfer = "submitted"
      <3>1. transfer' = "gone" /\ (pc.thread = "events" \/ missed')
        BY <1>24, <2>2 DEF L!Unplug
      <3>2. missed' \in BOOLEAN
        BY <1>24 DEF L!Unplug
      <3>3. Labels' /\ LTypes' /\ Opened' /\ mode' \in Modes /\ shutdown_thread' \in BOOLEAN /\ plugged' \in BOOLEAN
        <4>1. Labels' /\ Opened' /\ mode' \in Modes
          BY <2>1, <2>2, <3>1, <3>2
        <4>2. deaf' \in BOOLEAN /\ missed' \in BOOLEAN /\ interrupted' \in BOOLEAN /\ failed' \in BOOLEAN
          BY <2>1, <2>2, <3>1, <3>2
        <4>3. shutdown_thread' \in BOOLEAN /\ plugged' \in BOOLEAN
          BY <2>1, <2>2, <3>1, <3>2
        <4>4. LTypes'
          BY <4>2, <2>1, <2>2, <3>1, <3>2
        <4> QED  BY <4>1, <4>3, <4>4
      <3>4. LTransfer'
        BY <2>1, <2>2, <3>1
      <3>5. LReason' /\ LSeen'
        BY <2>1, <2>2, <3>1
      <3> QED  BY <3>3, <3>4, <3>5
    <2>3. CASE transfer # "submitted"
      <3>1. transfer' = transfer /\ missed' = missed
        BY <1>24, <2>3 DEF L!Unplug
      <3>2. LReason'
        BY <2>1, <2>3, <3>1
      <3>3. LSeen'
        BY <2>1, <2>3, <3>1, Zenon
      <3>4. Labels' /\ LTypes' /\ Opened'
        BY <2>1, <2>3, <3>1
      <3>5. LTransfer'
        BY <2>1, <2>3, <3>1
      <3>6. mode' \in Modes /\ shutdown_thread' \in BOOLEAN /\ plugged' \in BOOLEAN
        BY <2>1
      <3> QED  BY <3>2, <3>3, <3>4, <3>5, <3>6
    <2> QED  BY <2>2, <2>3
  <1>25. CASE L!PlugIn
    BY <1>25 DEF L!PlugIn, L!Plug, L!own
  <1> QED  BY <1>1, <1>2, <1>3, <1>4, <1>5, <1>6, <1>7, <1>8, <1>9, <1>10, <1>11, <1>12, <1>13, <1>14, <1>15, <1>16, <1>17, <1>18, <1>19, <1>20, <1>21, <1>22, <1>23, <1>24, <1>25, <1>26, <1>27, <1>28
      DEF L!Next, L!Handles, L!ReadThread, L!InCall, L!Others

\* A result is a report that was sent, or one of the two answers without one.
LEMMA ResultStep ==
    ASSUME QueueOK, QueueStep, Answers, result \in -1..Reports
    PROVE  QueueOK' /\ Simulated /\ result' \in -1..Reports
  <1>1. QueueOK' /\ Simulated
    BY QueueStepOK
  <1>2. last' \in 0..Reports /\ Reports \in Nat
    BY <1>1, DeviceAssumption DEF QueueOK
  <1>3. Timeout \in -1..Reports /\ Error \in -1..Reports
    BY <1>2 DEF Timeout, Error
  <1>4. result' \in {Timeout, Error, result} \/ result' = last'
    BY DEF Answers
  <1>5. 0..Reports \subseteq -1..Reports
    BY <1>2
  <1> QED  BY <1>1, <1>2, <1>3, <1>4, <1>5

LEMMA LStep == ASSUME LInv, L!Next PROVE LInv' /\ Simulated
  <1>1. QueueOK' /\ Simulated /\ result' \in -1..Reports
    BY LQueue, ResultStep DEF LInv, Flagged
  <1> QED  BY <1>1, LThreadsStep DEF LInv, LThreads, Flagged
-----------------------------------------------------------------------------
\* mac: who has set a flag.
MReason == /\ disconnected /\ pc.app # "closed" => ~plugged
           /\ signalled => pc.app \in {"wakes", "meets", "atEnd", "joins", "closed"}
           /\ pc.thread = "stopped" => disconnected \/ pc.app \in {"wakes", "meets", "atEnd", "joins"}
           /\ shutdown_thread => ~plugged \/ pc.app \in {"signals", "wakes", "meets", "atEnd", "joins", "closed"}
           /\ result = Error /\ pc.app # "closed" => ~plugged

\* Where the thread is while the application is where it is, if no barrier leaks.
MMeeting ==
    /\ pc.app = "opening" => /\ pc.thread \in {"starts", "arrives", "atStart"} /\ count["shutdown"] = 0
                             /\ (count["start"] = 1) <=> (pc.thread = "atStart")
    /\ pc.app = "atStart" => /\ pc.thread \in {"starts", "arrives"}
                             /\ count["start"] = 1 /\ count["shutdown"] = 0
    /\ pc.app \in {"open", "flags", "signals", "wakes", "meets"} \cup M!Reading =>
          /\ pc.thread \in {"loop", "runs", "stopped", "broadcasts", "meets", "atEnd"} /\ count["start"] = 0
          /\ (count["shutdown"] = 1) <=> (pc.thread = "atEnd")
    /\ pc.app = "atEnd" => /\ pc.thread \in {"loop", "runs", "stopped", "broadcasts", "meets"}
                           /\ count["shutdown"] = 1 /\ count["start"] = 0
    /\ pc.app = "joins" => pc.thread = "ends"

MTypes == /\ disconnected \in BOOLEAN /\ registered \in BOOLEAN /\ signalled \in BOOLEAN
          /\ count \in [M!Barriers -> 0..1] /\ spurious \in BOOLEAN
          /\ pc.app \in {"closed", "opening", "atStart", "open", "flags", "signals", "wakes", "meets", "atEnd", "joins"} \cup M!Reading
          /\ pc.thread \in {"none", "starts", "arrives", "atStart", "loop", "runs", "stopped", "broadcasts", "meets", "atEnd", "ends"}

MInv == Labels /\ Flagged /\ QueueOK /\ MTypes /\ Opened /\ MReason /\ (spurious \/ MMeeting)

MThreads == /\ Labels /\ MTypes /\ Opened /\ MReason /\ (spurious \/ MMeeting)
            /\ mode \in Modes /\ shutdown_thread \in BOOLEAN /\ plugged \in BOOLEAN

LEMMA MQueue == ASSUME MInv, M!Next PROVE QueueStep /\ Answers
  <1> USE DEF QueueStep, Kept, Answers
  <1>1. CASE M!ThreadStarts \/ M!ThreadTests \/ M!RemovalCallback \/ M!SignalCallback \/ M!Stopped \/ M!RunsOut \/ M!Broadcasts
    BY <1>1 DEF M!ThreadStarts, M!ThreadTests, M!RemovalCallback, M!SignalCallback, M!Stopped, M!RunsOut, M!Broadcasts
  <1>2. ASSUME NEW b \in M!Barriers, NEW t \in DOMAIN pc, M!BarrierWait(b, t) \/ M!BarrierLeaks(b, t)
        PROVE  QueueStep /\ Answers
    BY <1>2 DEF M!BarrierWait, M!BarrierLeaks
  <1>3. CASE M!Locks \/ M!Waits \/ M!WakesUp \/ M!HidClose \/ M!Flags \/ M!Signals \/ M!WakesLoop \/ M!HidRead
    BY <1>3 DEF M!Locks, M!Waits, M!WakesUp, M!HidClose, M!Flags, M!Signals, M!WakesLoop, M!HidRead, M!Calls
  <1>4. CASE M!HidOpenPath \/ M!Expires \/ M!Unplug \/ M!PlugIn
    BY <1>4 DEF M!HidOpenPath, M!Expires, M!Returns, M!Timeout, Timeout, M!Unplug, M!PlugIn, M!Plug
  <1>5. CASE M!DeviceSends
    BY <1>5 DEF M!DeviceSends, M!Sends, Collected, Sends
  <1>6. CASE M!ReportCallback
    BY <1>6 DEF M!ReportCallback, M!Queued, Moved, Queued
  <1>7. CASE M!Tests \/ M!CondWait
    BY <1>7 DEF M!Tests, M!CondWait, M!ReturnsData, M!Returns, M!Timeout, M!Error, Timeout, Error, Taken
  <1>8. CASE M!CloseFrees
    BY <1>8 DEF M!CloseFrees, Emptied
  <1>9. Labels
    BY DEF MInv
  <1> QED  BY <1>1, <1>2, <1>3, <1>4, <1>5, <1>6, <1>7, <1>8, <1>9
      DEF M!Next, M!ReadThread, M!InCall, M!Others, Labels

\* A report is no failure, nor is a time-out.
LEMMA NoReportFails == ASSUME QueueOK PROVE Timeout # Error /\ (reports # <<>> => Head(reports) # Error)
  <1>1. ASSUME reports # <<>> PROVE Head(reports) \in 1..sent
    BY <1>1, HeadTailProperties DEF QueueOK
  <1> QED  BY <1>1 DEF Timeout, Error

\* mac: the threads, action by action.
LEMMA MThreadsStep == ASSUME MInv, M!Next PROVE MThreads'
  <1> USE DEF MInv, MThreads, Labels, MTypes, Opened, MReason, MMeeting, Flagged,
              M!Reading, M!Barriers, Modes, M!Modes
  <1>1. CASE M!ThreadStarts
    BY <1>1 DEF M!ThreadStarts, M!Thread
  <1>2. CASE M!ThreadTests
    BY <1>2 DEF M!ThreadTests, M!Thread, M!own
  <1>3. CASE M!ReportCallback
    BY <1>3 DEF M!ReportCallback, M!App, M!Unlocked, M!Woken, M!own
  <1>4. CASE M!RemovalCallback
    BY <1>4 DEF M!RemovalCallback, M!Thread
  <1>5. CASE M!SignalCallback
    BY <1>5 DEF M!SignalCallback, M!Thread
  <1>6. CASE M!Stopped
    BY <1>6 DEF M!Stopped, M!Thread, M!own
  <1>7. CASE M!RunsOut
    BY <1>7 DEF M!RunsOut, M!Thread, M!own
  <1>8. CASE M!Broadcasts
    BY <1>8 DEF M!Broadcasts, M!Unlocked, M!Woken, M!own
  <1>9. ASSUME NEW b \in M!Barriers, NEW t \in {"app", "thread"}, M!BarrierWait(b, t) PROVE MThreads'
    <2>1. UNCHANGED <<mode, result, shutdown_thread, plugged, disconnected, registered, signalled, spurious>>
      BY <1>9 DEF M!BarrierWait
    <2>2. CASE b = "start" /\ t = "app"
      BY <1>9, <2>1, <2>2 DEF M!BarrierWait, M!Arrives, M!Stays, M!Passes
    <2>3. CASE b = "start" /\ t = "thread"
      BY <1>9, <2>1, <2>3 DEF M!BarrierWait, M!Arrives, M!Stays, M!Passes
    <2>4. CASE b = "shutdown" /\ t = "app"
      BY <1>9, <2>1, <2>4 DEF M!BarrierWait, M!Arrives, M!Stays, M!Passes
    <2>5. CASE b = "shutdown" /\ t = "thread"
      BY <1>9, <2>1, <2>5 DEF M!BarrierWait, M!Arrives, M!Stays, M!Passes
    <2> QED  BY <2>2, <2>3, <2>4, <2>5
  <1>10. ASSUME NEW b \in M!Barriers, NEW t \in {"app", "thread"}, M!BarrierLeaks(b, t) PROVE MThreads'
    <2>1. /\ UNCHANGED <<mode, result, shutdown_thread, plugged, disconnected, registered, signalled, count>>
          /\ spurious' = TRUE
      BY <1>10 DEF M!BarrierLeaks
    <2>2. \/ pc.app = "atStart" /\ pc' = [pc EXCEPT !.app = "open"]
          \/ pc.app = "atEnd" /\ pc' = [pc EXCEPT !.app = "joins"]
          \/ pc.thread = "atStart" /\ pc' = [pc EXCEPT !.thread = "loop"]
          \/ pc.thread = "atEnd" /\ pc' = [pc EXCEPT !.thread = "ends"]
      <3>1. CASE b = "start" /\ t = "app"
        BY <1>10, <3>1 DEF M!BarrierLeaks, M!Stays, M!Passes
      <3>2. CASE b = "start" /\ t = "thread"
        BY <1>10, <3>2 DEF M!BarrierLeaks, M!Stays, M!Passes
      <3>3. CASE b = "shutdown" /\ t = "app"
        BY <1>10, <3>3 DEF M!BarrierLeaks, M!Stays, M!Passes
      <3>4. CASE b = "shutdown" /\ t = "thread"
        BY <1>10, <3>4 DEF M!BarrierLeaks, M!Stays, M!Passes
      <3> QED  BY <3>1, <3>2, <3>3, <3>4
    <2> QED  BY <2>1, <2>2
  <1>11. CASE M!Locks
    BY <1>11 DEF M!Locks, M!App, M!own
  <1>12. CASE M!Tests
    <2>1. UNCHANGED <<mode, shutdown_thread, plugged, disconnected, registered, signalled, count, spurious>>
      BY <1>12 DEF M!Tests, M!own
    <2>2. /\ pc' = [pc EXCEPT !.app = "open"] \/ pc' = [pc EXCEPT !.app = "sleeps"]
          /\ pc.app = "tests"
      BY <1>12 DEF M!Tests, M!App, M!Returns, M!ReturnsData
    <2>3. result' = Error => result = Error \/ shutdown_thread \/ disconnected
      <3> HIDE DEF Timeout, Error
      <3> QED  BY <1>12, NoReportFails DEF M!Tests, M!Returns, M!ReturnsData, M!Timeout, M!Error, Timeout, Error
    <2> QED  BY <2>1, <2>2, <2>3
  <1>13. CASE M!Waits
    BY <1>13 DEF M!Waits, M!App, M!own
  <1>14. CASE M!CondWait
    <2>1. UNCHANGED <<mode, shutdown_thread, plugged, disconnected, registered, signalled, count, spurious>>
      BY <1>14 DEF M!CondWait, M!own
    <2>2. /\ pc' = [pc EXCEPT !.app = "open"] \/ pc' = [pc EXCEPT !.app = "sleeps"]
          /\ pc.app = "woken"
      BY <1>14 DEF M!CondWait, M!App, M!Returns, M!ReturnsData
    <2>3. result' = Error => result = Error \/ shutdown_thread \/ disconnected
      <3> HIDE DEF Timeout, Error
      <3> QED  BY <1>14, NoReportFails DEF M!CondWait, M!Returns, M!ReturnsData, M!Timeout, M!Error, Timeout, Error
    <2> QED  BY <2>1, <2>2, <2>3
  <1>15. CASE M!Flags
    BY <1>15 DEF M!Flags, M!App, M!own
  <1>16. CASE M!Signals
    BY <1>16 DEF M!Signals, M!App
  <1>17. CASE M!WakesLoop
    BY <1>17 DEF M!WakesLoop, M!App, M!own
  <1>18. CASE M!CloseFrees
    BY <1>18 DEF M!CloseFrees, M!own
  <1>19. CASE M!HidOpenPath
    <2>1. result' # Error
      BY <1>19 DEF M!HidOpenPath, M!Timeout, Error
    <2>2. /\ pc' = [app |-> "opening", thread |-> "starts"] /\ UNCHANGED <<mode, plugged>>
          /\ shutdown_thread' = FALSE /\ disconnected' = FALSE /\ signalled' = FALSE /\ registered' = FALSE
          /\ count' = [b \in M!Barriers |-> 0] /\ spurious' = FALSE
      BY <1>19 DEF M!HidOpenPath
    <2>3. pc.app' = "opening" /\ pc.thread' = "starts" /\ DOMAIN pc' = {"app", "thread"}
      BY <2>2
    <2>4. count' \in [M!Barriers -> 0..1] /\ count'["start"] = 0 /\ count'["shutdown"] = 0
      BY <2>2
    <2>5. Labels' /\ MTypes' /\ Opened' /\ mode' \in Modes /\ shutdown_thread' \in BOOLEAN
      BY <2>2, <2>3, <2>4
    <2>6. MReason' /\ MMeeting'
      BY <2>1, <2>2, <2>3, <2>4
    <2>7. plugged' \in BOOLEAN
      BY <2>2, Zenon
    <2> QED  BY <2>5, <2>6, <2>7
  <1>20. CASE M!HidRead
    BY <1>20 DEF M!HidRead, M!App, M!Calls, M!own
  <1>21. CASE M!HidClose
    BY <1>21 DEF M!HidClose, M!App
  <1>22. CASE M!WakesUp
    BY <1>22 DEF M!WakesUp, M!App, M!own
  <1>23. CASE M!Expires
    BY <1>23 DEF M!Expires, M!App, M!Returns, M!own, M!Timeout, M!Error, Timeout, Error
  <1>24. CASE M!DeviceSends
    BY <1>24 DEF M!DeviceSends, M!Sends, M!own
  <1>25. CASE M!Unplug
    <2>1. /\ UNCHANGED <<pc, mode, result, shutdown_thread, disconnected, registered, signalled, count, spurious>>
          /\ plugged' = FALSE
      BY <1>25 DEF M!Unplug, M!own
    <2>2. Labels' /\ Opened' /\ mode' \in Modes /\ plugged' \in BOOLEAN
      BY <2>1
    <2>6. MTypes'
      <3>1. MTypes
        OBVIOUS
      <3> QED  BY ONLY <2>1, <3>1, Zenon DEF MTypes
    <2>3. shutdown_thread' \in BOOLEAN
      BY <2>1
    <2>4. MReason'
      BY <2>1
    <2>5. spurious' \/ MMeeting'
      BY <2>1
    <2> QED  BY <2>2, <2>3, <2>4, <2>5, <2>6
  <1>26. CASE M!PlugIn
    BY <1>26 DEF M!PlugIn, M!Plug, M!own
  <1>27. Labels
    OBVIOUS
  <1> QED  BY <1>1, <1>2, <1>3, <1>4, <1>5, <1>6, <1>7, <1>8, <1>9, <1>10, <1>11, <1>12, <1>13, <1>14, <1>15, <1>16, <1>17, <1>18, <1>19, <1>20, <1>21, <1>22, <1>23, <1>24, <1>25, <1>26, <1>27
      DEF M!Next, M!ReadThread, M!InCall, M!Others

LEMMA MStep == ASSUME MInv, M!Next PROVE MInv' /\ Simulated
  <1>1. QueueOK' /\ Simulated /\ result' \in -1..Reports
    BY MQueue, ResultStep DEF MInv, Flagged
  <1> QED  BY <1>1, MThreadsStep DEF MInv, MThreads, Flagged
-----------------------------------------------------------------------------
\* Windows: what the buffer holds, and that the read which is under way is the one
\* the library remembers.
WTypes == /\ read_pending \in BOOLEAN /\ event \in BOOLEAN /\ failed \in BOOLEAN
          /\ io \in {"none", "pending", "complete", "failed"}
          /\ pc.app \in {"closed", "open", "frees"} \cup W!Reading /\ pc.thread = "none"

WRead == /\ read_pending <=> (io # "none")
         /\ pc.app \in {"waits", "results"} => read_pending
         /\ pc.app = "closed" => io = "none"
         /\ pc.app \in {"open", "frees"} /\ io # "none" => result = Timeout
         /\ io = "failed" /\ pc.app # "frees" => ~plugged \/ failed
         /\ result = Error /\ pc.app = "open" => ~plugged \/ failed

WBuffer == /\ io = "complete" => Len(reports) = 1
           /\ io # "complete" => reports = <<>>

WInv == Labels /\ Flagged /\ QueueOK /\ WTypes /\ WRead /\ WBuffer

\* The buffer gets the oldest report the system has.
LEMMA Filled ==
    ASSUME QueueOK, reports = <<>>, os # <<>>, reports' = <<Head(os)>>, os' = Tail(os), UNCHANGED <<last, sent>>
    PROVE  Moved /\ Len(reports') = 1
  <1>1. Head(os) \in 1..sent /\ Limit \in Nat
    BY HeadTailProperties, DeviceAssumption DEF QueueOK
  <1>2. Append(reports, Head(os)) = <<Head(os)>>
    OBVIOUS
  <1>3. Queued(reports, Head(os)) = Append(reports, Head(os))
    BY <1>1, EmptySeq DEF Queued
  <1> QED  BY <1>2, <1>3 DEF Moved

LEMMA WQueue == ASSUME WInv, W!Next PROVE QueueStep /\ Answers /\ WBuffer'
  <1> USE DEF QueueStep, Kept, Answers, WBuffer
  <1>1. CASE W!GoesOn \/ W!Signalled \/ W!Expires \/ W!HidOpenPath \/ W!HidRead
    BY <1>1 DEF WInv, WRead, W!GoesOn, W!Signalled, W!Expires, W!HidOpenPath, W!HidRead, W!Calls, W!Returns, W!own, W!Timeout, Timeout
  <1>2. CASE W!Fails \/ W!Cancels \/ W!HidClose \/ W!Unplug \/ W!PlugIn
    BY <1>2 DEF WInv, W!Fails, W!Cancels, W!HidClose, W!Unplug, W!PlugIn, W!Plug, W!own
  <1>3. CASE W!DeviceSends
    BY <1>3 DEF WInv, W!DeviceSends, W!Sends, W!own, Collected, Sends
  <1>4. CASE W!Completes
    <2>1. Moved /\ Len(reports') = 1
      BY <1>4, Filled DEF W!Completes, WInv
    <2> QED  BY <1>4, <2>1 DEF W!Completes
  <1>5. CASE W!StartsRead
    <2>1. reports = <<>>
      BY <1>5 DEF W!StartsRead, WInv, WRead
    <2>2. CASE io' = "complete"
      <3>1. Moved /\ Len(reports') = 1
        BY <1>5, <2>1, <2>2, Filled DEF W!StartsRead, WInv
      <3> QED  BY <1>5, <2>2, <3>1 DEF W!StartsRead
    <2>3. CASE io' # "complete"
      BY <1>5, <2>1, <2>3 DEF W!StartsRead, W!Error, Error
    <2> QED  BY <2>2, <2>3
  <1>6. CASE W!Results
    <2>1. CASE io = "complete"
      <3>1. reports \in Seq(1..sent) /\ Len(reports) = 1
        BY <2>1 DEF WInv, QueueOK
      <3>2. reports # <<>> /\ Tail(reports) = <<>>
        BY ONLY <3>1, OneReport
      <3> QED  BY <1>6, <2>1, <3>2 DEF W!Results, W!ReturnsData, Taken
    <2>2. CASE io # "complete"
      BY <1>6, <2>2 DEF WInv, W!Results, W!Returns, W!Error, Error
    <2> QED  BY <2>1, <2>2
  <1>7. CASE W!CloseFrees
    BY <1>7 DEF W!CloseFrees, Emptied
  <1> QED  BY <1>1, <1>2, <1>3, <1>4, <1>5, <1>6, <1>7 DEF W!Next, W!InCall, W!Others

\* Windows: the calls and the system, action by action.
LEMMA WCallsStep ==
    ASSUME WInv, W!Next
    PROVE  Labels' /\ WTypes' /\ WRead' /\ mode' \in Modes /\ shutdown_thread' \in BOOLEAN /\ plugged' \in BOOLEAN
  <1> USE DEF WInv, Labels, WTypes, WRead, Flagged, W!Reading, Modes, W!Modes
  <1>1. CASE W!Completes
    BY <1>1 DEF W!Completes
  <1>2. CASE W!Fails
    BY <1>2 DEF W!Fails
  <1>3. CASE W!StartsRead
    BY <1>3 DEF W!StartsRead, W!App
  <1>4. CASE W!GoesOn
    BY <1>4 DEF W!GoesOn, W!App, W!own
  <1>5. CASE W!Signalled
    BY <1>5 DEF W!Signalled, W!App
  <1>6. CASE W!Results
    <2>1. /\ io \in {"complete", "failed"} /\ pc' = [pc EXCEPT !.app = "open"] /\ pc.app = "results"
          /\ read_pending' = FALSE /\ io' = "none"
          /\ UNCHANGED <<mode, shutdown_thread, plugged, event, failed>>
      BY <1>6 DEF W!Results, W!App, W!Returns, W!ReturnsData
    <2>2. result' = Error => ~plugged \/ failed
      <3>1. CASE io = "complete"
        BY <1>6, <3>1, NoReportFails, EmptySeq DEF W!Results, W!ReturnsData, WBuffer
      <3>2. CASE io = "failed"
        BY <2>1, <3>2
      <3> QED  BY <2>1, <3>1, <3>2
    <2> QED  BY <2>1, <2>2
  <1>7. CASE W!HidOpenPath
    BY <1>7, NoReportFails DEF W!HidOpenPath, W!App, W!Timeout, Timeout
  <1>8. CASE W!HidRead
    BY <1>8 DEF W!HidRead, W!Calls, W!App, W!own
  <1>9. CASE W!Expires
    BY <1>9, NoReportFails DEF W!Expires, W!App, W!Returns, W!own, W!Timeout, Timeout
  <1>10. CASE W!HidClose
    BY <1>10 DEF W!HidClose, W!App, W!own
  <1>11. CASE W!DeviceSends
    BY <1>11 DEF W!DeviceSends, W!Sends, W!own
  <1>12. CASE W!Unplug
    BY <1>12 DEF W!Unplug, W!own
  <1>13. CASE W!PlugIn
    BY <1>13 DEF W!PlugIn, W!Plug, W!own
  <1>14. CASE W!Cancels
    BY <1>14 DEF W!Cancels
  <1>15. CASE W!CloseFrees
    BY <1>15 DEF W!CloseFrees, W!App
  <1> QED  BY <1>1, <1>2, <1>3, <1>4, <1>5, <1>6, <1>7, <1>8, <1>9, <1>10, <1>11, <1>12, <1>13, <1>14, <1>15
      DEF W!Next, W!InCall, W!Others

LEMMA WStep == ASSUME WInv, W!Next PROVE WInv' /\ Simulated
  <1>1. QueueOK' /\ Simulated /\ result' \in -1..Reports
    BY WQueue, ResultStep DEF WInv, Flagged
  <1> QED  BY <1>1, WQueue, WCallsStep DEF WInv, Flagged
-----------------------------------------------------------------------------
\* Linux: the library has no report, and no thread.
XTypes == failed \in BOOLEAN /\ reports = <<>> /\ pc.app \in {"closed", "open"} \cup X!Reading /\ pc.thread = "none"

XInv == Labels /\ Flagged /\ QueueOK /\ XTypes /\ (result = Error /\ pc.app = "open" => ~plugged \/ failed)

LEMMA XQueue == ASSUME XInv, X!Next PROVE QueueStep /\ Answers
  <1> USE DEF QueueStep, Kept, Answers
  <1>1. CASE X!HidOpenPath \/ X!Polls \/ X!HidRead \/ X!Unplug \/ X!PlugIn
    BY <1>1 DEF X!HidOpenPath, X!Polls, X!HidRead, X!Calls, X!Unplug, X!PlugIn, X!Plug, X!Timeout, Timeout, X!Error, Error
  <1>2. CASE X!Reads
    BY <1>2 DEF X!Reads, XInv, XTypes, Fetched, X!Error, Error
  <1>3. CASE X!HidClose
    BY <1>3 DEF X!HidClose, XInv, XTypes, Emptied
  <1>4. CASE X!DeviceSends
    BY <1>4 DEF X!DeviceSends, X!Sends, Collected, Sends
  <1> QED  BY <1>1, <1>2, <1>3, <1>4 DEF X!Next, X!InCall, X!Others

LEMMA XStep == ASSUME XInv, X!Next PROVE XInv' /\ Simulated
  <1>1. QueueOK' /\ Simulated /\ result' \in -1..Reports
    BY XQueue, ResultStep DEF XInv, Flagged
  <1>2. os # <<>> => Head(os) # Error
    <2>1. ASSUME os # <<>> PROVE Head(os) \in 1..sent
      BY <2>1, HeadTailProperties DEF XInv, QueueOK
    <2> QED  BY <2>1 DEF Error
  <1>3. Labels' /\ XTypes' /\ mode' \in Modes /\ shutdown_thread' \in BOOLEAN /\ plugged' \in BOOLEAN
        /\ (result' = Error /\ pc'.app = "open" => ~plugged' \/ failed')
    <2> USE DEF XInv, Labels, XTypes, Flagged, X!Reading, Modes, X!Modes
    <2>1. CASE X!HidOpenPath
      BY <2>1, NoReportFails DEF X!HidOpenPath, X!App, X!Timeout, Timeout
    <2>2. CASE X!Polls
      BY <2>2, NoReportFails DEF X!Polls, X!App, X!Timeout, Timeout, X!Error, Error
    <2>3. CASE X!Reads
      BY <2>3, <1>2 DEF X!Reads, X!App, X!Error, Error
    <2>4. CASE X!HidClose
      BY <2>4 DEF X!HidClose, X!App
    <2>5. CASE X!DeviceSends
      BY <2>5 DEF X!DeviceSends, X!Sends
    <2>6. CASE X!Unplug
      BY <2>6 DEF X!Unplug
    <2>7. CASE X!PlugIn
      BY <2>7 DEF X!PlugIn, X!Plug
    <2>8. CASE X!HidRead
      BY <2>8 DEF X!HidRead, X!Calls, X!App
    <2> QED  BY <2>1, <2>2, <2>3, <2>4, <2>5, <2>6, <2>7, <2>8 DEF X!Next, X!InCall, X!Others
  <1> QED  BY <1>1, <1>3 DEF XInv, Flagged
-----------------------------------------------------------------------------
\* The build has one of the four, whose invariant holds.
IInv == /\ platform \in {"libusb", "mac", "windows", "linux"}
        /\ platform = "libusb" => LInv
        /\ platform = "mac" => MInv
        /\ platform = "windows" => WInv
        /\ platform = "linux" => XInv

LEMMA Starts == ASSUME Init PROVE IInv
  <1>1. CommonInit
    BY DEF Init, L!Init, L!CommonInit, CommonInit, L!Timeout, Timeout
  <1>2. /\ last = 0 /\ sent = 0 /\ os = <<>> /\ reports = <<>>
        /\ Limit \in Nat /\ Reports \in Nat /\ Pending \in Nat
    BY <1>1, DeviceAssumption DEF CommonInit
  <1>3. <<>> \in Seq(1..sent) /\ Len(<<>>) = 0
    BY EmptySeq
  <1>4. Waiting = <<>>
    BY <1>2, <1>3, ConcatEmptySeq DEF Waiting
  <1>5. Order
    BY <1>2, <1>3, <1>4 DEF Order
  <1>6. QueueOK
    BY <1>2, <1>3, <1>5 DEF QueueOK
  <1>7. Labels /\ Flagged /\ Opened /\ result # Error
    <2>1. result \in -1..Reports /\ result # Error
      BY <1>1, <1>2 DEF CommonInit, Timeout, Error
    <2>2. Labels /\ Opened /\ mode \in Modes
      BY <1>1 DEF CommonInit, Labels, Opened, Modes
    <2>3. shutdown_thread \in BOOLEAN /\ plugged \in BOOLEAN
      BY <1>1 DEF CommonInit
    <2> QED  BY <2>1, <2>2, <2>3 DEF Flagged
  <1>8. LInv
    BY <1>1, <1>2, <1>6, <1>7 DEF Init, L!Init, CommonInit, LInv, LTypes, LTransfer, Carried, LReason, LSeen, L!Done, L!Reading
  <1>9. MInv
    <2>1. count \in [M!Barriers -> 0..1]
      BY DEF Init, M!Init
    <2> QED  BY <1>1, <1>6, <1>7, <2>1 DEF Init, M!Init, CommonInit, MInv, MTypes, MReason, MMeeting, M!Reading
  <1>10. WInv
    BY <1>1, <1>2, <1>6, <1>7 DEF Init, W!Init, CommonInit, WInv, WTypes, WRead, WBuffer, W!Reading
  <1>11. XInv
    BY <1>1, <1>2, <1>6, <1>7 DEF Init, X!Init, CommonInit, XInv, XTypes, X!Reading
  <1> QED  BY <1>8, <1>9, <1>10, <1>11 DEF Init, IInv

LEMMA Step == ASSUME IInv, [Next]_vars PROVE IInv' /\ Simulated
  <1>1. CASE Libusb
    BY <1>1, LStep DEF IInv, Libusb
  <1>2. CASE Mac
    BY <1>2, MStep DEF IInv, Mac
  <1>3. CASE Windows
    BY <1>3, WStep DEF IInv, Windows
  <1>4. CASE Linux
    BY <1>4, XStep DEF IInv, Linux
  <1>5. CASE UNCHANGED vars
    <2> USE <1>5 DEF vars, common, libusb, mac, windows
    <2>1. QueueOK' = QueueOK
      BY DEF QueueOK, Order, Waiting
    <2>2. Labels' = Labels /\ Flagged' = Flagged /\ Opened' = Opened
      BY DEF Labels, Flagged, Opened
    <2>3. LInv' = LInv
      BY <2>1, <2>2 DEF LInv, LTypes, LTransfer, Carried, LReason, LSeen
    <2>4. MInv' = MInv
      BY <2>1, <2>2 DEF MInv, MTypes, MReason, MMeeting
    <2>5. WInv' = WInv
      BY <2>1, <2>2 DEF WInv, WTypes, WRead, WBuffer
    <2>6. XInv' = XInv
      BY <2>1, <2>2 DEF XInv, XTypes
    <2>7. Simulated
      BY DEF Simulated, Waiting
    <2> QED  BY <2>3, <2>4, <2>5, <2>6, <2>7 DEF IInv
  <1> QED  BY <1>1, <1>2, <1>3, <1>4, <1>5 DEF Next

\* The inductive invariant holds of every backend.
THEOREM Invariance == Spec => []IInv
  <1> QED  BY Starts, Step, PTL DEF Spec
-----------------------------------------------------------------------------
\* The variables have their types: among them, no list is longer than its limit
\* and the link that is on its way (num_queued in the report callbacks).
THEOREM TypeCorrect == Spec => []TypeOK
  <1>1. ASSUME IInv PROVE TypeOK
    <2>1. CASE platform = "libusb"
      BY <1>1, <2>1 DEF IInv, LInv, Flagged, QueueOK, LTypes, TypeOK, L!TypeOK, L!CommonTypeOK, Modes, L!Modes
    <2>2. CASE platform = "mac"
      BY <1>1, <2>2 DEF IInv, MInv, Flagged, QueueOK, MTypes, TypeOK, M!TypeOK, M!CommonTypeOK, Modes, M!Modes
    <2>3. CASE platform = "windows"
      <3>1. Len(reports) = 1 \/ reports = <<>>
        BY <1>1, <2>3 DEF IInv, WInv, WBuffer
      <3>2. Len(reports) <= 1
        <4>1. Len(<<>>) = 0
          BY EmptySeq
        <4>2. CASE reports = <<>>
          BY <4>1, <4>2
        <4>3. CASE Len(reports) = 1
          BY <4>3
        <4> QED  BY <3>1, <4>2, <4>3
      <3> QED  BY <1>1, <2>3, <3>2 DEF IInv, WInv, Flagged, QueueOK, WTypes, TypeOK, W!TypeOK, W!CommonTypeOK, Modes, W!Modes
    <2>4. CASE platform = "linux"
      BY <1>1, <2>4 DEF IInv, XInv, Flagged, QueueOK, XTypes, TypeOK, X!TypeOK, X!CommonTypeOK, Modes, X!Modes
    <2> QED  BY <1>1, <2>1, <2>2, <2>3, <2>4 DEF IInv
  <1> QED  BY <1>1, Invariance, PTL

\* A read that returns -1 has a cause, the device or a call of the system: silence, a
\* time-out, a wake-up with no cause, a read left over and a closing thread are none.
THEOREM NoFalseFailure == Spec => []FailsOnlyForCause
  <1>1. ASSUME IInv PROVE FailsOnlyForCause
    BY <1>1 DEF IInv, LInv, LReason, MInv, MReason, WInv, WRead, XInv, FailsOnlyForCause,
                L!MayFail, M!MayFail, W!MayFail, X!MayFail
  <1> QED  BY <1>1, Invariance, PTL

\* What hid_close frees or uses last is in use, or gone, only in the ways CloseSafe
\* names: a transfer the thread missed or left, a barrier that leaked, a read that had
\* timed out.
THEOREM ClosesSafely == Spec => []CloseSafe
  <1>1. ASSUME IInv PROVE CloseSafe
    <2>1. CASE platform = "libusb"
      BY <1>1, <2>1 DEF IInv, LInv, LTypes, LTransfer, LSeen, CloseSafe, L!CloseSafe, L!Done
    <2>2. CASE platform = "mac"
      BY <1>1, <2>2 DEF IInv, MInv, MMeeting, CloseSafe, M!CloseSafe
    <2>3. CASE platform = "windows"
      BY <1>1, <2>3 DEF IInv, WInv, WRead, CloseSafe, W!CloseSafe, W!Timeout, Timeout
    <2>4. CASE platform = "linux"
      BY <2>4 DEF CloseSafe
    <2> QED  BY <1>1, <2>1, <2>2, <2>3, <2>4 DEF IInv
  <1> QED  BY <1>1, Invariance, PTL

\* Each of the four is the one queue: reports are read in the order they were sent,
\* none twice, and given up only behind Limit + 2 others, or with the device.
THEOREM QueueImplemented == Spec => ImplementsQueue
  <1>1. ASSUME Init PROVE Queue!Init
    <2>1. reports = <<>> /\ os = <<>> /\ last = 0
      BY <1>1 DEF Init, L!Init, L!CommonInit
    <2>2. reports \o os = <<>>
      BY <2>1, EmptySeq, ConcatEmptySeq
    <2> QED  BY <2>1, <2>2 DEF Queue!Init
  <1>2. ASSUME IInv, [Next]_vars PROVE [Queue!Next]_<<reports \o os, last>>
    BY <1>2, Step DEF Simulated, Waiting
  <1> QED  BY <1>1, <1>2, Invariance, PTL DEF Spec, ImplementsQueue, Queue!Spec
===============================================================================
