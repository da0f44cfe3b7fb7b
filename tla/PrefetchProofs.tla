--------------------------- MODULE PrefetchProofs ---------------------------
(***************************************************************************)
(* The safety of Prefetch for every source length, every set of queue      *)
(* capacities and every bound on interrupts.                               *)
(*                                                                         *)
(* The strengthening relates what was pulled from the source to where the  *)
(* pages are now: handed over (got), in the queue, or in the worker's      *)
(* hand.  It holds while the consumer is in the context; leaving it drains *)
(* the queue, and from then on nothing is delivered.                       *)
(***************************************************************************)
EXTENDS Prefetch, SequenceTheorems, TLAPS

\* The stop event is up exactly while the consumer is leaving or gone.
StopMeansLeaving == stop <=> cpc \in {"drain", "join", "out"}

\* The queue holds the pages that follow those delivered, then perhaps the end.
QueueOrder ==
  ~stop => \A i \in 1 .. Len(q) :
             IF q[i] = END THEN i = Len(q) /\ wpc = "done"
                           ELSE q[i] = got + i

\* Every page the source returned is delivered, queued or in hand; only a
\* cancel loses one, and then the source is not asked again.
PagesAccounted ==
  ~stop =>
    /\ wpc \in {"start", "pull"} => pulled = got + Len(q)
    /\ wpc = "check" => pulled = got + Len(q) \/ cancelled
    /\ wpc \in {"returned", "put", "offer"} => pulled = got + Len(q) + 1
    /\ wpc \in {"putEnd", "offerEnd"} =>
         /\ error => pulled = got + Len(q)
         /\ ~error /\ ~cancelled => pulled = got + Len(q) /\ pulled = NumPages

\* The same once the end marker is queued: it stands behind every page.
EndAccounted ==
  ~stop =>
    /\ cpc \in {"ended", "raised"} => q = <<>> /\ wpc = "done"
    /\ \A i \in 1 .. Len(q) : q[i] = END =>
         /\ error => pulled = got + Len(q) - 1
         /\ ~error /\ ~cancelled => pulled = got + Len(q) - 1 /\ pulled = NumPages

\* A worker that kept an error pulls no more.
ErrorIsLast == error => wpc \in {"putEnd", "offerEnd", "done"}

\* Nothing is late before a flag is up, nor where the worker has just seen none.
LateSeen ==
  /\ ~Stopping => late = 0
  /\ wpc \in {"start", "pull", "put", "offer"} => late = 0
  /\ late <= 1

\* Nothing is queued or delivered that the source has not returned.
PulledFirst == got <= pulled /\ \A i \in 1 .. Len(q) : q[i] <= pulled

IInv ==
  /\ TypeOK
  /\ StopMeansLeaving
  /\ QueueOrder
  /\ PagesAccounted
  /\ EndAccounted
  /\ ErrorIsLast
  /\ LateSeen
  /\ PulledFirst
  /\ NoSurvivingWorker

-----------------------------------------------------------------------------

\* What Append and Tail do to a sequence of page numbers: the two queue
\* operations, in the form the invariants quantify over.
LEMMA AppendFacts ==
  ASSUME NEW S, NEW s \in Seq(S), NEW e \in S
  PROVE  /\ Append(s, e) \in Seq(S)
         /\ Len(Append(s, e)) = Len(s) + 1
         /\ \A i \in 1 .. Len(s) : Append(s, e)[i] = s[i]
         /\ Append(s, e)[Len(s) + 1] = e
OBVIOUS

LEMMA TailFacts ==
  ASSUME NEW S, NEW s \in Seq(S), s # <<>>
  PROVE  /\ Head(s) = s[1] /\ Head(s) \in S
         /\ Len(s) \in Nat /\ Len(s) >= 1
         /\ Tail(s) \in Seq(S)
         /\ Len(Tail(s)) = Len(s) - 1
         /\ \A i \in 1 .. Len(s) - 1 : Tail(s)[i] = s[i + 1]
OBVIOUS

LEMMA InitIInv == Init => IInv
<1> SUFFICES ASSUME Init PROVE IInv
  OBVIOUS
<1>1. TypeOK
  <2>1. q \in Seq(0 .. NumPages) /\ Len(q) <= queueSize
    BY PrefetchAssumption, EmptySeq DEF Init
  <2>2. got \in 0 .. NumPages /\ pulled \in 0 .. NumPages /\ interrupts \in 0 .. MaxInterrupts
    BY PrefetchAssumption DEF Init
  <2> QED
    BY <2>1, <2>2 DEF Init, TypeOK, WorkerPCs, ConsumerPCs
<1>2. StopMeansLeaving /\ ErrorIsLast /\ LateSeen /\ NoSurvivingWorker /\ PulledFirst
  BY DEF Init, StopMeansLeaving, ErrorIsLast, LateSeen, NoSurvivingWorker, Stopping, PulledFirst
<1>3. QueueOrder /\ PagesAccounted /\ EndAccounted
  BY DEF Init, QueueOrder, PagesAccounted, EndAccounted
<1> QED
  BY <1>1, <1>2, <1>3 DEF IInv

LEMMA NextIInv == IInv /\ [Next]_vars => IInv'
<1> SUFFICES ASSUME IInv, [Next]_vars PROVE IInv'
  OBVIOUS
<1>1. CASE Start
  <2>1. TypeOK'
    BY PrefetchAssumption, <1>1
       DEF IInv, TypeOK, Start, WorkerPCs, ConsumerPCs, vars, args, flags, workerVars,
       consumerVars
  <2>2. StopMeansLeaving' /\ ErrorIsLast' /\ NoSurvivingWorker'
    BY <1>1
       DEF IInv, TypeOK, StopMeansLeaving, ErrorIsLast, NoSurvivingWorker, Start, vars, args,
       flags, workerVars, consumerVars
  <2>3. LateSeen'
    BY <1>1
       DEF IInv, TypeOK, LateSeen, Stopping, Start, vars, args, flags, workerVars, consumerVars
  <2>4. QueueOrder'
    BY PrefetchAssumption, <1>1
       DEF IInv, TypeOK, QueueOrder, PagesAccounted, EndAccounted, StopMeansLeaving, Start,
       vars, args, flags, workerVars, consumerVars
  <2>5. PagesAccounted'
    BY PrefetchAssumption, <1>1
       DEF IInv, TypeOK, QueueOrder, PagesAccounted, EndAccounted, ErrorIsLast,
       StopMeansLeaving, Stopping, Start, vars, args, flags, workerVars, consumerVars
  <2>6. EndAccounted'
    BY PrefetchAssumption, <1>1
       DEF IInv, TypeOK, QueueOrder, PagesAccounted, EndAccounted, ErrorIsLast,
       StopMeansLeaving, Start, vars, args, flags, workerVars, consumerVars
  <2>7. PulledFirst'
    BY <1>1 DEF IInv, TypeOK, PulledFirst, Start, vars, args, flags, workerVars, consumerVars
  <2> QED
    BY <2>1, <2>2, <2>3, <2>4, <2>5, <2>6, <2>7 DEF IInv
<1>2. CASE Check
  BY PrefetchAssumption, <1>2
     DEF Check, IInv, TypeOK, StopMeansLeaving, QueueOrder, PagesAccounted, EndAccounted,
         ErrorIsLast, LateSeen, NoSurvivingWorker, PulledFirst, Stopping, vars, args,
         flags, workerVars, consumerVars, WorkerPCs, ConsumerPCs
<1>3. CASE Pull
  <2>0. pulled' \in 0 .. NumPages /\ late' \in Nat
    BY PrefetchAssumption, <1>3 DEF IInv, TypeOK, Pull, Late
  <2>1. TypeOK'
    BY <1>3, <2>0 DEF IInv, TypeOK, Pull, WorkerPCs, args, flags, consumerVars
  <2>2. StopMeansLeaving' /\ ErrorIsLast' /\ NoSurvivingWorker'
    BY <1>3
       DEF IInv, TypeOK, StopMeansLeaving, ErrorIsLast, NoSurvivingWorker, Pull, Late, Stopping,
       vars, args, flags, workerVars, consumerVars
  <2>3. LateSeen'
    BY <1>3
       DEF IInv, TypeOK, LateSeen, Stopping, Pull, Late, Stopping, vars, args, flags,
       workerVars, consumerVars
  <2>4. QueueOrder'
    BY PrefetchAssumption, <1>3
       DEF IInv, TypeOK, QueueOrder, PagesAccounted, EndAccounted, StopMeansLeaving, Pull, Late,
       Stopping, vars, args, flags, workerVars, consumerVars
  <2>5. PagesAccounted'
    BY PrefetchAssumption, <1>3
       DEF IInv, TypeOK, QueueOrder, PagesAccounted, EndAccounted, ErrorIsLast,
       StopMeansLeaving, Stopping, Pull, Late, Stopping, vars, args, flags, workerVars,
       consumerVars
  <2>6. EndAccounted'
    BY PrefetchAssumption, <1>3
       DEF IInv, TypeOK, QueueOrder, PagesAccounted, EndAccounted, ErrorIsLast,
       StopMeansLeaving, Pull, Late, Stopping, vars, args, flags, workerVars, consumerVars
  <2>7. PulledFirst'
    <3>1. got' = got /\ q' = q /\ pulled' >= pulled
      BY <1>3 DEF Pull, IInv, TypeOK, consumerVars
    <3>2. \A i \in 1 .. Len(q) : q[i] \in 0 .. NumPages
      BY ElementOfSeq DEF IInv, TypeOK
    <3> QED
      BY <2>0, <3>1, <3>2 DEF IInv, TypeOK, PulledFirst
  <2> QED
    BY <2>1, <2>2, <2>3, <2>4, <2>5, <2>6, <2>7 DEF IInv
<1>4. CASE Returned
  BY PrefetchAssumption, <1>4
     DEF Returned, IInv, TypeOK, StopMeansLeaving, QueueOrder, PagesAccounted, EndAccounted,
         ErrorIsLast, LateSeen, NoSurvivingWorker, PulledFirst, Stopping, vars, args,
         flags, workerVars, consumerVars, WorkerPCs, ConsumerPCs
<1>5. CASE Put
  BY PrefetchAssumption, <1>5
     DEF Put, IInv, TypeOK, StopMeansLeaving, QueueOrder, PagesAccounted, EndAccounted,
         ErrorIsLast, LateSeen, NoSurvivingWorker, PulledFirst, Stopping, vars, args,
         flags, workerVars, consumerVars, WorkerPCs, ConsumerPCs
<1>6. CASE Offer
  <2>1. CASE ~Full
    <3>1. /\ q' = Append(q, pulled) /\ wpc' = "check" /\ late' = Late
          /\ UNCHANGED <<args, flags, pulled, error, consumerVars>> /\ wpc = "offer"
      BY <1>6, <2>1 DEF Offer
    <3>2. /\ q' \in Seq(0 .. NumPages) /\ Len(q') = Len(q) + 1 /\ Len(q) \in Nat
          /\ \A i \in 1 .. Len(q) : q'[i] = q[i]
          /\ q'[Len(q) + 1] = pulled
      BY <3>1, AppendFacts DEF IInv, TypeOK
    <3>3. late' \in Nat /\ Len(q') <= queueSize
      BY <2>1, <3>1, <3>2, PrefetchAssumption DEF IInv, TypeOK, Full, Late
    <3>4. TypeOK'
      BY <3>1, <3>2, <3>3 DEF IInv, TypeOK, WorkerPCs, args, flags, consumerVars
    <3>5. ~stop => pulled = got + Len(q) + 1
      BY <3>1 DEF IInv, PagesAccounted
    <3>6. ~stop => \A i \in 1 .. Len(q) : q[i] # END /\ q[i] = got + i
      BY <3>1 DEF IInv, QueueOrder
    <3>7. ~stop => \A i \in 1 .. Len(q') : q'[i] # END /\ q'[i] = got + i
      <4> SUFFICES ASSUME ~stop, NEW i \in 1 .. Len(q')
                   PROVE  q'[i] # END /\ q'[i] = got + i
        OBVIOUS
      <4>1. CASE i \in 1 .. Len(q)
        BY <3>2, <3>6, <4>1
      <4>2. CASE i = Len(q) + 1
        BY <3>2, <3>5, <4>2 DEF IInv, TypeOK, END
      <4> QED
        BY <3>2, <4>1, <4>2
    <3>8. QueueOrder' /\ EndAccounted'
      BY <3>1, <3>7 DEF IInv, QueueOrder, EndAccounted, flags, consumerVars
    <3>9. PagesAccounted'
      BY <3>1, <3>2, <3>5 DEF IInv, TypeOK, PagesAccounted, flags, consumerVars
    <3>10. LateSeen'
      BY <3>1 DEF IInv, TypeOK, LateSeen, Late, Stopping, flags
    <3>11. StopMeansLeaving' /\ ErrorIsLast' /\ NoSurvivingWorker'
      BY <3>1
         DEF IInv, StopMeansLeaving, ErrorIsLast, NoSurvivingWorker, args, flags, consumerVars
    <3>12. PulledFirst'
      <4>1. \A i \in 1 .. Len(q) : q'[i] <= pulled
        BY <3>2 DEF IInv, PulledFirst
      <4>2. q'[Len(q) + 1] <= pulled
        BY <3>2 DEF IInv, TypeOK, END
      <4> QED
        BY <3>1, <3>2, <4>1, <4>2 DEF IInv, PulledFirst, consumerVars
    <3> QED
      BY <3>4, <3>8, <3>9, <3>10, <3>11, <3>12 DEF IInv
  <2>2. CASE Full
    BY <1>6, <2>2 DEF Offer, IInv, TypeOK, StopMeansLeaving, QueueOrder, PagesAccounted,
       EndAccounted, ErrorIsLast, LateSeen, NoSurvivingWorker, PulledFirst, Stopping,
       WorkerPCs, args, flags, consumerVars
  <2> QED
    BY <2>1, <2>2
<1>7. CASE PutEnd
  BY PrefetchAssumption, <1>7
     DEF PutEnd, IInv, TypeOK, StopMeansLeaving, QueueOrder, PagesAccounted, EndAccounted,
         ErrorIsLast, LateSeen, NoSurvivingWorker, PulledFirst, Stopping, vars, args,
         flags, workerVars, consumerVars, WorkerPCs, ConsumerPCs
<1>8. CASE OfferEnd
  <2>1. CASE ~Full
    <3>1. /\ q' = Append(q, END) /\ wpc' = "done" /\ wpc = "offerEnd"
          /\ UNCHANGED <<args, flags, pulled, error, late, consumerVars>>
      BY <1>8, <2>1 DEF OfferEnd
    <3>2. /\ q' \in Seq(0 .. NumPages) /\ Len(q') = Len(q) + 1 /\ Len(q) \in Nat
          /\ \A i \in 1 .. Len(q) : q'[i] = q[i]
          /\ q'[Len(q) + 1] = END
      BY <3>1, AppendFacts, PrefetchAssumption DEF IInv, TypeOK, END
    <3>3. Len(q') <= queueSize
      BY <2>1, <3>2, PrefetchAssumption DEF IInv, TypeOK, Full
    <3>4. TypeOK'
      BY <3>1, <3>2, <3>3 DEF IInv, TypeOK, WorkerPCs, args, flags, consumerVars
    <3>5. ~stop => \A i \in 1 .. Len(q) : q[i] # END /\ q[i] = got + i
      BY <3>1 DEF IInv, QueueOrder
    <3>6. ~stop => /\ error => pulled = got + Len(q)
                   /\ ~error /\ ~cancelled => pulled = got + Len(q) /\ pulled = NumPages
      BY <3>1 DEF IInv, PagesAccounted
    <3>7. ~stop => cpc \notin {"ended", "raised"}
      BY <3>1 DEF IInv, EndAccounted
    <3>8. QueueOrder'
      BY <3>1, <3>2, <3>5 DEF IInv, TypeOK, QueueOrder, flags, consumerVars
    <3>9. EndAccounted'
      BY <3>1, <3>2, <3>6, <3>7 DEF IInv, TypeOK, EndAccounted, flags, consumerVars
    <3>10. PagesAccounted' /\ LateSeen'
      BY <3>1 DEF IInv, PagesAccounted, LateSeen, Stopping, flags
    <3>11. StopMeansLeaving' /\ ErrorIsLast' /\ NoSurvivingWorker'
      BY <3>1
         DEF IInv, StopMeansLeaving, ErrorIsLast, NoSurvivingWorker, args, flags, consumerVars
    <3>12. PulledFirst'
      <4>1. \A i \in 1 .. Len(q) : q'[i] <= pulled
        BY <3>2 DEF IInv, PulledFirst
      <4>2. q'[Len(q) + 1] <= pulled
        BY <3>2 DEF IInv, TypeOK, END
      <4> QED
        BY <3>1, <3>2, <4>1, <4>2 DEF IInv, PulledFirst, consumerVars
    <3> QED
      BY <3>4, <3>8, <3>9, <3>10, <3>11, <3>12 DEF IInv
  <2>2. CASE Full
    BY <1>8, <2>2 DEF OfferEnd, IInv, TypeOK, StopMeansLeaving, QueueOrder, PagesAccounted,
       EndAccounted, ErrorIsLast, LateSeen, NoSurvivingWorker, PulledFirst, Stopping,
       WorkerPCs, args, flags, consumerVars
  <2> QED
    BY <2>1, <2>2
<1>9. CASE Ask
  BY PrefetchAssumption, <1>9
     DEF Ask, IInv, TypeOK, StopMeansLeaving, QueueOrder, PagesAccounted, EndAccounted,
         ErrorIsLast, LateSeen, NoSurvivingWorker, PulledFirst, Stopping, vars, args,
         flags, workerVars, consumerVars, WorkerPCs, ConsumerPCs
<1>10. CASE Get
  <2>1. /\ q # <<>> /\ q' = Tail(q) /\ cpc = "get" /\ ~stop
        /\ UNCHANGED <<args, flags, workerVars, interrupted, interrupts, escaped>>
    BY <1>10 DEF Get, IInv, StopMeansLeaving
  <2>2. /\ Head(q) = q[1] /\ Len(q) \in Nat /\ Len(q) >= 1
        /\ q' \in Seq(0 .. NumPages) /\ Len(q') = Len(q) - 1
        /\ q[1] \in 0 .. NumPages
        /\ \A i \in 1 .. Len(q') : q'[i] = q[i + 1]
    BY <2>1, TailFacts DEF IInv, TypeOK
  <2>3. Len(q') <= queueSize
    BY <2>2, PrefetchAssumption DEF IInv, TypeOK
  <2>4. StopMeansLeaving' /\ ErrorIsLast' /\ LateSeen' /\ NoSurvivingWorker'
    BY <1>10, <2>1 DEF Get, IInv, StopMeansLeaving, ErrorIsLast, LateSeen, NoSurvivingWorker,
       Stopping, args, flags, workerVars
  <2>5. CASE q[1] = END
    <3>1. /\ cpc' \in {"ended", "raised"} /\ got' = got
      BY <1>10, <2>2, <2>5 DEF Get
    <3>2. Len(q) = 1 /\ wpc = "done" /\ Len(q') = 0
      <4>1. 1 \in 1 .. Len(q)
        BY <2>2
      <4>2. 1 = Len(q) /\ wpc = "done"
        BY <2>1, <2>5, <4>1 DEF IInv, QueueOrder
      <4>3. Len(q') = Len(q) - 1
        BY <2>2
      <4> QED
        BY <4>2, <4>3
    <3>3. q' = <<>>
      BY <2>2, <3>2, EmptySeq
    <3>4. TypeOK'
      BY <2>1, <2>2, <2>3, <3>1 DEF IInv, TypeOK, ConsumerPCs, args, flags, workerVars
    <3>5. QueueOrder' /\ EndAccounted' /\ PagesAccounted'
      <4>1. \A i \in 1 .. Len(q') : FALSE
        BY <3>2
      <4> QED
        BY <2>1, <3>1, <3>2, <3>3, <4>1 DEF QueueOrder, EndAccounted, PagesAccounted, workerVars
    <3>6. PulledFirst'
      <4>1. \A i \in 1 .. Len(q') : q'[i] <= pulled'
        BY <3>2
      <4> QED
        BY <2>1, <3>1, <4>1 DEF IInv, PulledFirst, workerVars
    <3> QED
      BY <2>4, <3>4, <3>5, <3>6 DEF IInv
  <2>6. CASE q[1] # END
    <3>1. q[1] = got + 1
      <4>1. 1 \in 1 .. Len(q)
        BY <2>2
      <4> QED
        BY <2>1, <2>6, <4>1 DEF IInv, QueueOrder
    <3>2. cpc' = "app" /\ got' = got + 1
      BY <1>10, <2>2, <2>6, <3>1 DEF Get
    <3>3. got' \in 0 .. NumPages
      BY <2>2, <3>1, <3>2 DEF IInv, TypeOK
    <3>4. TypeOK'
      BY <2>1, <2>2, <2>3, <3>2, <3>3 DEF IInv, TypeOK, ConsumerPCs, args, flags, workerVars
    <3>5. \A i \in 1 .. Len(q') : IF q'[i] = END THEN i = Len(q') /\ wpc = "done"
                                                  ELSE q'[i] = got' + i
      <4> SUFFICES ASSUME NEW i \in 1 .. Len(q')
                   PROVE  IF q'[i] = END THEN i = Len(q') /\ wpc = "done"
                                         ELSE q'[i] = got' + i
        OBVIOUS
      <4>1. i + 1 \in 1 .. Len(q) /\ q'[i] = q[i + 1]
        BY <2>2
      <4>2. IF q[i + 1] = END THEN i + 1 = Len(q) /\ wpc = "done" ELSE q[i + 1] = got + (i + 1)
        BY <2>1, <4>1 DEF IInv, QueueOrder
      <4> QED
        BY <2>2, <3>2, <4>1, <4>2 DEF IInv, TypeOK
    <3>6. QueueOrder'
      BY <2>1, <3>5 DEF QueueOrder, flags, workerVars
    <3>7. EndAccounted'
      <4>1. \A i \in 1 .. Len(q') : q'[i] = END =>
              /\ error => pulled = got + Len(q) - 1
              /\ ~error /\ ~cancelled => pulled = got + Len(q) - 1 /\ pulled = NumPages
        BY <2>1, <2>2 DEF IInv, EndAccounted
      <4>2. got' + Len(q') - 1 = got + Len(q) - 1
        BY <2>2, <3>2 DEF IInv, TypeOK
      <4> QED
        BY <2>1, <3>2, <4>1, <4>2 DEF EndAccounted, flags, workerVars
    <3>8. PagesAccounted'
      BY <2>1, <2>2, <3>2 DEF IInv, TypeOK, PagesAccounted, flags, workerVars
    <3>9. PulledFirst'
      <4>1. got + 1 <= pulled
        BY <2>2, <3>1 DEF IInv, PulledFirst
      <4>2. \A i \in 1 .. Len(q') : q'[i] <= pulled
        BY <2>2 DEF IInv, PulledFirst
      <4> QED
        BY <2>1, <3>2, <4>1, <4>2 DEF PulledFirst, workerVars
    <3> QED
      BY <2>4, <3>4, <3>6, <3>7, <3>8, <3>9 DEF IInv
  <2> QED
    BY <2>5, <2>6
<1>11. CASE Exit
  BY PrefetchAssumption, <1>11
     DEF Exit, IInv, TypeOK, StopMeansLeaving, QueueOrder, PagesAccounted, EndAccounted,
         ErrorIsLast, LateSeen, NoSurvivingWorker, PulledFirst, Stopping, vars, args,
         flags, workerVars, consumerVars, WorkerPCs, ConsumerPCs
<1>12. CASE Interrupt
  BY PrefetchAssumption, <1>12
     DEF Interrupt, IInv, TypeOK, StopMeansLeaving, QueueOrder, PagesAccounted, EndAccounted,
         ErrorIsLast, LateSeen, NoSurvivingWorker, PulledFirst, Stopping, vars, args,
         flags, workerVars, consumerVars, WorkerPCs, ConsumerPCs
<1>13. CASE Drain
  <2>1. /\ stop /\ stop' /\ cpc = "drain" /\ cpc' \in {"drain", "join", "out"}
        /\ UNCHANGED <<args, flags, workerVars, got, interrupted, interrupts, escaped>>
    BY <1>13 DEF Drain, IInv, StopMeansLeaving, flags
  <2>2. q' \in Seq(0 .. NumPages) /\ Len(q') <= queueSize /\ \A i \in 1 .. Len(q') : q'[i] <= pulled
    <3>1. CASE q # <<>> /\ q' = Tail(q)
      BY <3>1, TailFacts, PrefetchAssumption DEF IInv, TypeOK, PulledFirst
    <3>2. CASE q' = q
      BY <3>2 DEF IInv, TypeOK, PulledFirst
    <3> QED
      BY <1>13, <3>1, <3>2 DEF Drain
  <2>3. TypeOK' /\ PulledFirst'
    BY <2>1, <2>2 DEF IInv, TypeOK, PulledFirst, ConsumerPCs, args, flags, workerVars
  <2>4. StopMeansLeaving' /\ ErrorIsLast' /\ LateSeen' /\ QueueOrder' /\ PagesAccounted' /\ EndAccounted'
    BY <2>1 DEF IInv, StopMeansLeaving, ErrorIsLast, LateSeen, Stopping, QueueOrder,
       PagesAccounted, EndAccounted, flags, workerVars
  <2>5. NoSurvivingWorker'
    BY <1>13, <2>1 DEF Drain, Joins, IInv, NoSurvivingWorker, args, flags, workerVars
  <2> QED
    BY <2>3, <2>4, <2>5 DEF IInv
<1>14. CASE Join
  BY PrefetchAssumption, <1>14
     DEF Join, IInv, TypeOK, StopMeansLeaving, QueueOrder, PagesAccounted, EndAccounted,
         ErrorIsLast, LateSeen, NoSurvivingWorker, PulledFirst, Stopping, vars, args,
         flags, workerVars, consumerVars, WorkerPCs, ConsumerPCs
<1>15. CASE InterruptTeardown
  BY PrefetchAssumption, <1>15
     DEF InterruptTeardown, IInv, TypeOK, StopMeansLeaving, QueueOrder, PagesAccounted,
        EndAccounted,
         ErrorIsLast, LateSeen, NoSurvivingWorker, PulledFirst, Stopping, vars, args,
         flags, workerVars, consumerVars, WorkerPCs, ConsumerPCs
<1>16. CASE Cancel
  BY PrefetchAssumption, <1>16
     DEF Cancel, IInv, TypeOK, StopMeansLeaving, QueueOrder, PagesAccounted, EndAccounted,
         ErrorIsLast, LateSeen, NoSurvivingWorker, PulledFirst, Stopping, vars, args,
         flags, workerVars, consumerVars, WorkerPCs, ConsumerPCs
<1>17. CASE MarkInterruptUnwinding
  BY PrefetchAssumption, <1>17
     DEF MarkInterruptUnwinding, IInv, TypeOK, StopMeansLeaving, QueueOrder, PagesAccounted,
        EndAccounted,
         ErrorIsLast, LateSeen, NoSurvivingWorker, PulledFirst, Stopping, vars, args,
         flags, workerVars, consumerVars, WorkerPCs, ConsumerPCs
<1>18. CASE Finished
  BY PrefetchAssumption, <1>18
     DEF Finished, IInv, TypeOK, StopMeansLeaving, QueueOrder, PagesAccounted, EndAccounted,
         ErrorIsLast, LateSeen, NoSurvivingWorker, PulledFirst, Stopping, vars, args,
         flags, workerVars, consumerVars, WorkerPCs, ConsumerPCs
<1>19. CASE UNCHANGED vars
  BY <1>19 DEF IInv, TypeOK, StopMeansLeaving, QueueOrder, PagesAccounted, EndAccounted,
         ErrorIsLast, LateSeen, NoSurvivingWorker, PulledFirst, Stopping, vars, args,
         flags, workerVars, consumerVars, WorkerPCs, ConsumerPCs
<1> QED
  BY <1>1, <1>2, <1>3, <1>4, <1>5, <1>6, <1>7, <1>8, <1>9, <1>10, <1>11, <1>12, <1>13, <1>14,
     <1>15, <1>16, <1>17, <1>18, <1>19
     DEF Next, Worker

LEMMA Invariance == SafeSpec => []IInv
<1> QED
  BY InitIInv, NextIInv, PTL DEF SafeSpec

-----------------------------------------------------------------------------
(* The results.                                                            *)

\* Every variable keeps its type, and the queue never outgrows queue_size,
\* whatever the argument (concurrency.prefetch, queue.Queue(maxsize=...)).
THEOREM PrefetchTyped == SafeSpec => []TypeOK
<1>1. IInv => TypeOK
  BY DEF IInv
<1> QED
  BY <1>1, Invariance, PTL

\* Once the stop event or the cancel is up, at most one more page comes out of
\* the source or enters the queue (prefetch: the checks around next and put).
THEOREM PrefetchStopsPromptly == SafeSpec => []AtMostOneLatePage
<1>1. IInv => AtMostOneLatePage
  BY DEF IInv, LateSeen, AtMostOneLatePage
<1> QED
  BY <1>1, Invariance, PTL

\* Leaving the context without opting out leaves no worker (prefetch: the join).
THEOREM PrefetchLeavesNoWorker == SafeSpec => []NoSurvivingWorker
<1>1. IInv => NoSurvivingWorker
  BY DEF IInv
<1> QED
  BY <1>1, Invariance, PTL

\* The initial state is one of an unread stream.
LEMMA StreamInit == Init => Stream!Init
BY DEF Init, Stream!Init, StreamFault, StreamStatus

\* Every step of the threads is a step of the stream, or invisible to it.
LEMMA StreamStep == IInv /\ [Next]_vars => [Stream!Next]_(Stream!streamVars)
<1> SUFFICES ASSUME IInv, [Next]_vars PROVE [Stream!Next]_(Stream!streamVars)
  OBVIOUS
<1> DEFINE Same == UNCHANGED <<got, StreamFault, cancelled, StreamStatus>>
<1>0. Same => UNCHANGED Stream!streamVars
  BY DEF Stream!streamVars
<1>1. CASE Start \/ Pull
  <2>1. /\ UNCHANGED <<got, cancelled, StreamStatus>>
        /\ ~error /\ got \in Nat /\ pulled \in Nat /\ got <= pulled /\ pulled <= NumPages
        /\ ~error' \/ (error' /\ pulled' = pulled)
    BY <1>1
       DEF Start, Pull, IInv, TypeOK, ErrorIsLast, PulledFirst, StreamStatus, flags,
       consumerVars
  <2>2. CASE ~error'
    BY <1>0, <2>1, <2>2 DEF StreamFault
  <2>3. CASE error' /\ pulled' = pulled
    <3>1. StreamFault = 0 /\ StreamFault' = pulled + 1 /\ pulled \in got .. NumPages
      BY <2>1, <2>3, PrefetchAssumption DEF StreamFault
    <3>2. Stream!SourceFails
      BY <2>1, <3>1 DEF Stream!SourceFails
    <3> QED
      BY <3>2 DEF Stream!Next
  <2> QED
    BY <2>1, <2>2, <2>3
<1>2. CASE Check \/ Returned \/ Put \/ Offer \/ PutEnd \/ OfferEnd \/ MarkInterruptUnwinding
  <2>1. Same
    BY <1>2 DEF Check, Returned, Put, Offer, PutEnd, OfferEnd, MarkInterruptUnwinding,
       StreamFault, StreamStatus, flags, workerVars, consumerVars
  <2> QED
    BY <1>0, <2>1
<1>3. CASE Get
  <2>1. /\ cpc = "get" /\ ~stop /\ q # <<>> /\ UNCHANGED <<flags, workerVars>>
        /\ StreamStatus = "open"
    BY <1>3 DEF Get, IInv, StopMeansLeaving, StreamStatus
  <2>2. 1 \in 1 .. Len(q) /\ Head(q) = q[1] /\ q[1] \in 0 .. NumPages
    <3>1. q \in Seq(0 .. NumPages) /\ q # <<>>
      BY <2>1 DEF IInv, TypeOK
    <3>2. Head(q) = q[1] /\ Head(q) \in 0 .. NumPages /\ Len(q) \in Nat /\ Len(q) >= 1
      BY <3>1, TailFacts
    <3> QED
      BY <3>2
  <2>3. UNCHANGED <<StreamFault, cancelled>>
    BY <2>1 DEF StreamFault, flags, workerVars
  <2>4. CASE q[1] = END
    <3>1. /\ Len(q) = 1
          /\ error => pulled = got + Len(q) - 1
          /\ ~error /\ ~cancelled => pulled = got + Len(q) - 1 /\ pulled = NumPages
      BY <2>1, <2>2, <2>4 DEF IInv, QueueOrder, EndAccounted
    <3>2. got' = got /\ cpc' = IF error THEN "raised" ELSE "ended"
      BY <1>3, <2>2, <2>4 DEF Get
    <3>3. CASE error
      <4>1. StreamFault # 0 /\ StreamFault = got + 1 /\ StreamStatus' = "failed"
        BY <3>1, <3>2, <3>3 DEF IInv, TypeOK, StreamFault, StreamStatus
      <4> QED
        BY <2>1, <2>3, <3>2, <4>1 DEF Stream!Next, Stream!Raise
    <3>4. CASE ~error
      <4>1. StreamFault = 0 /\ (got = NumPages \/ cancelled) /\ StreamStatus' = "ended"
        BY <3>1, <3>2, <3>4 DEF IInv, TypeOK, StreamFault, StreamStatus
      <4> QED
        BY <2>1, <2>3, <3>2, <4>1 DEF Stream!Next, Stream!End
    <3> QED
      BY <3>3, <3>4
  <2>5. CASE q[1] # END
    <3>1. q[1] = got + 1 /\ q[1] <= pulled
      BY <2>1, <2>2, <2>5 DEF IInv, QueueOrder, PulledFirst
    <3>2. got' = got + 1 /\ cpc' = "app" /\ StreamStatus' = "open"
      BY <1>3, <2>2, <2>5, <3>1 DEF Get, StreamStatus
    <3>3. got < NumPages /\ (StreamFault # 0 => got + 1 < StreamFault)
      BY <2>2, <3>1, PrefetchAssumption DEF IInv, TypeOK, StreamFault
    <3> QED
      BY <2>1, <2>3, <3>2, <3>3 DEF Stream!Next, Stream!Deliver
  <2> QED
    BY <2>4, <2>5
<1>4. CASE Exit \/ Interrupt
  <2>1. UNCHANGED <<got, StreamFault, cancelled>> /\ StreamStatus # "closed" /\ StreamStatus' = "closed"
    BY <1>4 DEF Exit, Interrupt, StreamFault, StreamStatus, workerVars
  <2> QED
    BY <2>1 DEF Stream!Next, Stream!Close
<1>5. CASE Ask \/ Drain \/ Join \/ InterruptTeardown \/ Finished \/ UNCHANGED vars
  <2>1. Same
    BY <1>5 DEF Ask, Drain, Join, InterruptTeardown, Finished, vars,
       StreamFault, StreamStatus, flags, workerVars, consumerVars
  <2> QED
    BY <1>0, <2>1
<1>6. CASE Cancel
  <2>1. ~cancelled /\ cancelled' /\ UNCHANGED <<got, StreamFault, StreamStatus>>
    BY <1>6 DEF Cancel, StreamFault, StreamStatus, workerVars, consumerVars
  <2>2. cancelled' = TRUE
    BY <1>6 DEF Cancel
  <2> QED
    BY <2>1, <2>2 DEF Stream!Next, Stream!Cancel
<1> QED
  BY <1>1, <1>2, <1>3, <1>4, <1>5, <1>6 DEF Next, Worker

\* What the threads of prefetch deliver is the stream PageStream promises, for
\* every source, capacity and pattern of cancels and interrupts.
THEOREM PrefetchImplementsStream == SafeSpec => StreamSpec
<1> QED
  BY StreamInit, StreamStep, Invariance, PTL DEF SafeSpec, StreamSpec, Stream!Spec

=============================================================================
