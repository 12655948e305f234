-------------------------- MODULE WorkQueueProofs --------------------------
(***************************************************************************)
(* The operations of the work queue keep its type and its discipline.      *)
(***************************************************************************)
EXTENDS WorkQueue, TLAPS

QueueRecords(Items) ==
  [queue : Seq(Items), dirty : SUBSET Items, processing : SUBSET Items,
   waiting : SUBSET Items]

\* A new queue satisfies both.
LEMMA EmptyQueueOK ==
  ASSUME NEW Items
  PROVE  EmptyQueue \in QueueRecords(Items) /\ QueueOK(EmptyQueue)
BY DEF EmptyQueue, QueueRecords, QueueOK

\* Type.Add never queues an item twice, nor one that is being processed.
LEMMA AddOK ==
  ASSUME NEW Items, NEW q \in QueueRecords(Items), NEW item \in Items
  PROVE  /\ Add(q, item) \in QueueRecords(Items)
         /\ Add(q, item).processing = q.processing
         /\ QueueOK(q) => QueueOK(Add(q, item))
<1>1. CASE item \in q.dirty
  BY <1>1 DEF Add
<1>2. CASE item \notin q.dirty /\ item \in q.processing
  BY <1>2 DEF Add, QueueRecords, QueueOK
<1>3. CASE item \notin q.dirty /\ item \notin q.processing
  <2> DEFINE r == [q EXCEPT !.dirty = @ \cup {item}, !.queue = Append(@, item)]
  <2>1. Add(q, item) = r
    BY <1>3 DEF Add
  <2>2. /\ r \in QueueRecords(Items)
        /\ r.processing = q.processing
        /\ r.dirty = q.dirty \cup {item}
        /\ r.queue = Append(q.queue, item)
    <3>1. Append(q.queue, item) \in Seq(Items) /\ q.dirty \cup {item} \in SUBSET Items
      BY DEF QueueRecords
    <3>2. r = [queue |-> Append(q.queue, item), dirty |-> q.dirty \cup {item},
               processing |-> q.processing, waiting |-> q.waiting]
      <4> DEFINE a == Append(q.queue, item)
                 d == q.dirty \cup {item}
      <4>1. r = [q EXCEPT !.dirty = d, !.queue = a]
        OBVIOUS
      <4> HIDE DEF a, d, r
      <4>2. r = [queue |-> a, dirty |-> d, processing |-> q.processing, waiting |-> q.waiting]
        BY <4>1 DEF QueueRecords
      <4> QED BY <4>2 DEF a, d
    <3> HIDE DEF r
    <3> QED BY <3>1, <3>2 DEF QueueRecords
  <2>3. ASSUME QueueOK(q) PROVE QueueOK(r)
    <3> q.queue \in Seq(Items)
      BY DEF QueueRecords
    <3> HIDE DEF r
    <3> QED BY <1>3, <2>2, <2>3 DEF QueueOK
  <2> QED BY <2>1, <2>2, <2>3
<1> QED BY <1>1, <1>2, <1>3

\* Waiting in a lane or for a timer changes nothing else.
LEMMA EnqueueOK ==
  ASSUME NEW Items, NEW q \in QueueRecords(Items), NEW items \in SUBSET Items
  PROVE  /\ Enqueue(q, items) \in QueueRecords(Items)
         /\ Enqueue(q, items).processing = q.processing
         /\ QueueOK(q) => QueueOK(Enqueue(q, items))
BY DEF Enqueue, QueueRecords, QueueOK

\* What leaves its lane is added to the consumer queue.
LEMMA ConsumerAddOK ==
  ASSUME NEW Items, NEW q \in QueueRecords(Items), NEW item \in Items
  PROVE  /\ ConsumerAdd(q, item) \in QueueRecords(Items)
         /\ ConsumerAdd(q, item).processing = q.processing
         /\ QueueOK(q) => QueueOK(ConsumerAdd(q, item))
<1> DEFINE r == [q EXCEPT !.waiting = @ \ {item}]
<1>1. r \in QueueRecords(Items) /\ r.processing = q.processing
  BY DEF QueueRecords
<1>2. QueueOK(q) => QueueOK(r)
  BY DEF QueueRecords, QueueOK
<1>3. ConsumerAdd(q, item) = Add(r, item)
  BY DEF ConsumerAdd
<1> HIDE DEF r
<1> QED BY <1>1, <1>2, <1>3, AddOK

\* Type.Get hands out an item nobody is processing.
LEMMA GetOK ==
  ASSUME NEW Items, NEW q \in QueueRecords(Items), CanGet(q)
  PROVE  /\ Head(q.queue) \in Items
         /\ Get(q) \in QueueRecords(Items)
         /\ Get(q).processing = q.processing \cup {Head(q.queue)}
         /\ QueueOK(q) => QueueOK(Get(q)) /\ Head(q.queue) \notin q.processing
<1> DEFINE h == Head(q.queue)
           r == [q EXCEPT !.queue = Tail(@), !.processing = @ \cup {h},
                          !.dirty = @ \ {h}]
<1>1. q.queue \in Seq(Items) /\ q.queue # << >> /\ Len(q.queue) > 0
  BY DEF QueueRecords, CanGet
<1>2. h \in Items /\ h = q.queue[1] /\ Tail(q.queue) \in Seq(Items)
  BY <1>1
<1>3. /\ r \in QueueRecords(Items)
      /\ r.processing = q.processing \cup {h}
      /\ r.dirty = q.dirty \ {h}
      /\ r.queue = Tail(q.queue)
  BY <1>2 DEF QueueRecords
<1>4. Get(q) = r
  BY DEF Get
<1>5. ASSUME QueueOK(q) PROVE QueueOK(r) /\ h \notin q.processing
  <2> HIDE DEF r, h
  <2>1. /\ Len(r.queue) = Len(q.queue) - 1
        /\ \A i \in 1 .. Len(r.queue) : r.queue[i] = q.queue[i + 1]
    BY <1>1, <1>3
  <2>2. \A i \in 1 .. Len(r.queue) : i + 1 \in 1 .. Len(q.queue) /\ 1 \in 1 .. Len(q.queue)
    BY <1>1, <2>1
  <2>3. \A i \in 1 .. Len(r.queue) : r.queue[i] # h
    BY <1>2, <1>5, <2>1, <2>2 DEF QueueOK
  <2>4. \A i \in 1 .. Len(r.queue) : r.queue[i] \in r.dirty /\ r.queue[i] \notin r.processing
    BY <1>3, <1>5, <2>1, <2>2, <2>3 DEF QueueOK
  <2>5. ASSUME NEW i \in 1 .. Len(r.queue), NEW j \in 1 .. Len(r.queue),
               r.queue[i] = r.queue[j]
        PROVE  i = j
    <3>1. i + 1 = j + 1
      BY <1>5, <2>1, <2>2, <2>5 DEF QueueOK
    <3> QED BY <3>1
  <2>6. h \notin q.processing
    BY <1>1, <1>2, <1>5 DEF QueueOK
  <2> QED BY <2>4, <2>5, <2>6 DEF QueueOK
<1> HIDE DEF r
<1> QED BY <1>2, <1>3, <1>4, <1>5

\* Type.Done queues the item again if and only if it became dirty meanwhile.
LEMMA DoneOK ==
  ASSUME NEW Items, NEW q \in QueueRecords(Items), NEW item \in Items
  PROVE  /\ Done(q, item) \in QueueRecords(Items)
         /\ Done(q, item).processing = q.processing \ {item}
         /\ QueueOK(q) /\ item \in q.processing => QueueOK(Done(q, item))
<1> DEFINE s == IF item \in q.dirty THEN Append(q.queue, item) ELSE q.queue
           r == [q EXCEPT !.processing = @ \ {item}, !.queue = s]
<1>1. q.queue \in Seq(Items) /\ s \in Seq(Items)
  BY DEF QueueRecords
<1>2. Done(q, item) = r
  BY DEF Done
<1>3. /\ r \in QueueRecords(Items)
      /\ r.processing = q.processing \ {item}
      /\ r.dirty = q.dirty
      /\ r.queue = s
  BY <1>1 DEF QueueRecords
<1>4. ASSUME QueueOK(q), item \in q.processing PROVE QueueOK(r)
  <2> HIDE DEF r
  <2>1. CASE item \in q.dirty
    BY <1>1, <1>3, <1>4, <2>1 DEF QueueOK
  <2>2. CASE item \notin q.dirty
    BY <1>1, <1>3, <1>4, <2>2 DEF QueueOK
  <2> QED BY <2>1, <2>2
<1> HIDE DEF r
<1> QED BY <1>2, <1>3, <1>4

=============================================================================
