----------------------------- MODULE WorkQueue -----------------------------
(***************************************************************************)
(* The controller's work queue as a value (client-go workqueue/queue.go    *)
(* behind knative.dev/pkg/controller two_lane_queue.go).  `waiting` holds  *)
(* the keys that wait in the fast or the slow lane or for a rate-limiting  *)
(* timer, and that reach the consumer queue in an order nothing fixes; the *)
(* other three fields are those of the consumer queue, a workqueue.Type.   *)
(***************************************************************************)
EXTENDS Naturals, Sequences

EmptyQueue == [queue |-> << >>, dirty |-> {}, processing |-> {}, waiting |-> {}]

\* Fault: an item that is being processed is queued all the same.
AddWhileProcessing(q, item) ==
  IF item \in q.dirty THEN q
  ELSE [q EXCEPT !.dirty = @ \cup {item}, !.queue = Append(@, item)]

Add(q, item) ==
  IF item \in q.dirty THEN q
  ELSE IF item \in q.processing THEN [q EXCEPT !.dirty = @ \cup {item}]
  ELSE [q EXCEPT !.dirty = @ \cup {item}, !.queue = Append(@, item)]

\* Adding to a lane, now or by AddRateLimited: the consumer adds it in time.
Enqueue(q, items) == [q EXCEPT !.waiting = @ \cup items]

ConsumerAdd(q, item) == Add([q EXCEPT !.waiting = @ \ {item}], item)

CanGet(q) == q.queue # << >>

Get(q) ==
  LET item == Head(q.queue)
  IN  [q EXCEPT !.queue = Tail(@),
                !.processing = @ \cup {item},
                !.dirty = @ \ {item}]

Done(q, item) ==
  [q EXCEPT !.processing = @ \ {item},
            !.queue = IF item \in q.dirty THEN Append(@, item) ELSE @]

Idle(q) == q.queue = << >> /\ q.dirty = {} /\ q.processing = {} /\ q.waiting = {}

\* The discipline of the queue: what is queued is dirty, is not being
\* processed, and is queued once.
QueueOK(q) ==
  /\ \A i \in 1 .. Len(q.queue) :
       q.queue[i] \in q.dirty /\ q.queue[i] \notin q.processing
  /\ \A i, j \in 1 .. Len(q.queue) : q.queue[i] = q.queue[j] => i = j

=============================================================================
