---------------------------- MODULE StatusProber ----------------------------
(***************************************************************************)
(* The status prober (knative.dev/networking/pkg/status/status.go) as this *)
(* controller uses it: IsReady is called by the reconciler, workers probe  *)
(* every (pod, URL) pair, and a goroutine per pod waits for cancellation.  *)
(* Steps are what the code does atomically: a critical section of mu, one  *)
(* atomic operation on a pendingCount, one probe.  Probe targets come from *)
(* ListProbeTargets (pkg/reconciler/ingress/lister.go).  CancelPodProbing  *)
(* and CancelIngressProbing exist but NewController connects neither.      *)
(***************************************************************************)
EXTENDS Integers, FiniteSets

CONSTANTS
  Keys,       \* Ingress keys
  Hashes,     \* hashes of Ingress versions
  IPs,        \* gateway pods
  URLs,       \* URLs (with their port) that getIngressUrls derives from the rules
  None,
  MaxStates,  \* bound on the ingressState objects ever allocated
  MaxLost     \* bound on the pods that disappear

ASSUME BoundsAssumption == MaxStates \in Nat /\ MaxLost \in Nat

\* ListProbeTargets and getIngressUrls return finite lists.
ASSUME FiniteAssumption == IsFiniteSet(IPs) /\ IsFiniteSet(URLs)

Ids == 1 .. MaxStates
Targets == IPs \X URLs

VARIABLES
  ingressStates,  \* ingressStates[k]: None or the id of an ingressState
  state,          \* state[id]: the ingressState: key, hash, pods, pendingCount, cancelled
  podPending,     \* podPending[id][ip]: podState.pendingCount
  podDone,        \* podDone[id][ip]: podState.cancel was called
  watcher,        \* watcher[id][ip]: the goroutine blocked on podCtx.Done()
  loaded,         \* loaded[id][ip]: the count it loaded
  item,           \* item[id][t]: the work item of target t
  call,           \* call[k]: the IsReady call for k under way
  result,         \* result[k]: what the last IsReady call for k returned
  notified,       \* notified[k]: k was enqueued since that call began
  called,         \* called[id]: readyCallback calls for the ingressState
  lost            \* pods that have disappeared

vars == <<ingressStates, state, podPending, podDone, watcher, loaded, item,
          call, result, notified, called, lost>>

NoCall == [pc |-> "idle", hash |-> None, id |-> None, todo |-> {}]

Init ==
  /\ ingressStates = [k \in Keys |-> None]
  /\ state = [id \in Ids |-> None]
  /\ podPending = [id \in Ids |-> [ip \in IPs |-> 0]]
  /\ podDone = [id \in Ids |-> [ip \in IPs |-> FALSE]]
  /\ watcher = [id \in Ids |-> [ip \in IPs |-> "none"]]
  /\ loaded = [id \in Ids |-> [ip \in IPs |-> 0]]
  /\ item = [id \in Ids |-> [t \in Targets |-> "none"]]
  /\ call = [k \in Keys |-> NoCall]
  /\ result = [k \in Keys |-> FALSE]
  /\ notified = [k \in Keys |-> FALSE]
  /\ called = [id \in Ids |-> 0]
  /\ lost = {}

-----------------------------------------------------------------------------
(* IsReady. *)

\* Fault: the outdated state is cancelled but stays in the map.
LookupWithoutDelete(k, h) ==
  LET id == ingressStates[k]
      hit == id # None /\ state[id].hash = h
  IN
  /\ call[k].pc = "idle"
  /\ notified' = [notified EXCEPT ![k] = FALSE]
  /\ IF hit
       THEN /\ result' = [result EXCEPT ![k] = state[id].pendingCount = 0]
            /\ UNCHANGED <<state, call>>
       ELSE /\ call' = [call EXCEPT ![k] = [NoCall EXCEPT !.pc = "list", !.hash = h]]
            /\ state' = IF id = None THEN state
                        ELSE [state EXCEPT ![id].cancelled = TRUE]
            /\ UNCHANGED result
  /\ UNCHANGED <<ingressStates, podPending, podDone, watcher, loaded, item, called, lost>>

\* The first critical section: a known hash is answered from its state, an
\* outdated one is cancelled and forgotten.
Lookup(k, h) ==
  LET id == ingressStates[k]
      hit == id # None /\ state[id].hash = h
  IN
  /\ call[k].pc = "idle"
  /\ notified' = [notified EXCEPT ![k] = FALSE]
  /\ IF hit
       THEN /\ result' = [result EXCEPT ![k] = state[id].pendingCount = 0]
            /\ UNCHANGED <<ingressStates, state, call>>
       ELSE /\ call' = [call EXCEPT ![k] = [NoCall EXCEPT !.pc = "list", !.hash = h]]
            /\ ingressStates' = [ingressStates EXCEPT ![k] = None]
            /\ state' = IF id = None THEN state
                        ELSE [state EXCEPT ![id].cancelled = TRUE]
            /\ UNCHANGED result
  /\ UNCHANGED <<podPending, podDone, watcher, loaded, item, called, lost>>

\* Fault: the new state is in the map although its targets are unknown.
ListFailsPublished(k) ==
  /\ call[k].pc = "list"
  /\ \E id \in Ids : /\ state[id] = None
                    /\ ingressStates' = [ingressStates EXCEPT ![k] = id]
  /\ call' = [call EXCEPT ![k] = NoCall]
  /\ UNCHANGED <<state, podPending, podDone, watcher, loaded, item, result, notified,
                 called, lost>>

\* No endpoints or no ready address: the error sends the key back to the queue.
ListFails(k) ==
  /\ call[k].pc = "list"
  /\ call' = [call EXCEPT ![k] = NoCall]
  /\ result' = [result EXCEPT ![k] = FALSE]
  /\ notified' = [notified EXCEPT ![k] = TRUE]
  /\ UNCHANGED <<ingressStates, state, podPending, podDone, watcher, loaded, item,
                 called, lost>>

\* Each target of ips gets a work item; pods are counted before any is probed.
\* With no URL there is nothing to probe, and no pod is counted.
ListProbeTargets(k, id, ips) ==
  LET pods == IF URLs = {} THEN {} ELSE ips IN
  /\ call[k].pc = "list"
  /\ state[id] = None
  /\ \A j \in Ids : state[j] = None => id <= j
  /\ ips # {}
  /\ state' = [state EXCEPT ![id] =
       [key |-> k, hash |-> call[k].hash, pods |-> pods,
        pendingCount |-> Cardinality(pods), cancelled |-> FALSE]]
  /\ call' = [call EXCEPT ![k] = [@ EXCEPT !.pc = "queue", !.id = id, !.todo = pods]]
  /\ UNCHANGED <<ingressStates, podPending, podDone, watcher, loaded, item, result,
                 notified, called, lost>>

\* One iteration over workItems: podState, its goroutine, its items.
QueueItems(k, ip) ==
  LET id == call[k].id IN
  /\ call[k].pc = "queue"
  /\ ip \in call[k].todo
  /\ call' = [call EXCEPT ![k].todo = @ \ {ip}]
  /\ podPending' = [podPending EXCEPT ![id][ip] = Cardinality(URLs)]
  /\ watcher' = [watcher EXCEPT ![id][ip] = "waiting"]
  /\ item' = [item EXCEPT ![id] =
       [t \in Targets |-> IF t[1] = ip THEN "pending" ELSE @[t]]]
  /\ UNCHANGED <<ingressStates, state, podDone, loaded, result, notified, called, lost>>

\* The last critical section.
Publish(k) ==
  LET id == call[k].id IN
  /\ call[k].pc = "queue"
  /\ call[k].todo = {}
  /\ ingressStates' = [ingressStates EXCEPT ![k] = id]
  /\ result' = [result EXCEPT ![k] = state[id].pods = {}]
  /\ call' = [call EXCEPT ![k] = NoCall]
  /\ UNCHANGED <<state, podPending, podDone, watcher, loaded, item, notified, called, lost>>

-----------------------------------------------------------------------------
(* processWorkItem and onProbingSuccess, per work item. *)

PodCtxDone(id, ip) == podDone[id][ip] \/ state[id].cancelled

SetItem(id, t, pc) == item' = [item EXCEPT ![id][t] = pc]

\* A pending item is in the queue, backs off, or is being probed.  A failed
\* probe (mismatched hash, 404, 503, no connection) queues it again, so it is
\* pending still; an accepted one goes on to the counters.  The context is
\* looked at once, after the answer and before the counters are touched.
ProbeAccepted(id, t) ==
  /\ item[id][t] = "pending"
  /\ ~PodCtxDone(id, t[1])
  /\ t[1] \notin lost
  /\ SetItem(id, t, "accepted")
  /\ UNCHANGED <<ingressStates, state, podPending, podDone, watcher, loaded, call,
                 result, notified, called, lost>>

\* A cancelled item is dropped whatever the answer.
ProbeDropped(id, t) ==
  /\ item[id][t] = "pending"
  /\ PodCtxDone(id, t[1])
  /\ SetItem(id, t, "dropped")
  /\ UNCHANGED <<ingressStates, state, podPending, podDone, watcher, loaded, call,
                 result, notified, called, lost>>

\* Fault: the first accepted URL makes the pod ready.
PodDecFirst(id, t) ==
  /\ item[id][t] = "accepted"
  /\ podPending' = [podPending EXCEPT ![id][t[1]] = 0]
  /\ podDone' = [podDone EXCEPT ![id][t[1]] = TRUE]
  /\ SetItem(id, t, IF podPending[id][t[1]] > 0 THEN "dec" ELSE "done")
  /\ UNCHANGED <<ingressStates, state, watcher, loaded, call, result,
                 notified, called, lost>>

\* Fault: the pod is ready one probe too late, that is never.
PodDecLate(id, t) ==
  LET n == podPending[id][t[1]] - 1 IN
  /\ item[id][t] = "accepted"
  /\ podPending' = [podPending EXCEPT ![id][t[1]] = n]
  /\ SetItem(id, t, IF n = -1 THEN "dec" ELSE "done")
  /\ UNCHANGED <<ingressStates, state, podDone, watcher, loaded, call, result,
                 notified, called, lost>>

\* podState.pendingCount.Dec() == 0, and if so podState.cancel(): the cancel
\* only wakes the pod's goroutine, which then finds nothing left to do.
PodDec(id, t) ==
  LET n == podPending[id][t[1]] - 1 IN
  /\ item[id][t] = "accepted"
  /\ podPending' = [podPending EXCEPT ![id][t[1]] = n]
  /\ podDone' = IF n = 0 THEN [podDone EXCEPT ![id][t[1]] = TRUE] ELSE podDone
  /\ SetItem(id, t, IF n = 0 THEN "dec" ELSE "done")
  /\ UNCHANGED <<ingressStates, state, watcher, loaded, call, result,
                 notified, called, lost>>

\* ingressState.pendingCount.Dec() == 0
DecPending(id) == state' = [state EXCEPT ![id].pendingCount = @ - 1]

\* Fault: the count is compared as it was before the decrement.
AfterDecOffByOne(id) == IF state[id].pendingCount <= 2 THEN "call" ELSE "counted"

AfterDec(id) == IF state[id].pendingCount = 1 THEN "call" ELSE "counted"

IngressDec(id, t) ==
  /\ item[id][t] = "dec"
  /\ DecPending(id)
  /\ SetItem(id, t, AfterDec(id))
  /\ UNCHANGED <<ingressStates, podPending, podDone, watcher, loaded, call, result,
                 notified, called, lost>>

\* Fault: a state that is not (yet) in the map calls nobody.
CallbackIfPublished(id) ==
  /\ called' = [called EXCEPT ![id] = @ + 1]
  /\ notified' = IF ingressStates[state[id].key] = id
                   THEN [notified EXCEPT ![state[id].key] = TRUE] ELSE notified

\* readyCallback: EnqueueKey of the ingress's key.
ReadyCallback(id) ==
  /\ called' = [called EXCEPT ![id] = @ + 1]
  /\ notified' = [notified EXCEPT ![state[id].key] = TRUE]

ItemCallback(id, t) ==
  /\ item[id][t] = "call"
  /\ ReadyCallback(id)
  /\ SetItem(id, t, "counted")
  /\ UNCHANGED <<ingressStates, state, podPending, podDone, watcher, loaded, call,
                 result, lost>>

-----------------------------------------------------------------------------
(* onProbingCancellation, in the goroutine of a pod. *)

SetWatcher(id, ip, pc) == watcher' = [watcher EXCEPT ![id][ip] = pc]

WatcherLoad(id, ip) ==
  LET n == podPending[id][ip] IN
  /\ watcher[id][ip] = "waiting"
  /\ PodCtxDone(id, ip)
  /\ loaded' = [loaded EXCEPT ![id][ip] = IF n <= 0 THEN 0 ELSE n]
  /\ SetWatcher(id, ip, IF n <= 0 THEN "gone" ELSE "loaded")
  /\ UNCHANGED <<ingressStates, state, podPending, podDone, item, call, result,
                 notified, called, lost>>

\* Fault: the count is set to 0 whatever was loaded.
StoreZero(id, ip) ==
  /\ watcher[id][ip] = "loaded"
  /\ loaded' = [loaded EXCEPT ![id][ip] = 0]
  /\ podPending' = [podPending EXCEPT ![id][ip] = 0]
  /\ SetWatcher(id, ip, "dec")
  /\ UNCHANGED <<ingressStates, state, podDone, item, call, result,
                 notified, called, lost>>

WatcherCAS(id, ip) ==
  /\ watcher[id][ip] = "loaded"
  /\ loaded' = [loaded EXCEPT ![id][ip] = 0]
  /\ IF podPending[id][ip] = loaded[id][ip]
       THEN /\ podPending' = [podPending EXCEPT ![id][ip] = 0]
            /\ SetWatcher(id, ip, "dec")
       ELSE /\ SetWatcher(id, ip, "waiting")
            /\ UNCHANGED podPending
  /\ UNCHANGED <<ingressStates, state, podDone, item, call, result,
                 notified, called, lost>>

WatcherDec(id, ip) ==
  /\ watcher[id][ip] = "dec"
  /\ DecPending(id)
  /\ SetWatcher(id, ip, AfterDec(id))
  /\ UNCHANGED <<ingressStates, podPending, podDone, loaded, item, call, result,
                 notified, called, lost>>

WatcherCallback(id, ip) ==
  /\ watcher[id][ip] = "call"
  /\ ReadyCallback(id)
  /\ SetWatcher(id, ip, "counted")
  /\ UNCHANGED <<ingressStates, state, podPending, podDone, loaded, item, call,
                 result, lost>>

-----------------------------------------------------------------------------
\* A gateway pod goes away while its items are in the queue.
PodDisappears(ip) ==
  /\ Cardinality(lost) < MaxLost
  /\ lost' = lost \cup {ip}
  /\ UNCHANGED <<ingressStates, state, podPending, podDone, watcher, loaded, item,
                 call, result, notified, called>>

CallStep(k) ==
  \/ ListFails(k)
  \/ \E id \in Ids, ips \in SUBSET (IPs \ lost) : ListProbeTargets(k, id, ips)
  \/ \E ip \in IPs : QueueItems(k, ip)
  \/ Publish(k)

ItemStep(id, t) ==
  \/ ProbeAccepted(id, t) \/ ProbeDropped(id, t)
  \/ PodDec(id, t) \/ IngressDec(id, t) \/ ItemCallback(id, t)

WatcherStep(id, ip) ==
  \/ WatcherLoad(id, ip) \/ WatcherCAS(id, ip)
  \/ WatcherDec(id, ip) \/ WatcherCallback(id, ip)

Next ==
  \/ \E k \in Keys : (\E h \in Hashes : Lookup(k, h)) \/ CallStep(k)
  \/ \E id \in Ids : \/ \E t \in Targets : ItemStep(id, t)
                     \/ \E ip \in IPs : WatcherStep(id, ip)
  \/ \E ip \in IPs : PodDisappears(ip)

Spec == Init /\ [][Next]_vars

-----------------------------------------------------------------------------
(* Fairness: the goroutines run, and a pod that stays eventually serves    *)
(* what was configured, so that a target probed again and again (the       *)
(* back-off is capped at 30 s) is eventually accepted.                     *)

Fairness ==
  /\ \A k \in Keys : WF_vars(CallStep(k))
  /\ \A id \in Ids :
       /\ \A t \in Targets : WF_vars(ItemStep(id, t))
       /\ \A ip \in IPs : WF_vars(WatcherStep(id, ip))

FairSpec == Spec /\ Fairness

-----------------------------------------------------------------------------
(* Properties. *)

Allocated == {id \in Ids : state[id] # None}

ItemStates == {"none", "pending", "dropped", "accepted", "dec",
               "call", "done", "counted"}
WatcherStates == {"none", "waiting", "loaded", "gone", "dec", "call", "counted"}

IngressStates == [key : Keys, hash : Hashes, pods : SUBSET IPs, pendingCount : Int,
                  cancelled : BOOLEAN]

\* None is neither an ingressState nor a pointer to one, nor a view of one.
ASSUME NoneAssumption ==
  /\ None \notin Ids
  /\ None \notin IngressStates
  /\ None \notin [hash : Hashes, missing : SUBSET Targets, ready : BOOLEAN]

\* The prober's maps, counters and goroutines keep their types; only an
\* allocated ingressState is published, worked on or called back for.
TypeOK ==
  /\ ingressStates \in [Keys -> {None} \cup Ids]
  /\ state \in [Ids -> {None} \cup IngressStates]
  /\ podPending \in [Ids -> [IPs -> Int]]
  /\ podDone \in [Ids -> [IPs -> BOOLEAN]]
  /\ watcher \in [Ids -> [IPs -> WatcherStates]]
  /\ loaded \in [Ids -> [IPs -> Int]]
  /\ item \in [Ids -> [Targets -> ItemStates]]
  /\ call \in [Keys -> {NoCall} \cup
                [pc : {"list"}, hash : Hashes, id : {None}, todo : {{}}] \cup
                [pc : {"queue"}, hash : Hashes, id : Ids, todo : SUBSET IPs]]
  /\ result \in [Keys -> BOOLEAN]
  /\ notified \in [Keys -> BOOLEAN]
  /\ called \in [Ids -> Nat]
  /\ lost \in SUBSET IPs
  /\ \A k \in Keys : ingressStates[k] # None => ingressStates[k] \in Allocated
  /\ \A k \in Keys : call[k].pc = "queue" => call[k].id \in Allocated
  /\ \A id \in Ids \ Allocated :
       /\ \A t \in Targets : item[id][t] = "none"
       /\ \A ip \in IPs : watcher[id][ip] = "none"

\* The pod has been subtracted from the ingressState's pendingCount.
Accounted(id, ip) ==
  \/ watcher[id][ip] \in {"call", "counted"}
  \/ \E u \in URLs : item[id][<<ip, u>>] \in {"call", "counted"}

\* "pendingCount is the number of pods that haven't been successfully probed
\* yet": however the last probes of a pod and its cancellation race, each pod
\* is subtracted from the ingressState's count exactly once.
PendingCountsPods ==
  \A id \in Allocated :
    state[id].pendingCount =
      Cardinality({ip \in state[id].pods : ~Accounted(id, ip)})

Callers(id) ==
  {ip \in IPs : watcher[id][ip] = "call"} \cup
  {t \in Targets : item[id][t] = "call"}

\* An ingressState calls the reconciler back at most once.
CallbackOnce == \A id \in Ids : called[id] + Cardinality(Callers(id)) <= 1

AcceptedStates == {"accepted", "dec", "call", "done", "counted"}

Missing(id) ==
  {t \in Targets : t[1] \in state[id].pods /\ item[id][t] \notin AcceptedStates}

\* When IsReady answers true for the published state, every URL on every pod
\* listed for that hash has been probed and accepted: a cancelled or dropped
\* probe, which also counts its pod down, never makes a published state ready.
ReadyMeansAllAccepted ==
  \A k \in Keys :
    LET id == ingressStates[k] IN
      id # None /\ state[id].pendingCount = 0 => Missing(id) = {}

\* The reconciler always learns of readiness: if probing finished after IsReady
\* answered false, even before the state was published, the key has been
\* enqueued since that call began or a goroutine is about to enqueue it.
NoLostWakeup ==
  \A k \in Keys :
    LET id == ingressStates[k] IN
      call[k].pc = "idle" /\ id # None /\ state[id].pendingCount = 0
        => result[k] \/ notified[k] \/ Callers(id) # {}

ContractView ==
  [k \in Keys |->
     IF ingressStates[k] = None THEN None
     ELSE [hash    |-> state[ingressStates[k]].hash,
           missing |-> Missing(ingressStates[k]),
           ready   |-> state[ingressStates[k]].pendingCount = 0]]

Contract == INSTANCE ProbeContract WITH probing <- ContractView

\* The counters, goroutines and locks implement the contract the reconciler
\* relies on: ready only after every target was accepted, and for good.
ImplementsContract == Contract!Spec

\* "it is better to say that an Ingress is Ready before it actually is Ready
\* than never marking it as Ready" (probeVerifier): probing of a published
\* state comes to an end, or another version takes its place.
ProbingEnds ==
  \A k \in Keys : \A id \in Ids :
    ingressStates[k] = id
      ~> (ingressStates[k] # id \/ state[id].pendingCount = 0)

=============================================================================
