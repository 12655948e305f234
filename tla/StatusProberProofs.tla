------------------------- MODULE StatusProberProofs -------------------------
(***************************************************************************)
(* Proofs about StatusProber, for any Ingresses, hashes, pods and URLs and *)
(* any number of ingressStates and lost pods.                              *)
(***************************************************************************)
EXTENDS StatusProber, FiniteSetTheorems, TLAPS

ListCalls == [pc : {"list"}, hash : Hashes, id : {None}, todo : {{}}]
QueueCalls == [pc : {"queue"}, hash : Hashes, id : Ids, todo : SUBSET IPs]
Calls == {NoCall} \cup ListCalls \cup QueueCalls

-----------------------------------------------------------------------------
(* Types. *)

\* What a call of IsReady is, by its program counter.
LEMMA CallKinds ==
  ASSUME NEW c \in Calls
  PROVE  /\ c.pc \in {"idle", "list", "queue"}
         /\ c.pc = "idle" => c = NoCall
         /\ c.pc = "list" => c \in ListCalls
         /\ c.pc = "queue" => c \in QueueCalls
BY DEF Calls, NoCall, ListCalls, QueueCalls

\* The initial state has the types.
LEMMA InitType == Init => TypeOK
<1> SUFFICES ASSUME Init PROVE TypeOK
  OBVIOUS
<1>1. /\ \A k \in Keys : ingressStates[k] = None /\ call[k] = NoCall /\ call[k].pc = "idle"
      /\ \A id \in Ids : state[id] = None
  BY DEF Init, NoCall
<1> QED
  BY <1>1 DEF Init, TypeOK, WatcherStates, ItemStates, Allocated

\* Lookup keeps the types.
LEMMA LookupType ==
  ASSUME TypeOK, NEW k \in Keys, NEW h \in Hashes, Lookup(k, h)
  PROVE  TypeOK'
<1> DEFINE id == ingressStates[k]
<1>1. CASE id # None /\ state[id].hash = h
  <2>1. /\ notified' = [notified EXCEPT ![k] = FALSE]
        /\ result' = [result EXCEPT ![k] = state[id].pendingCount = 0]
        /\ UNCHANGED <<ingressStates, state, call, podPending, podDone, watcher, loaded, item, called, lost>>
    BY <1>1 DEF Lookup
  <2> QED
    BY <2>1 DEF TypeOK, Allocated
<1>2. CASE ~(id # None /\ state[id].hash = h)
  <2> DEFINE c == [NoCall EXCEPT !.pc = "list", !.hash = h]
  <2>1. /\ notified' = [notified EXCEPT ![k] = FALSE]
        /\ call' = [call EXCEPT ![k] = c]
        /\ ingressStates' = [ingressStates EXCEPT ![k] = None]
        /\ state' = IF id = None THEN state ELSE [state EXCEPT ![id].cancelled = TRUE]
        /\ UNCHANGED <<podPending, podDone, watcher, loaded, item, called, lost, result>>
    BY <1>2 DEF Lookup
  <2>2. c \in ListCalls /\ c.pc # "queue"
    BY DEF NoCall, ListCalls
  <2>3. call' \in [Keys -> Calls]
    BY <2>1, <2>2 DEF TypeOK, Calls, ListCalls, QueueCalls
  <2>4. ingressStates' \in [Keys -> {None} \cup Ids]
    BY <2>1 DEF TypeOK
  <2>5. state' \in [Ids -> {None} \cup IngressStates] /\ Allocated' = Allocated
    <3>1. CASE id = None
      BY <2>1, <3>1 DEF TypeOK, Allocated
    <3>2. CASE id # None
      <4>1. id \in Ids /\ state[id] \in IngressStates
        BY <3>2 DEF TypeOK, Allocated
      <4> DEFINE new == [state[id] EXCEPT !.cancelled = TRUE]
      <4>2. new \in IngressStates
        BY <4>1 DEF IngressStates
      <4>3. state' = [state EXCEPT ![id] = new]
        BY <2>1, <3>2
      <4> HIDE DEF new, id
      <4> QED
        BY <4>1, <4>2, <4>3, NoneAssumption DEF TypeOK, Allocated
    <3> QED
      BY <3>1, <3>2
  <2> HIDE DEF c, id
  <2>6. /\ \A j \in Keys : ingressStates'[j] # None => ingressStates'[j] \in Allocated'
        /\ \A j \in Keys : call'[j].pc = "queue" => call'[j].id \in Allocated'
    BY <2>1, <2>2, <2>5 DEF TypeOK
  <2> QED
    BY <2>1, <2>3, <2>4, <2>5, <2>6 DEF TypeOK, Calls, ListCalls, QueueCalls
<1> QED
  BY <1>1, <1>2

\* A call that ends keeps the types.
LEMMA EndCallType ==
  ASSUME TypeOK, NEW k \in Keys, ListFails(k) \/ Publish(k)
  PROVE  TypeOK'
<1>1. call' = [call EXCEPT ![k] = NoCall]
  BY DEF ListFails, Publish
<1>2. NoCall.pc # "queue" /\ call' \in [Keys -> Calls]
  BY <1>1 DEF TypeOK, Calls, ListCalls, QueueCalls, NoCall
<1>3. \A j \in Keys : call'[j].pc = "queue" => call'[j] = call[j]
  BY <1>1, <1>2 DEF TypeOK
<1>4. CASE ListFails(k)
  BY <1>2, <1>3, <1>4 DEF TypeOK, ListFails, Calls, ListCalls, QueueCalls, Allocated
<1>5. CASE Publish(k)
  <2>1. call[k].id \in Allocated /\ call[k].id \in Ids
    BY <1>5 DEF Publish, TypeOK, Allocated
  <2>2. /\ ingressStates' \in [Keys -> {None} \cup Ids]
        /\ \A j \in Keys : ingressStates'[j] # None => ingressStates'[j] \in Allocated
    BY <1>5, <2>1 DEF Publish, TypeOK
  <2>3. result' \in [Keys -> BOOLEAN]
    BY <1>5 DEF Publish, TypeOK
  <2> QED
    BY <1>2, <1>3, <1>5, <2>2, <2>3 DEF TypeOK, Publish, Calls, ListCalls, QueueCalls, Allocated
<1> QED
  BY <1>4, <1>5

\* A new ingressState is typed, and the only one that becomes allocated.
LEMMA NewState ==
  ASSUME TypeOK, NEW k \in Keys, NEW id \in Ids, NEW ips \in SUBSET IPs,
         ListProbeTargets(k, id, ips)
  PROVE  LET pods == IF URLs = {} THEN {} ELSE ips
             new == [key |-> k, hash |-> call[k].hash, pods |-> pods,
                     pendingCount |-> Cardinality(pods), cancelled |-> FALSE]
         IN  /\ new \in IngressStates
             /\ state' = [state EXCEPT ![id] = new]
             /\ state' \in [Ids -> {None} \cup IngressStates]
             /\ Allocated' = Allocated \cup {id}
             /\ id \notin Allocated
<1> DEFINE pods == IF URLs = {} THEN {} ELSE ips
           new == [key |-> k, hash |-> call[k].hash, pods |-> pods,
                   pendingCount |-> Cardinality(pods), cancelled |-> FALSE]
<1>1. pods \in SUBSET IPs /\ Cardinality(pods) \in Int
  <2>1. pods \in SUBSET IPs
    OBVIOUS
  <2>2. IsFiniteSet(pods)
    BY <2>1, FiniteAssumption, FS_Subset
  <2> HIDE DEF pods
  <2> QED
    BY <2>1, <2>2, FS_CardinalityType
<1>2. call[k].hash \in Hashes
  <2>1. call[k] \in Calls /\ call[k].pc = "list"
    BY DEF TypeOK, ListProbeTargets, Calls, ListCalls, QueueCalls
  <2> QED
    BY <2>1, CallKinds DEF ListCalls
<1>3. new \in IngressStates
  <2> HIDE DEF pods
  <2> QED
    BY <1>1, <1>2 DEF IngressStates
<1>4. state' = [state EXCEPT ![id] = new] /\ state[id] = None
  BY DEF ListProbeTargets
<1> HIDE DEF new
<1>5. /\ state' \in [Ids -> {None} \cup IngressStates]
      /\ Allocated' = Allocated \cup {id} /\ id \notin Allocated
  BY <1>3, <1>4, NoneAssumption DEF TypeOK, Allocated
<1> QED
  BY <1>3, <1>4, <1>5 DEF new

\* Listing targets keeps the types.
LEMMA ListProbeTargetsType ==
  ASSUME TypeOK, NEW k \in Keys, NEW id \in Ids, NEW ips \in SUBSET IPs,
         ListProbeTargets(k, id, ips)
  PROVE  TypeOK'
<1> DEFINE pods == IF URLs = {} THEN {} ELSE ips
           c == [call[k] EXCEPT !.pc = "queue", !.id = id, !.todo = pods]
<1>1. state' \in [Ids -> {None} \cup IngressStates]
  BY NewState
<1>2. Allocated' = Allocated \cup {id}
  BY NewState
<1>3. c \in QueueCalls /\ c.id = id
  <2>1. call[k] \in Calls /\ call[k].pc = "list"
    BY DEF TypeOK, ListProbeTargets, Calls, ListCalls, QueueCalls
  <2>2. pods \in SUBSET IPs
    OBVIOUS
  <2> HIDE DEF pods
  <2> QED
    BY <2>1, <2>2, CallKinds DEF ListCalls, QueueCalls
<1>4. call' = [call EXCEPT ![k] = c]
  BY DEF ListProbeTargets
<1> HIDE DEF c
<1>5. /\ call' \in [Keys -> Calls]
      /\ \A j \in Keys : call'[j].pc = "queue" => call'[j].id \in Allocated'
  BY <1>2, <1>3, <1>4 DEF TypeOK, Calls, ListCalls, QueueCalls
<1>6. UNCHANGED <<ingressStates, podPending, podDone, watcher, loaded, item, result,
                 notified, called, lost>>
  BY DEF ListProbeTargets
<1> QED
  BY <1>1, <1>2, <1>5, <1>6 DEF TypeOK, Calls, ListCalls, QueueCalls

\* Queueing the items of a pod keeps the types.
LEMMA QueueItemsType ==
  ASSUME TypeOK, NEW k \in Keys, NEW ip \in IPs, QueueItems(k, ip)
  PROVE  TypeOK'
<1> DEFINE id == call[k].id
           c == [call[k] EXCEPT !.todo = @ \ {ip}]
           f == [t \in Targets |-> IF t[1] = ip THEN "pending" ELSE item[id][t]]
<1>1. id \in Ids /\ id \in Allocated /\ call[k] \in QueueCalls
  BY CallKinds DEF QueueItems, TypeOK, Allocated, Calls, ListCalls, QueueCalls
<1>2. c \in QueueCalls /\ c.id = id
  BY <1>1 DEF QueueCalls
<1>3. call' = [call EXCEPT ![k] = c]
  BY DEF QueueItems, TypeOK
<1>4. Cardinality(URLs) \in Int
  BY FiniteAssumption, FS_CardinalityType
<1>5. f \in [Targets -> ItemStates]
  BY <1>1 DEF TypeOK, ItemStates
<1>6. item' = [item EXCEPT ![id] = f]
  BY <1>1 DEF QueueItems, TypeOK
<1>7. /\ podPending' = [podPending EXCEPT ![id][ip] = Cardinality(URLs)]
      /\ watcher' = [watcher EXCEPT ![id][ip] = "waiting"]
      /\ UNCHANGED <<ingressStates, state, podDone, loaded, result, notified, called, lost>>
  BY DEF QueueItems
<1> HIDE DEF c, f, id
<1>8. item' \in [Ids -> [Targets -> ItemStates]]
  BY <1>1, <1>5, <1>6 DEF TypeOK
<1>9. podPending' \in [Ids -> [IPs -> Int]]
  BY <1>1, <1>4, <1>7 DEF TypeOK
<1>10. watcher' \in [Ids -> [IPs -> WatcherStates]]
  BY <1>1, <1>7 DEF TypeOK, WatcherStates
<1>11. /\ call' \in [Keys -> Calls]
       /\ \A j \in Keys : call'[j].pc = "queue" => call'[j].id \in Allocated
  BY <1>1, <1>2, <1>3 DEF TypeOK, Calls, ListCalls, QueueCalls
<1>12. \A j \in Ids \ Allocated : item'[j] = item[j] /\ watcher'[j] = watcher[j]
  BY <1>1, <1>6, <1>7 DEF TypeOK
<1>13. Allocated' = Allocated
  BY <1>7 DEF Allocated
<1> QED
  BY <1>7, <1>8, <1>9, <1>10, <1>11, <1>12, <1>13 DEF TypeOK, Calls, ListCalls, QueueCalls

\* A work item that moves on belongs to an allocated ingressState.
LEMMA SetItemType ==
  ASSUME TypeOK, NEW id \in Ids, NEW t \in Targets, item[id][t] # "none",
         NEW pc \in ItemStates, SetItem(id, t, pc)
  PROVE  /\ id \in Allocated
         /\ item' \in [Ids -> [Targets -> ItemStates]]
         /\ \A j \in Ids \ Allocated : \A s \in Targets : item'[j][s] = "none"
BY DEF TypeOK, SetItem

\* The goroutine of a pod that moves on belongs to an allocated ingressState.
LEMMA SetWatcherType ==
  ASSUME TypeOK, NEW id \in Ids, NEW ip \in IPs, watcher[id][ip] # "none",
         NEW pc \in WatcherStates, SetWatcher(id, ip, pc)
  PROVE  /\ id \in Allocated
         /\ watcher' \in [Ids -> [IPs -> WatcherStates]]
         /\ \A j \in Ids \ Allocated : \A p \in IPs : watcher'[j][p] = "none"
BY DEF TypeOK, SetWatcher

\* A decrement changes nothing but the count of an ingressState.
LEMMA DecPendingType ==
  ASSUME TypeOK, NEW id \in Allocated, DecPending(id)
  PROVE  /\ state' \in [Ids -> {None} \cup IngressStates]
         /\ Allocated' = Allocated
         /\ state[id].pendingCount \in Int
         /\ \A j \in Allocated :
              /\ state'[j].key = state[j].key /\ state'[j].hash = state[j].hash
              /\ state'[j].pods = state[j].pods /\ state'[j].cancelled = state[j].cancelled
         /\ state'[id].pendingCount = state[id].pendingCount - 1
         /\ \A j \in Ids : j # id => state'[j] = state[j]
<1> DEFINE new == [state[id] EXCEPT !.pendingCount = @ - 1]
<1>1. id \in Ids /\ state[id] \in IngressStates
  BY DEF TypeOK, Allocated
<1>2. /\ new \in IngressStates /\ new.pendingCount = state[id].pendingCount - 1
      /\ state[id].pendingCount \in Int
      /\ new.key = state[id].key /\ new.hash = state[id].hash
      /\ new.pods = state[id].pods /\ new.cancelled = state[id].cancelled
  BY <1>1 DEF IngressStates
<1>3. state' = [state EXCEPT ![id] = new]
  BY DEF DecPending
<1> HIDE DEF new
<1>4. state' \in [Ids -> {None} \cup IngressStates] /\ state'[id] = new
  BY <1>1, <1>2, <1>3 DEF TypeOK
<1>5. Allocated' = Allocated
  BY <1>1, <1>2, <1>3, NoneAssumption DEF TypeOK, Allocated
<1>6. \A j \in Ids : j # id => state'[j] = state[j]
  BY <1>1, <1>3 DEF TypeOK
<1> QED
  BY <1>2, <1>4, <1>5, <1>6 DEF Allocated

\* A callback counts itself and marks a key.
LEMMA ReadyCallbackType ==
  ASSUME TypeOK, NEW id \in Allocated, ReadyCallback(id)
  PROVE  /\ called' \in [Ids -> Nat]
         /\ notified' \in [Keys -> BOOLEAN]
         /\ state[id].key \in Keys
<1>1. id \in Ids /\ state[id] \in IngressStates
  BY DEF TypeOK, Allocated
<1>2. state[id].key \in Keys
  BY <1>1 DEF IngressStates
<1> QED
  BY <1>1, <1>2 DEF TypeOK, ReadyCallback

\* The steps of a work item keep the types.
LEMMA ItemStepType ==
  ASSUME TypeOK, NEW id \in Ids, NEW t \in Targets, ItemStep(id, t)
  PROVE  TypeOK'
<1>0. t[1] \in IPs
  BY DEF Targets
<1>1. CASE ProbeAccepted(id, t) \/ ProbeDropped(id, t)
  <2>1. "accepted" \in ItemStates /\ "dropped" \in ItemStates
    BY DEF ItemStates
  <2>2. \E pc \in ItemStates : SetItem(id, t, pc) /\ item[id][t] # "none"
    BY <1>1, <2>1 DEF ProbeAccepted, ProbeDropped
  <2>3. UNCHANGED <<ingressStates, state, podPending, podDone, watcher, loaded, call,
                    result, notified, called, lost>>
    BY <1>1 DEF ProbeAccepted, ProbeDropped
  <2> QED
    BY <2>2, <2>3, SetItemType DEF TypeOK, Allocated
<1>2. CASE PodDec(id, t)
  <2> DEFINE n == podPending[id][t[1]] - 1
             pc == IF n = 0 THEN "dec" ELSE "done"
  <2>1. pc \in ItemStates
    BY DEF ItemStates
  <2>2. /\ SetItem(id, t, pc) /\ item[id][t] # "none"
        /\ podPending' = [podPending EXCEPT ![id][t[1]] = n]
        /\ podDone' = IF n = 0 THEN [podDone EXCEPT ![id][t[1]] = TRUE] ELSE podDone
        /\ UNCHANGED <<ingressStates, state, watcher, loaded, call, result,
                 notified, called, lost>>
    BY <1>2 DEF PodDec
  <2>3. podPending' \in [Ids -> [IPs -> Int]]
    BY <1>0, <2>2 DEF TypeOK
  <2>4. podDone' \in [Ids -> [IPs -> BOOLEAN]]
    BY <1>0, <2>2 DEF TypeOK
  <2> HIDE DEF pc, n
  <2>5. /\ item' \in [Ids -> [Targets -> ItemStates]]
        /\ \A j \in Ids \ Allocated : \A s \in Targets : item'[j][s] = "none"
    BY <2>1, <2>2, SetItemType
  <2> QED
    BY <2>2, <2>3, <2>4, <2>5 DEF TypeOK, Allocated
<1>3. CASE IngressDec(id, t)
  <2>1. AfterDec(id) \in ItemStates
    BY DEF AfterDec, ItemStates
  <2>2. /\ id \in Allocated
        /\ item' \in [Ids -> [Targets -> ItemStates]]
        /\ \A j \in Ids \ Allocated : \A s \in Targets : item'[j][s] = "none"
    BY <1>3, <2>1, SetItemType DEF IngressDec
  <2>3. state' \in [Ids -> {None} \cup IngressStates] /\ Allocated' = Allocated
    BY <1>3, <2>2, DecPendingType DEF IngressDec
  <2> QED
    BY <1>3, <2>2, <2>3 DEF TypeOK, IngressDec
<1>4. CASE ItemCallback(id, t)
  <2>1. "counted" \in ItemStates
    BY DEF ItemStates
  <2>2. /\ id \in Allocated
        /\ item' \in [Ids -> [Targets -> ItemStates]]
        /\ \A j \in Ids \ Allocated : \A s \in Targets : item'[j][s] = "none"
    BY <1>4, <2>1, SetItemType DEF ItemCallback
  <2>3. called' \in [Ids -> Nat] /\ notified' \in [Keys -> BOOLEAN]
    BY <1>4, <2>2, ReadyCallbackType DEF ItemCallback
  <2>4. UNCHANGED <<ingressStates, state, podPending, podDone, watcher, loaded, call, result, lost>>
    BY <1>4 DEF ItemCallback
  <2> QED
    BY <2>2, <2>3, <2>4 DEF TypeOK, Allocated
<1> QED
  BY <1>1, <1>2, <1>3, <1>4 DEF ItemStep

\* The steps of a pod's goroutine keep the types.
LEMMA WatcherStepType ==
  ASSUME TypeOK, NEW id \in Ids, NEW ip \in IPs, WatcherStep(id, ip)
  PROVE  TypeOK'
<1>0. {"gone", "loaded", "waiting", "dec", "counted", AfterDec(id)} \subseteq WatcherStates
  BY DEF WatcherStates, AfterDec
<1>1. CASE WatcherLoad(id, ip)
  <2>1. loaded' \in [Ids -> [IPs -> Int]]
    BY <1>1 DEF WatcherLoad, TypeOK
  <2>2. \E pc \in WatcherStates : SetWatcher(id, ip, pc) /\ watcher[id][ip] # "none"
    BY <1>0, <1>1 DEF WatcherLoad
  <2>3. UNCHANGED <<ingressStates, state, podPending, podDone, item, call, result,
                 notified, called, lost>>
    BY <1>1 DEF WatcherLoad
  <2> QED
    BY <2>1, <2>2, <2>3, SetWatcherType DEF TypeOK, Allocated
<1>2. CASE WatcherCAS(id, ip)
  <2>0. loaded' \in [Ids -> [IPs -> Int]]
    BY <1>2 DEF WatcherCAS, TypeOK
  <2>1. podPending' \in [Ids -> [IPs -> Int]]
    <3>1. podPending' = podPending \/ podPending' = [podPending EXCEPT ![id][ip] = 0]
      BY <1>2 DEF WatcherCAS
    <3>2. podPending \in [Ids -> [IPs -> Int]]
      BY DEF TypeOK
    <3>3. [podPending EXCEPT ![id][ip] = 0] \in [Ids -> [IPs -> Int]]
      BY <3>2
    <3> QED
      BY <3>1, <3>2, <3>3
  <2>2. \E pc \in WatcherStates : SetWatcher(id, ip, pc) /\ watcher[id][ip] # "none"
    BY <1>0, <1>2 DEF WatcherCAS
  <2>3. UNCHANGED <<ingressStates, state, podDone, item, call, result,
                 notified, called, lost>>
    BY <1>2 DEF WatcherCAS
  <2> QED
    BY <2>0, <2>1, <2>2, <2>3, SetWatcherType DEF TypeOK, Allocated
<1>3. CASE WatcherDec(id, ip)
  <2>1. /\ id \in Allocated
        /\ watcher' \in [Ids -> [IPs -> WatcherStates]]
        /\ \A j \in Ids \ Allocated : \A p \in IPs : watcher'[j][p] = "none"
    BY <1>0, <1>3, SetWatcherType DEF WatcherDec
  <2>2. state' \in [Ids -> {None} \cup IngressStates] /\ Allocated' = Allocated
    BY <1>3, <2>1, DecPendingType DEF WatcherDec
  <2> QED
    BY <1>3, <2>1, <2>2 DEF TypeOK, WatcherDec
<1>4. CASE WatcherCallback(id, ip)
  <2>1. /\ id \in Allocated
        /\ watcher' \in [Ids -> [IPs -> WatcherStates]]
        /\ \A j \in Ids \ Allocated : \A p \in IPs : watcher'[j][p] = "none"
    BY <1>0, <1>4, SetWatcherType DEF WatcherCallback
  <2>2. called' \in [Ids -> Nat] /\ notified' \in [Keys -> BOOLEAN]
    BY <1>4, <2>1, ReadyCallbackType DEF WatcherCallback
  <2>3. UNCHANGED <<ingressStates, state, podPending, podDone, loaded, item, call, result, lost>>
    BY <1>4 DEF WatcherCallback
  <2> QED
    BY <2>1, <2>2, <2>3 DEF TypeOK, Allocated
<1> QED
  BY <1>1, <1>2, <1>3, <1>4 DEF WatcherStep

\* Every step keeps the types.
LEMMA NextType == TypeOK /\ [Next]_vars => TypeOK'
<1> SUFFICES ASSUME TypeOK, [Next]_vars PROVE TypeOK'
  OBVIOUS
<1>1. ASSUME NEW k \in Keys, CallStep(k) PROVE TypeOK'
  BY <1>1, EndCallType, ListProbeTargetsType, QueueItemsType DEF CallStep
<1>2. ASSUME NEW ip \in IPs, PodDisappears(ip) PROVE TypeOK'
  BY <1>2 DEF PodDisappears, TypeOK, Allocated
<1>3. CASE UNCHANGED vars
  BY <1>3 DEF vars, TypeOK, Allocated
<1> QED
  BY <1>1, <1>2, <1>3, LookupType, ItemStepType, WatcherStepType DEF Next

\* The prober's maps, counters and goroutines keep their types, and nothing is
\* published, probed or called back for before its ingressState is allocated.
THEOREM ProberTypeCorrect == Spec => []TypeOK
BY InitType, NextType, PTL DEF Spec

-----------------------------------------------------------------------------
(* The inductive invariant.                                                *)
(*                                                                         *)
(* A pod is subtracted from its ingressState's count by its owner: the     *)
(* work item that took the pod's count to 0, or the goroutine that swapped *)
(* 0 in for what was left.  While there is no owner the pod's count is the *)
(* number of its items that have not been decremented.                     *)

Owning == {"dec", "call", "counted"}

Undecremented(id, ip) ==
  {u \in URLs : item[id][<<ip, u>>] \in {"pending", "dropped", "accepted"}}

\* A pod whose items have been queued.  Its goroutine gets past the load only
\* when the ingressState was cancelled.
Queued(id, ip) ==
  /\ ip \in state[id].pods
  /\ podDone[id][ip] => podPending[id][ip] <= 0
  /\ watcher[id][ip] = "loaded" => state[id].cancelled /\ loaded[id][ip] > 0
  /\ watcher[id][ip] \in Owning =>
       /\ state[id].cancelled
       /\ podPending[id][ip] <= 0
       /\ \A u \in URLs : item[id][<<ip, u>>] \notin Owning
  /\ watcher[id][ip] \notin Owning => podPending[id][ip] = Cardinality(Undecremented(id, ip))
  /\ \A u \in URLs : item[id][<<ip, u>>] # "none"
  /\ \A u \in URLs : item[id][<<ip, u>>] \in Owning =>
       /\ podPending[id][ip] <= 0
       /\ \A v \in URLs : item[id][<<ip, v>>] \in Owning => v = u

PodInv(id, ip) ==
  /\ watcher[id][ip] = "none" => /\ \A u \in URLs : item[id][<<ip, u>>] = "none"
                                 /\ ~podDone[id][ip]
  /\ watcher[id][ip] # "none" => Queued(id, ip)

\* At most one goroutine is about to call back, nobody has called before the
\* count is 0, and somebody does or did if there was anything to count.
NobodyCalls(id) ==
  /\ \A ip \in IPs : watcher[id][ip] # "call"
  /\ \A t \in Targets : item[id][t] # "call"

OneCalls(id) ==
  \/ \E p \in IPs : /\ \A ip \in IPs : watcher[id][ip] = "call" <=> ip = p
                    /\ \A t \in Targets : item[id][t] # "call"
  \/ \E s \in Targets : /\ \A ip \in IPs : watcher[id][ip] # "call"
                        /\ \A t \in Targets : item[id][t] = "call" <=> t = s

CallInv(id) ==
  /\ \/ called[id] \in {0, 1} /\ NobodyCalls(id)
     \/ called[id] = 0 /\ OneCalls(id)
  /\ state[id] = None => called[id] = 0
  /\ state[id] # None =>
       /\ state[id].pendingCount > 0 => called[id] = 0 /\ NobodyCalls(id)
       /\ state[id].pendingCount = 0 => state[id].pods = {} \/ called[id] = 1 \/ OneCalls(id)

\* A published ingressState, or one whose items are being queued, belongs to
\* its key and is not cancelled; its callback has not been forgotten.
PublishedInv(k) ==
  LET id == ingressStates[k] IN
  id # None => /\ call[k].pc = "idle"
               /\ state[id].key = k
               /\ ~state[id].cancelled
               /\ called[id] = 1 => result[k] \/ notified[k]
               /\ state[id].pods = {} => result[k]

QueueingInv(k) ==
  LET id == call[k].id IN
  call[k].pc = "queue" => /\ state[id].key = k
                          /\ ~state[id].cancelled
                          /\ called[id] = 1 => notified[k]
                          /\ call[k].todo \subseteq state[id].pods
                          /\ \A ip \in call[k].todo : watcher[id][ip] = "none"

PodsInv == \A id \in Ids, ip \in IPs : PodInv(id, ip)
CallsInv == \A id \in Ids : CallInv(id)
KeysInv == \A k \in Keys : PublishedInv(k) /\ QueueingInv(k)

IInv == TypeOK /\ PodsInv /\ PendingCountsPods /\ CallsInv /\ KeysInv

-----------------------------------------------------------------------------
(* What the invariant gives. *)

\* The pods that are counted are finitely many.
LEMMA FinitePods ==
  ASSUME TypeOK, NEW id \in Allocated
  PROVE  /\ state[id].pods \subseteq IPs
         /\ IsFiniteSet({p \in state[id].pods : ~Accounted(id, p)})
<1>1. state[id].pods \subseteq IPs
  BY DEF TypeOK, Allocated, IngressStates
<1>2. {p \in state[id].pods : ~Accounted(id, p)} \in SUBSET IPs
  BY <1>1
<1> QED
  BY <1>1, <1>2, FiniteAssumption, FS_Subset

\* So are the items of a pod.
LEMMA FiniteItems ==
  ASSUME NEW id, NEW ip
  PROVE  IsFiniteSet(Undecremented(id, ip))
<1>1. Undecremented(id, ip) \in SUBSET URLs
  BY DEF Undecremented
<1> QED
  BY <1>1, FiniteAssumption, FS_Subset

\* The count of an ingressState never goes below 0, and is 0 without pods.
LEMMA CountIsNat ==
  ASSUME TypeOK, PendingCountsPods, NEW id \in Allocated
  PROVE  /\ state[id].pendingCount \in Nat
         /\ state[id].pods = {} => state[id].pendingCount = 0
<1> DEFINE U == {p \in state[id].pods : ~Accounted(id, p)}
<1>1. IsFiniteSet(U)
  BY FinitePods
<1>2. state[id].pendingCount = Cardinality(U)
  BY DEF PendingCountsPods
<1>3. state[id].pods = {} => U = {}
  OBVIOUS
<1> HIDE DEF U
<1> QED
  BY <1>1, <1>2, <1>3, FS_CardinalityType, FS_EmptySet

CountsNat == \A id \in Allocated : state[id].pendingCount \in Nat

\* The same of all ingressStates, for the next state as well.
LEMMA CountsAreNat == TypeOK /\ PendingCountsPods => CountsNat
BY CountIsNat DEF CountsNat

\* A pod that was subtracted without a cancellation has had all its URLs
\* accepted.
LEMMA AccountedAccepted ==
  ASSUME TypeOK, NEW id \in Allocated, NEW ip \in IPs, PodInv(id, ip),
         ~state[id].cancelled, Accounted(id, ip), NEW u \in URLs
  PROVE  item[id][<<ip, u>>] \in {"dec", "call", "done", "counted"}
<1>0. id \in Ids /\ <<ip, u>> \in Targets
  BY DEF Allocated, Targets
<1>1. watcher[id][ip] # "none" /\ Queued(id, ip)
  BY DEF PodInv, Accounted
<1>2. watcher[id][ip] \notin Owning
  BY <1>1 DEF Queued
<1>3. PICK v \in URLs : item[id][<<ip, v>>] \in Owning
  BY <1>2 DEF Accounted, Owning
<1>4. Cardinality(Undecremented(id, ip)) <= 0
  BY <1>1, <1>2, <1>3 DEF Queued
<1>5. Undecremented(id, ip) = {}
  <2>1. IsFiniteSet(Undecremented(id, ip))
    BY FiniteItems
  <2>2. Cardinality(Undecremented(id, ip)) = 0
    BY <1>4, <2>1, FS_CardinalityType
  <2> QED
    BY <2>1, <2>2, FS_EmptySet
<1>6. item[id][<<ip, u>>] \in ItemStates /\ item[id][<<ip, u>>] # "none"
  BY <1>0, <1>1 DEF TypeOK, Queued
<1> QED
  BY <1>5, <1>6 DEF Undecremented, ItemStates

\* An ingressState that was not cancelled and has count 0 misses no target.
LEMMA ZeroMeansAccepted ==
  ASSUME IInv, NEW id \in Allocated, ~state[id].cancelled, state[id].pendingCount = 0
  PROVE  Missing(id) = {}
<1> SUFFICES ASSUME NEW t \in Missing(id) PROVE FALSE
  OBVIOUS
<1>1. t \in Targets /\ t[1] \in state[id].pods /\ item[id][t] \notin AcceptedStates
  BY DEF Missing
<1>2. t[1] \in IPs /\ t[2] \in URLs /\ t = <<t[1], t[2]>>
  BY <1>1 DEF Targets
<1>3. {p \in state[id].pods : ~Accounted(id, p)} = {}
  <2>1. Cardinality({p \in state[id].pods : ~Accounted(id, p)}) = 0
    BY DEF IInv, PendingCountsPods
  <2>2. IsFiniteSet({p \in state[id].pods : ~Accounted(id, p)})
    BY FinitePods DEF IInv
  <2> QED
    BY <2>1, <2>2, FS_EmptySet
<1>4. Accounted(id, t[1])
  BY <1>1, <1>3
<1>5. PodInv(id, t[1])
  BY <1>2 DEF IInv, PodsInv, Allocated
<1>6. item[id][<<t[1], t[2]>>] \in {"dec", "call", "done", "counted"}
  BY <1>2, <1>4, <1>5, AccountedAccepted DEF IInv
<1> QED
  BY <1>1, <1>2, <1>6 DEF AcceptedStates

ZeroAccepted ==
  \A id \in Allocated :
    ~state[id].cancelled /\ state[id].pendingCount = 0 => Missing(id) = {}

\* The same of all ingressStates, for the next state as well.
LEMMA ZerosMeanAccepted == IInv => ZeroAccepted
BY ZeroMeansAccepted DEF ZeroAccepted

\* The properties the runs check follow.
LEMMA InvImplies == IInv => CallbackOnce /\ ReadyMeansAllAccepted /\ NoLostWakeup
<1> SUFFICES ASSUME IInv PROVE CallbackOnce /\ ReadyMeansAllAccepted /\ NoLostWakeup
  OBVIOUS
<1>1. ASSUME NEW id \in Ids PROVE called[id] + Cardinality(Callers(id)) <= 1
  <2>1. CASE NobodyCalls(id)
    <3>1. Callers(id) = {}
      BY <2>1 DEF NobodyCalls, Callers
    <3>2. Cardinality(Callers(id)) = 0
      BY <3>1, FS_EmptySet
    <3>3. called[id] \in {0, 1}
      BY DEF IInv, CallsInv, CallInv
    <3> QED
      BY <3>2, <3>3
  <2>2. CASE called[id] = 0 /\ OneCalls(id)
    <3>1. \E c : Callers(id) = {c}
      <4>1. ASSUME NEW p \in IPs, \A ip \in IPs : watcher[id][ip] = "call" <=> ip = p,
                   \A t \in Targets : item[id][t] # "call"
            PROVE  Callers(id) = {p}
        BY <4>1 DEF Callers
      <4>2. ASSUME NEW s \in Targets, \A ip \in IPs : watcher[id][ip] # "call",
                   \A t \in Targets : item[id][t] = "call" <=> t = s
            PROVE  Callers(id) = {s}
        BY <4>2 DEF Callers
      <4> QED
        BY <2>2, <4>1, <4>2 DEF OneCalls
    <3>2. Cardinality(Callers(id)) = 1
      BY <3>1, FS_Singleton
    <3> QED
      BY <2>2, <3>2
  <2> QED
    BY <2>1, <2>2 DEF IInv, CallsInv, CallInv
<1>2. ReadyMeansAllAccepted
  BY ZeroMeansAccepted DEF ReadyMeansAllAccepted, IInv, KeysInv, PublishedInv, TypeOK
<1>3. NoLostWakeup
  <2> SUFFICES ASSUME NEW k \in Keys, ingressStates[k] # None,
                      state[ingressStates[k]].pendingCount = 0,
                      Callers(ingressStates[k]) = {}
               PROVE  result[k] \/ notified[k]
    BY DEF NoLostWakeup
  <2> DEFINE id == ingressStates[k]
  <2>1. id \in Ids /\ state[id] # None
    BY DEF IInv, TypeOK, Allocated
  <2>2. state[id].pods = {} \/ called[id] = 1 \/ OneCalls(id)
    BY <2>1 DEF IInv, CallsInv, CallInv
  <2>3. ~OneCalls(id)
    BY DEF OneCalls, Callers
  <2> QED
    BY <2>2, <2>3 DEF IInv, KeysInv, PublishedInv
<1> QED
  BY <1>1, <1>2, <1>3 DEF CallbackOnce

-----------------------------------------------------------------------------
(* Frames: what a step leaves alone keeps its part of the invariant. *)

\* A pod nothing was done to, in an ingressState that may have been cancelled.
LEMMA PodFrame ==
  ASSUME NEW id \in Ids, NEW ip \in IPs, PodInv(id, ip),
         watcher'[id][ip] = watcher[id][ip],
         \A u \in URLs : item'[id][<<ip, u>>] = item[id][<<ip, u>>],
         podPending'[id][ip] = podPending[id][ip],
         podDone'[id][ip] = podDone[id][ip],
         loaded'[id][ip] = loaded[id][ip],
         watcher[id][ip] # "none" => /\ state'[id].pods = state[id].pods
                                     /\ state[id].cancelled => state'[id].cancelled
  PROVE  PodInv(id, ip)'
<1>1. Undecremented(id, ip)' = Undecremented(id, ip)
  BY DEF Undecremented
<1>2. CASE watcher[id][ip] = "none"
  BY <1>2 DEF PodInv
<1>3. CASE watcher[id][ip] # "none"
  <2>1. Queued(id, ip)
    BY <1>3 DEF PodInv
  <2>2. Queued(id, ip)'
    BY <1>1, <1>3, <2>1 DEF Queued
  <2> QED
    BY <1>3, <2>2 DEF PodInv
<1> QED
  BY <1>2, <1>3

\* No pod changes sides, and no count changes.
LEMMA CountFrame ==
  ASSUME PendingCountsPods,
         Allocated' = Allocated,
         \A id \in Allocated : /\ state'[id].pods = state[id].pods
                               /\ state'[id].pendingCount = state[id].pendingCount,
         \A id \in Allocated, ip \in IPs :
           watcher'[id][ip] \in {"call", "counted"} <=> watcher[id][ip] \in {"call", "counted"},
         \A id \in Allocated, t \in Targets :
           item'[id][t] \in {"call", "counted"} <=> item[id][t] \in {"call", "counted"},
         \A id \in Allocated : state[id].pods \subseteq IPs
  PROVE  PendingCountsPods'
<1> SUFFICES ASSUME NEW id \in Allocated
             PROVE  state'[id].pendingCount =
                      Cardinality({ip \in state'[id].pods : ~Accounted(id, ip)'})
  BY DEF PendingCountsPods
<1>1. \A ip \in state[id].pods : Accounted(id, ip)' <=> Accounted(id, ip)
  <2> TAKE ip \in state[id].pods
  <2>1. ip \in IPs /\ \A u \in URLs : <<ip, u>> \in Targets
    BY DEF Targets
  <2> QED
    BY <2>1 DEF Accounted
<1>2. {ip \in state'[id].pods : ~Accounted(id, ip)'} = {ip \in state[id].pods : ~Accounted(id, ip)}
  BY <1>1
<1> QED
  BY <1>2 DEF PendingCountsPods

\* Nobody begins or ends a callback, and no count changes.
LEMMA CallFrame ==
  ASSUME NEW id \in Ids, CallInv(id),
         called'[id] = called[id],
         \A ip \in IPs : watcher'[id][ip] = "call" <=> watcher[id][ip] = "call",
         \A t \in Targets : item'[id][t] = "call" <=> item[id][t] = "call",
         state'[id] = None <=> state[id] = None,
         state[id] # None => /\ state'[id].pods = state[id].pods
                             /\ state'[id].pendingCount = state[id].pendingCount
  PROVE  CallInv(id)'
<1>1. NobodyCalls(id)' <=> NobodyCalls(id)
  BY DEF NobodyCalls
<1>2. OneCalls(id)' <=> OneCalls(id)
  BY DEF OneCalls
<1> QED
  BY <1>1, <1>2 DEF CallInv

\* The calls, the published map and the callbacks are unchanged, and no
\* goroutine starts.
LEMMA KeyFrame ==
  ASSUME TypeOK, KeysInv,
         UNCHANGED <<ingressStates, call, called, result, notified>>,
         \A id \in Allocated : /\ state'[id].pods = state[id].pods
                               /\ state'[id].key = state[id].key
                               /\ state'[id].cancelled = state[id].cancelled,
         \A id \in Ids, ip \in IPs : watcher[id][ip] = "none" => watcher'[id][ip] = "none"
  PROVE  KeysInv'
<1> SUFFICES ASSUME NEW k \in Keys PROVE PublishedInv(k)' /\ QueueingInv(k)'
  BY DEF KeysInv
<1>1. PublishedInv(k)'
  <2>1. CASE ingressStates[k] # None
    <3>1. ingressStates[k] \in Allocated
      BY <2>1 DEF TypeOK
    <3>2. PublishedInv(k)
      BY DEF KeysInv
    <3> QED
      BY <2>1, <3>1, <3>2 DEF PublishedInv
  <2> QED
    BY <2>1 DEF PublishedInv
<1>2. QueueingInv(k)'
  <2>1. CASE call[k].pc = "queue"
    <3>1. call[k].id \in Ids /\ call[k].id \in Allocated
      BY <2>1 DEF TypeOK, Allocated
    <3>2. QueueingInv(k)
      BY DEF KeysInv
    <3>3. state[call[k].id].pods \subseteq IPs
      BY <3>1 DEF TypeOK, Allocated, IngressStates
    <3> QED
      BY <2>1, <3>1, <3>2, <3>3 DEF QueueingInv
  <2> QED
    BY <2>1 DEF QueueingInv
<1> QED
  BY <1>1, <1>2

-----------------------------------------------------------------------------
(* The steps of IsReady. *)

\* A lookup cancels at most the state it takes from the map.
LEMMA LookupInv ==
  ASSUME IInv, NEW k \in Keys, NEW h \in Hashes, Lookup(k, h)
  PROVE  IInv'
<1> DEFINE id == ingressStates[k]
           hit == id # None /\ state[id].hash = h
<1>0. TypeOK' /\ TypeOK
  BY LookupType DEF IInv
<1>1. /\ notified' = [notified EXCEPT ![k] = FALSE]
      /\ call[k].pc = "idle"
      /\ UNCHANGED <<podPending, podDone, watcher, loaded, item, called, lost>>
  BY DEF Lookup
<1>2. id # None => id \in Ids /\ state[id] \in IngressStates
  BY <1>0 DEF TypeOK, Allocated
<1>3. \A j \in Ids : /\ state'[j] = None <=> state[j] = None
                     /\ state[j] # None => /\ state'[j].key = state[j].key
                                           /\ state'[j].pods = state[j].pods
                                           /\ state'[j].pendingCount = state[j].pendingCount
                                           /\ state[j].cancelled => state'[j].cancelled
                                           /\ j # id => state'[j].cancelled = state[j].cancelled
  <2>1. CASE UNCHANGED state
    BY <2>1
  <2>2. CASE ~UNCHANGED state
    <3> DEFINE new == [state[id] EXCEPT !.cancelled = TRUE]
    <3>1. id # None /\ state' = [state EXCEPT ![id] = new]
      BY <2>2 DEF Lookup
    <3>2. /\ new.key = state[id].key /\ new.pods = state[id].pods
          /\ new.pendingCount = state[id].pendingCount /\ new.cancelled = TRUE
          /\ new \in IngressStates
      BY <1>2, <3>1 DEF IngressStates
    <3> HIDE DEF new, id
    <3> QED
      BY <1>0, <1>2, <3>1, <3>2, NoneAssumption DEF TypeOK
  <2> QED
    BY <2>1, <2>2
<1>4. Allocated' = Allocated
  BY <1>3 DEF Allocated
<1>5. PodsInv'
  <2> SUFFICES ASSUME NEW j \in Ids, NEW ip \in IPs PROVE PodInv(j, ip)'
    BY DEF PodsInv
  <2>1. PodInv(j, ip)
    BY DEF IInv, PodsInv
  <2>2. watcher[j][ip] # "none" => state[j] # None
    BY <1>0 DEF TypeOK, Allocated
  <2> QED
    BY <1>1, <1>3, <2>1, <2>2, PodFrame
<1>6. PendingCountsPods'
  <2>1. \A j \in Allocated : j \in Ids /\ state[j] # None /\ state[j].pods \subseteq IPs
    BY <1>0 DEF TypeOK, Allocated, IngressStates
  <2> QED
    BY <1>1, <1>3, <1>4, <2>1, CountFrame DEF IInv
<1>7. CallsInv'
  <2> SUFFICES ASSUME NEW j \in Ids PROVE CallInv(j)'
    BY DEF CallsInv
  <2>1. CallInv(j)
    BY DEF IInv, CallsInv
  <2> QED
    BY <1>1, <1>3, <2>1, CallFrame
<1>8. KeysInv'
  <2> SUFFICES ASSUME NEW l \in Keys PROVE PublishedInv(l)' /\ QueueingInv(l)'
    BY DEF KeysInv
  <2>0. PublishedInv(l) /\ QueueingInv(l) /\ PublishedInv(k)
    BY DEF IInv, KeysInv
  <2>1. CASE l # k
    <3>1. /\ ingressStates'[l] = ingressStates[l] /\ call'[l] = call[l]
          /\ result'[l] = result[l] /\ notified'[l] = notified[l]
      BY <1>0, <1>1, <2>1 DEF Lookup, TypeOK
    <3>2. ingressStates[l] # None => /\ ingressStates[l] # id
                                     /\ ingressStates[l] \in Ids
                                     /\ state[ingressStates[l]] # None
      BY <1>0, <2>0, <2>1 DEF PublishedInv, TypeOK, Allocated
    <3>3. call[l].pc = "queue" => /\ call[l].id # id
                                  /\ call[l].id \in Ids
                                  /\ state[call[l].id] # None
      <4>1. call[l].pc = "queue" => call[l].id \in Ids /\ state[call[l].id] # None
        BY <1>0 DEF TypeOK, Allocated
      <4>2. call[l].pc = "queue" /\ call[l].id = id => FALSE
        <5> SUFFICES ASSUME call[l].pc = "queue", call[l].id = id PROVE FALSE
          OBVIOUS
        <5>1. id # None
          BY <4>1, NoneAssumption
        <5> QED
          BY <2>0, <2>1, <5>1 DEF PublishedInv, QueueingInv
      <4> QED
        BY <4>1, <4>2
    <3> HIDE DEF id, hit
    <3>4. PublishedInv(l)'
      <4>1. CASE ingressStates[l] = None
        BY <3>1, <4>1 DEF PublishedInv
      <4>2. CASE ingressStates[l] # None
        <5> DEFINE j == ingressStates[l]
        <5>1. /\ state'[j].key = state[j].key /\ state'[j].pods = state[j].pods
              /\ state'[j].cancelled = state[j].cancelled /\ called'[j] = called[j]
          BY <1>1, <1>3, <3>2, <4>2
        <5>2. /\ call[l].pc = "idle" /\ state[j].key = l /\ ~state[j].cancelled
              /\ called[j] = 1 => result[l] \/ notified[l]
              /\ state[j].pods = {} => result[l]
          BY <2>0, <4>2 DEF PublishedInv
        <5>3. ingressStates'[l] = j
          BY <3>1
        <5> HIDE DEF j
        <5> QED
          BY <3>1, <5>1, <5>2, <5>3 DEF PublishedInv
      <4> QED
        BY <4>1, <4>2
    <3>5. QueueingInv(l)'
      BY <1>1, <1>3, <2>0, <3>1, <3>3 DEF QueueingInv
    <3> QED
      BY <3>4, <3>5
  <2>2. CASE l = k /\ hit
    <3>1. /\ result' = [result EXCEPT ![k] = state[id].pendingCount = 0]
          /\ UNCHANGED <<ingressStates, state, call>>
      BY <2>2 DEF Lookup
    <3>2. id \in Ids /\ state[id] # None /\ CallInv(id) /\ id # None
      BY <1>0, <2>2 DEF TypeOK, Allocated, IInv, CallsInv
    <3>3. state[id].pendingCount \in Nat /\ (state[id].pods = {} => state[id].pendingCount = 0)
      BY <1>0, <3>2, CountIsNat DEF IInv, Allocated
    <3>4. called[id] = 1 => state[id].pendingCount = 0
      BY <3>2, <3>3 DEF CallInv
    <3>5. result'[k] = (state[id].pendingCount = 0)
      BY <1>0, <3>1 DEF TypeOK
    <3>6. PublishedInv(k)'
      BY <1>1, <2>0, <3>1, <3>2, <3>3, <3>4, <3>5 DEF PublishedInv
    <3>7. QueueingInv(k)'
      BY <1>1, <3>1 DEF QueueingInv
    <3> QED
      BY <2>2, <3>6, <3>7
  <2>3. CASE l = k /\ ~hit
    <3>1. /\ call' = [call EXCEPT ![k] = [NoCall EXCEPT !.pc = "list", !.hash = h]]
          /\ ingressStates' = [ingressStates EXCEPT ![k] = None]
      BY <2>3 DEF Lookup
    <3>2. ingressStates'[k] = None /\ call'[k].pc = "list"
      BY <1>0, <3>1 DEF TypeOK, NoCall
    <3> QED
      BY <2>3, <3>2 DEF PublishedInv, QueueingInv
  <2> QED
    BY <2>1, <2>2, <2>3
<1> QED
  BY <1>0, <1>5, <1>6, <1>7, <1>8 DEF IInv

\* The end of a call: what was queued is published, or nothing is.
LEMMA EndCallInv ==
  ASSUME IInv, NEW k \in Keys, ListFails(k) \/ Publish(k)
  PROVE  IInv'
<1>0. TypeOK' /\ TypeOK
  BY EndCallType DEF IInv
<1>1. /\ UNCHANGED <<state, podPending, podDone, watcher, loaded, item, called>>
      /\ call' = [call EXCEPT ![k] = NoCall]
      /\ call[k].pc # "idle"
  BY DEF ListFails, Publish
<1>2. PodsInv' /\ PendingCountsPods' /\ CallsInv'
  <2>1. \A id \in Ids, ip \in IPs : PodInv(id, ip)' <=> PodInv(id, ip)
    BY <1>1 DEF PodInv, Queued, Undecremented
  <2>2. \A id \in Ids : CallInv(id)' <=> CallInv(id)
    BY <1>1 DEF CallInv, NobodyCalls, OneCalls
  <2>3. PendingCountsPods'
    BY <1>1 DEF IInv, PendingCountsPods, Accounted, Allocated
  <2> QED
    BY <2>1, <2>2, <2>3 DEF IInv, PodsInv, CallsInv
<1>3. KeysInv'
  <2> SUFFICES ASSUME NEW l \in Keys PROVE PublishedInv(l)' /\ QueueingInv(l)'
    BY DEF KeysInv
  <2>0. PublishedInv(l) /\ QueueingInv(l)
    BY DEF IInv, KeysInv
  <2>1. CASE l # k
    <3>1. /\ ingressStates'[l] = ingressStates[l] /\ call'[l] = call[l]
          /\ result'[l] = result[l] /\ notified'[l] = notified[l]
      BY <1>0, <1>1, <2>1 DEF ListFails, Publish, TypeOK
    <3> QED
      BY <1>1, <2>0, <3>1 DEF PublishedInv, QueueingInv
  <2>2. CASE l = k
    <3>1. call'[k].pc = "idle"
      BY <1>0, <1>1 DEF TypeOK, NoCall
    <3>2. CASE ListFails(k)
      <4>1. ingressStates'[k] = None
        BY <1>1, <2>0, <2>2, <3>2 DEF PublishedInv, ListFails
      <4> QED
        BY <2>2, <3>1, <4>1 DEF PublishedInv, QueueingInv
    <3>3. CASE Publish(k)
      <4> DEFINE id == call[k].id
      <4>1. /\ ingressStates'[k] = id /\ result'[k] = (state[id].pods = {})
            /\ notified' = notified
        BY <1>0, <3>3 DEF Publish, TypeOK
      <4>2. state[id].key = k /\ ~state[id].cancelled /\ (called[id] = 1 => notified[k])
        BY <2>0, <2>2, <3>3 DEF Publish, QueueingInv
      <4> HIDE DEF id
      <4> QED
        BY <1>1, <2>2, <3>1, <4>1, <4>2 DEF PublishedInv, QueueingInv
    <3> QED
      BY <3>2, <3>3
  <2> QED
    BY <2>1, <2>2
<1> QED
  BY <1>0, <1>2, <1>3 DEF IInv

\* A new ingressState counts every pod, and nobody has worked for it.
LEMMA ListProbeTargetsInv ==
  ASSUME IInv, NEW k \in Keys, NEW id \in Ids, NEW ips \in SUBSET IPs,
         ListProbeTargets(k, id, ips)
  PROVE  IInv'
<1> DEFINE pods == IF URLs = {} THEN {} ELSE ips
           new == [key |-> k, hash |-> call[k].hash, pods |-> pods,
                   pendingCount |-> Cardinality(pods), cancelled |-> FALSE]
           c == [call[k] EXCEPT !.pc = "queue", !.id = id, !.todo = pods]
<1>0. TypeOK' /\ TypeOK
  BY ListProbeTargetsType DEF IInv
<1>1. /\ state' = [state EXCEPT ![id] = new] /\ Allocated' = Allocated \cup {id}
      /\ id \notin Allocated /\ new \in IngressStates
  BY <1>0, NewState
<1>2. /\ UNCHANGED <<ingressStates, podPending, podDone, watcher, loaded, item, result, notified, called>>
      /\ call' = [call EXCEPT ![k] = c]
      /\ call[k].pc = "list"
  BY DEF ListProbeTargets
<1>3. /\ new.key = k /\ new.pods = pods /\ new.pendingCount = Cardinality(pods)
      /\ ~new.cancelled /\ pods \subseteq IPs /\ new # None
  BY <1>1, NoneAssumption
<1>4. c.pc = "queue" /\ c.id = id /\ c.todo = pods
  <2>1. call[k] \in Calls
    BY <1>0 DEF TypeOK, Calls, ListCalls, QueueCalls
  <2> HIDE DEF pods
  <2> QED
    BY <1>2, <2>1, CallKinds DEF ListCalls
<1> HIDE DEF new, c, pods
<1>5. /\ state'[id] = new /\ \A j \in Ids : j # id => state'[j] = state[j]
      /\ call'[k] = c /\ \A l \in Keys : l # k => call'[l] = call[l]
  BY <1>0, <1>1, <1>2 DEF TypeOK
<1>6. /\ \A t \in Targets : item[id][t] = "none"
      /\ \A ip \in IPs : watcher[id][ip] = "none"
  BY <1>0, <1>1 DEF TypeOK
<1>7. PodsInv'
  <2> SUFFICES ASSUME NEW j \in Ids, NEW ip \in IPs PROVE PodInv(j, ip)'
    BY DEF PodsInv
  <2>1. PodInv(j, ip)
    BY DEF IInv, PodsInv
  <2> QED
    BY <1>2, <1>5, <1>6, <2>1, PodFrame
<1>8. PendingCountsPods'
  <2> SUFFICES ASSUME NEW j \in Allocated'
               PROVE  state'[j].pendingCount =
                        Cardinality({ip \in state'[j].pods : ~Accounted(j, ip)'})
    BY DEF PendingCountsPods
  <2>1. \A ip : Accounted(j, ip)' <=> Accounted(j, ip)
    BY <1>2 DEF Accounted
  <2>2. CASE j = id
    <3>1. \A ip \in pods : ~Accounted(id, ip)
      BY <1>3, <1>6 DEF Accounted, Targets
    <3>2. {ip \in state'[id].pods : ~Accounted(id, ip)'} = pods
      BY <1>3, <1>5, <2>1, <2>2, <3>1
    <3> QED
      BY <1>3, <1>5, <2>2, <3>2
  <2>3. CASE j # id
    <3>1. j \in Allocated /\ state'[j] = state[j]
      BY <1>1, <1>5, <2>3 DEF Allocated
    <3>2. {ip \in state'[j].pods : ~Accounted(j, ip)'} = {ip \in state[j].pods : ~Accounted(j, ip)}
      BY <2>1, <3>1
    <3> QED
      BY <3>1, <3>2 DEF IInv, PendingCountsPods
  <2> QED
    BY <2>2, <2>3
<1>9. CallsInv'
  <2> SUFFICES ASSUME NEW j \in Ids PROVE CallInv(j)'
    BY DEF CallsInv
  <2>1. CallInv(j)
    BY DEF IInv, CallsInv
  <2>2. CASE j = id
    <3>1. called'[id] = 0
      BY <1>1, <1>2, <2>1, <2>2 DEF CallInv, Allocated
    <3>2. NobodyCalls(id)'
      BY <1>2, <1>6 DEF NobodyCalls
    <3>3. IsFiniteSet(pods)
      BY <1>3, FiniteAssumption, FS_Subset
    <3>4. Cardinality(pods) = 0 => pods = {}
      BY <3>3, FS_EmptySet
    <3> QED
      BY <1>3, <1>5, <2>2, <3>1, <3>2, <3>4 DEF CallInv
  <2>3. CASE j # id
    BY <1>2, <1>5, <2>1, <2>3, CallFrame
  <2> QED
    BY <2>2, <2>3
<1>10. KeysInv'
  <2> SUFFICES ASSUME NEW l \in Keys PROVE PublishedInv(l)' /\ QueueingInv(l)'
    BY DEF KeysInv
  <2>0. PublishedInv(l) /\ QueueingInv(l)
    BY DEF IInv, KeysInv
  <2>1. PublishedInv(l)'
    <3>1. ingressStates[l] # None => ingressStates[l] # id /\ ingressStates[l] \in Ids /\ l # k
      BY <1>0, <1>1, <1>2, <2>0 DEF TypeOK, Allocated, PublishedInv
    <3> QED
      BY <1>2, <1>5, <2>0, <3>1 DEF PublishedInv
  <2>2. CASE l = k
    <3>1. called[id] = 0
      BY <1>1 DEF IInv, CallsInv, CallInv, Allocated
    <3>2. QueueingInv(k)'
      BY <1>2, <1>3, <1>4, <1>5, <1>6, <3>1 DEF QueueingInv
    <3> QED
      BY <2>1, <2>2, <3>2
  <2>3. CASE l # k
    <3>1. call[l].pc = "queue" => call[l].id # id /\ call[l].id \in Ids
      BY <1>0, <1>1 DEF TypeOK, Allocated
    <3> QED
      BY <1>2, <1>5, <2>0, <2>1, <2>3, <3>1 DEF QueueingInv
  <2> QED
    BY <2>2, <2>3
<1> QED
  BY <1>0, <1>7, <1>8, <1>9, <1>10 DEF IInv

\* A pod that is queued starts with every item pending.
LEMMA QueueItemsInv ==
  ASSUME IInv, NEW k \in Keys, NEW ip \in IPs, QueueItems(k, ip)
  PROVE  IInv'
<1>id. /\ call[k].id \in Ids /\ call[k].id \in Allocated /\ call[k] \in QueueCalls
       /\ call[k].pc = "queue" /\ ip \in call[k].todo
  BY CallKinds DEF IInv, QueueItems, TypeOK, Allocated, Calls, ListCalls, QueueCalls
<1> PICK id \in Ids : id = call[k].id
  BY <1>id
<1> DEFINE c == [call[k] EXCEPT !.todo = @ \ {ip}]
           f == [t \in Targets |-> IF t[1] = ip THEN "pending" ELSE item[id][t]]
<1>0. TypeOK' /\ TypeOK
  BY QueueItemsType DEF IInv
<1>1. id \in Ids /\ id \in Allocated /\ call[k] \in QueueCalls /\ call[k].pc = "queue" /\ ip \in call[k].todo
  BY <1>id
<1>2. c.pc = "queue" /\ c.id = id /\ c.todo = call[k].todo \ {ip}
  BY <1>1 DEF QueueCalls
<1>3. /\ call' = [call EXCEPT ![k] = c]
      /\ podPending' = [podPending EXCEPT ![id][ip] = Cardinality(URLs)]
      /\ watcher' = [watcher EXCEPT ![id][ip] = "waiting"]
      /\ item' = [item EXCEPT ![id] = f]
      /\ UNCHANGED <<ingressStates, state, podDone, loaded, result, notified, called>>
  BY <1>0, <1>1 DEF QueueItems, TypeOK
<1>4. /\ watcher[id][ip] = "none" /\ ip \in state[id].pods
  BY <1>1 DEF IInv, KeysInv, QueueingInv
<1>5. ~podDone[id][ip] /\ \A u \in URLs : item[id][<<ip, u>>] = "none"
  BY <1>1, <1>4 DEF IInv, PodsInv, PodInv
<1> HIDE DEF c
<1>6. /\ \A j \in Ids : j # id => /\ item'[j] = item[j] /\ watcher'[j] = watcher[j]
                                  /\ podPending'[j] = podPending[j]
      /\ \A p \in IPs : p # ip => /\ watcher'[id][p] = watcher[id][p]
                                  /\ podPending'[id][p] = podPending[id][p]
      /\ watcher'[id][ip] = "waiting" /\ podPending'[id][ip] = Cardinality(URLs)
      /\ item'[id] = f
  BY <1>0, <1>1, <1>3 DEF TypeOK
<1>7. /\ \A u \in URLs : item'[id][<<ip, u>>] = "pending"
      /\ \A p \in IPs, u \in URLs : p # ip => item'[id][<<p, u>>] = item[id][<<p, u>>]
  BY <1>6 DEF Targets
<1>8. \A t \in Targets : item'[id][t] = item[id][t] \/ (item'[id][t] = "pending" /\ item[id][t] = "none")
  BY <1>5, <1>6 DEF Targets
<1> HIDE DEF f
<1>9. PodsInv'
  <2> SUFFICES ASSUME NEW j \in Ids, NEW p \in IPs PROVE PodInv(j, p)'
    BY DEF PodsInv
  <2>1. CASE j = id /\ p = ip
    <3>1. Undecremented(id, ip)' = URLs
      BY <1>7 DEF Undecremented
    <3>2. /\ watcher'[id][ip] \notin Owning /\ watcher'[id][ip] # "loaded"
          /\ \A u \in URLs : /\ item'[id][<<ip, u>>] \notin Owning
                              /\ item'[id][<<ip, u>>] # "none"
      BY <1>6, <1>7 DEF Owning
    <3>3. podDone'[id][ip] => podPending'[id][ip] <= 0
      BY <1>3, <1>5
    <3>4. ip \in state'[id].pods /\ podPending'[id][ip] = Cardinality(Undecremented(id, ip)')
      BY <1>3, <1>4, <1>6, <3>1
    <3>5. Queued(id, ip)'
      BY <3>2, <3>3, <3>4 DEF Queued
    <3> QED
      BY <1>6, <2>1, <3>5 DEF PodInv
  <2>2. CASE ~(j = id /\ p = ip)
    <3>1. PodInv(j, p)
      BY DEF IInv, PodsInv
    <3> QED
      BY <1>3, <1>6, <1>7, <2>2, <3>1, PodFrame
  <2> QED
    BY <2>1, <2>2
<1>10. PendingCountsPods'
  <2>1. Allocated' = Allocated /\ \A j \in Allocated : j \in Ids /\ state[j].pods \subseteq IPs
    BY <1>0, <1>3, FinitePods DEF Allocated
  <2>2. \A j \in Ids, p \in IPs : watcher'[j][p] \in {"call", "counted"} <=> watcher[j][p] \in {"call", "counted"}
    BY <1>4, <1>6
  <2>3. \A j \in Ids, t \in Targets : item'[j][t] \in {"call", "counted"} <=> item[j][t] \in {"call", "counted"}
    BY <1>6, <1>8
  <2> QED
    BY <1>3, <2>1, <2>2, <2>3, CountFrame DEF IInv
<1>11. CallsInv'
  <2> SUFFICES ASSUME NEW j \in Ids PROVE CallInv(j)'
    BY DEF CallsInv
  <2>1. CallInv(j)
    BY DEF IInv, CallsInv
  <2>2. \A p \in IPs : watcher'[j][p] = "call" <=> watcher[j][p] = "call"
    BY <1>4, <1>6
  <2>3. \A t \in Targets : item'[j][t] = "call" <=> item[j][t] = "call"
    BY <1>6, <1>8
  <2> QED
    BY <1>3, <2>1, <2>2, <2>3, CallFrame
<1>12. KeysInv'
  <2> SUFFICES ASSUME NEW l \in Keys PROVE PublishedInv(l)' /\ QueueingInv(l)'
    BY DEF KeysInv
  <2>0. PublishedInv(l) /\ QueueingInv(l) /\ QueueingInv(k)
    BY DEF IInv, KeysInv
  <2>1. call'[k] = c /\ \A m \in Keys : m # k => call'[m] = call[m]
    BY <1>0, <1>3 DEF TypeOK
  <2>2. PublishedInv(l)'
    BY <1>1, <1>2, <1>3, <2>0, <2>1 DEF PublishedInv
  <2>3. CASE l = k
    <3>1. call[k].todo \subseteq IPs
      BY <1>1 DEF QueueCalls
    <3> QED
      BY <1>1, <1>2, <1>3, <1>6, <2>0, <2>1, <2>2, <2>3, <3>1 DEF QueueingInv
  <2>4. CASE l # k
    <3>1. call[l].pc = "queue" => call[l].id # id /\ call[l].id \in Ids
      BY <1>0, <1>1, <2>0, <2>4 DEF QueueingInv, TypeOK, Allocated
    <3> QED
      BY <1>3, <1>6, <2>0, <2>1, <2>2, <2>4, <3>1 DEF QueueingInv
  <2> QED
    BY <2>3, <2>4
<1> QED
  BY <1>0, <1>9, <1>10, <1>11, <1>12 DEF IInv

-----------------------------------------------------------------------------
(* The steps of a work item and of a pod's goroutine. *)

\* A probe that ends, and a decrement of a pod's count, touch one item and one
\* pod.  The item takes the pod over when it brings the count to 0.
LEMMA PodDecInv ==
  ASSUME IInv, NEW id \in Ids, NEW t \in Targets,
         ProbeAccepted(id, t) \/ ProbeDropped(id, t) \/ PodDec(id, t)
  PROVE  IInv'
<1>0. TypeOK' /\ TypeOK
  BY ItemStepType DEF IInv, ItemStep
<1> PICK ip \in IPs, u \in URLs : t = <<ip, u>>
  BY DEF Targets
<1>1. /\ UNCHANGED <<ingressStates, state, watcher, loaded, call, result, notified, called>>
      /\ item[id][t] \in {"pending", "accepted"}
  BY DEF ProbeAccepted, ProbeDropped, PodDec
<1>2. PICK pc \in {"accepted", "dropped", "dec", "done"} : item' = [item EXCEPT ![id][t] = pc]
  BY DEF ProbeAccepted, ProbeDropped, PodDec, SetItem
<1>3. /\ item'[id][t] = pc
      /\ \A j \in Ids, s \in Targets : ~(j = id /\ s = t) => item'[j][s] = item[j][s]
  BY <1>0, <1>2 DEF TypeOK
<1>4. /\ \A p \in IPs, v \in URLs : <<p, v>> \in Targets
      /\ \A p \in IPs, v \in URLs : <<p, v>> = t <=> p = ip /\ v = u
      /\ item'[id][<<ip, u>>] = pc
      /\ \A j \in Ids, p \in IPs, v \in URLs :
           ~(j = id /\ p = ip /\ v = u) => item'[j][<<p, v>>] = item[j][<<p, v>>]
  BY <1>3 DEF Targets
<1>5. \A j \in Ids, p \in IPs : ~(j = id /\ p = ip) =>
        podPending'[j][p] = podPending[j][p] /\ podDone'[j][p] = podDone[j][p]
  BY <1>0 DEF TypeOK, ProbeAccepted, ProbeDropped, PodDec
<1>6. PodsInv'
  <2> SUFFICES ASSUME NEW j \in Ids, NEW p \in IPs PROVE PodInv(j, p)'
    BY DEF PodsInv
  <2>0. PodInv(j, p)
    BY DEF IInv, PodsInv
  <2>1. CASE ~(j = id /\ p = ip)
    BY <1>1, <1>4, <1>5, <2>0, <2>1, PodFrame
  <2>2. CASE j = id /\ p = ip
    <3>1. Queued(id, ip) /\ watcher[id][ip] # "none"
      BY <1>1, <2>0, <2>2 DEF PodInv
    <3>2. CASE ProbeAccepted(id, t) \/ ProbeDropped(id, t)
      <4>1. UNCHANGED <<podPending, podDone>> /\ pc \in {"accepted", "dropped"}
            /\ item[id][<<ip, u>>] = "pending"
        BY <1>3, <3>2, <1>0 DEF ProbeAccepted, ProbeDropped, SetItem, TypeOK
      <4>2. Undecremented(id, ip)' = Undecremented(id, ip)
        BY <1>4, <4>1 DEF Undecremented
      <4>3. \A v \in URLs : /\ item'[id][<<ip, v>>] \in Owning <=> item[id][<<ip, v>>] \in Owning
                            /\ item'[id][<<ip, v>>] # "none"
        BY <1>4, <3>1, <4>1 DEF Owning, Queued
      <4>4. Queued(id, ip)'
        BY <1>1, <3>1, <4>1, <4>2, <4>3 DEF Queued
      <4> QED
        BY <1>1, <2>2, <3>1, <4>4 DEF PodInv
    <3>3. CASE PodDec(id, t)
      <4> DEFINE n == podPending[id][ip] - 1
      <4>1. /\ podPending'[id][ip] = n /\ n \in Int /\ podPending[id][ip] \in Int
            /\ podDone'[id][ip] => podDone[id][ip] \/ n = 0
            /\ pc = (IF n = 0 THEN "dec" ELSE "done")
            /\ item[id][<<ip, u>>] = "accepted"
        <5>1. /\ podPending' = [podPending EXCEPT ![id][ip] = n]
              /\ podDone' = IF n = 0 THEN [podDone EXCEPT ![id][ip] = TRUE] ELSE podDone
              /\ item' = [item EXCEPT ![id][t] = IF n = 0 THEN "dec" ELSE "done"]
              /\ item[id][t] = "accepted"
          BY <3>3 DEF PodDec, SetItem
        <5>2. pc = (IF n = 0 THEN "dec" ELSE "done")
          BY <1>0, <1>3, <5>1 DEF TypeOK
        <5>3. podPending'[id][ip] = n /\ n \in Int /\ podPending[id][ip] \in Int
          BY <1>0, <5>1 DEF TypeOK
        <5>4. podDone'[id][ip] => podDone[id][ip] \/ n = 0
          BY <1>0, <5>1 DEF TypeOK
        <5> QED
          BY <5>1, <5>2, <5>3, <5>4
      <4>2. /\ Undecremented(id, ip)' = Undecremented(id, ip) \ {u}
            /\ u \in Undecremented(id, ip)
        BY <1>4, <4>1 DEF Undecremented
      <4>3. /\ Cardinality(Undecremented(id, ip)') = Cardinality(Undecremented(id, ip)) - 1
            /\ Cardinality(Undecremented(id, ip)) \in Nat /\ Cardinality(Undecremented(id, ip)) # 0
        <5> DEFINE S == Undecremented(id, ip)
        <5>1. IsFiniteSet(S)
          BY FiniteItems
        <5>2. u \in S /\ Undecremented(id, ip)' = S \ {u}
          BY <4>2
        <5> HIDE DEF S
        <5>3. Cardinality(S \ {u}) = Cardinality(S) - 1
          BY <5>1, <5>2, FS_RemoveElement
        <5>4. Cardinality(S) \in Nat /\ Cardinality(S) # 0
          BY <5>1, <5>2, FS_CardinalityType, FS_EmptySet
        <5> QED
          BY <5>2, <5>3, <5>4 DEF S
      <4>4. \A v \in URLs : item[id][<<ip, v>>] \notin Owning
        BY <3>1, <4>3 DEF Queued
      <4>5. \A v \in URLs : /\ item'[id][<<ip, v>>] \in Owning => n = 0 /\ v = u
                            /\ item'[id][<<ip, v>>] # "none"
        BY <1>4, <3>1, <4>1, <4>4 DEF Owning, Queued
      <4>6. watcher[id][ip] \in Owning => n < 0
        BY <3>1, <4>1 DEF Queued
      <4> HIDE DEF n
      <4>7. /\ podDone'[id][ip] => n <= 0
            /\ watcher[id][ip] \notin Owning => n = Cardinality(Undecremented(id, ip)')
        <5>1. podDone[id][ip] => podPending[id][ip] <= 0
          BY <3>1 DEF Queued
        <5>2. watcher[id][ip] \notin Owning => podPending[id][ip] = Cardinality(Undecremented(id, ip))
          BY <3>1 DEF Queued
        <5> QED
          BY <4>1, <4>3, <5>1, <5>2 DEF n
      <4>8. Queued(id, ip)'
        BY <1>1, <3>1, <4>1, <4>5, <4>6, <4>7 DEF Queued
      <4> QED
        BY <1>1, <2>2, <3>1, <4>8 DEF PodInv
    <3> QED
      BY <3>2, <3>3
  <2> QED
    BY <2>1, <2>2
<1>7. PendingCountsPods'
  <2>1. Allocated' = Allocated /\ \A j \in Allocated : j \in Ids /\ state[j].pods \subseteq IPs
    BY <1>0, <1>1, FinitePods DEF Allocated
  <2>2. \A j \in Ids, s \in Targets : item'[j][s] \in {"call", "counted"} <=> item[j][s] \in {"call", "counted"}
    BY <1>1, <1>3
  <2> QED
    BY <1>1, <2>1, <2>2, CountFrame DEF IInv
<1>8. CallsInv'
  <2>1. \A j \in Ids, s \in Targets : item'[j][s] = "call" <=> item[j][s] = "call"
    BY <1>1, <1>3
  <2> QED
    BY <1>1, <2>1, CallFrame DEF IInv, CallsInv
<1>9. KeysInv'
  BY <1>0, <1>1, KeyFrame DEF IInv
<1> QED
  BY <1>0, <1>6, <1>7, <1>8, <1>9 DEF IInv

\* The decrement of an ingressState's count for one pod that was still counted.
LEMMA DecCount ==
  ASSUME TypeOK, PendingCountsPods, NEW id \in Allocated, NEW ip \in state[id].pods,
         DecPending(id), ~Accounted(id, ip), Accounted(id, ip)',
         \A j \in Allocated, p \in IPs :
           ~(j = id /\ p = ip) => (Accounted(j, p)' <=> Accounted(j, p))
  PROVE  PendingCountsPods' /\ state[id].pendingCount > 0
<1> DEFINE U(j) == {p \in state[j].pods : ~Accounted(j, p)}
<1>1. /\ Allocated' = Allocated
      /\ state'[id].pendingCount = state[id].pendingCount - 1
      /\ \A j \in Ids : j # id => state'[j] = state[j]
      /\ \A j \in Allocated : state'[j].pods = state[j].pods
  BY DecPendingType
<1>2. \A j \in Allocated : /\ j \in Ids /\ state[j].pods \subseteq IPs
                           /\ state[j].pendingCount = Cardinality(U(j))
  BY FinitePods DEF Allocated, PendingCountsPods
<1>3. IsFiniteSet(U(id)) /\ ip \in U(id)
  BY FinitePods
<1>4. {p \in state'[id].pods : ~Accounted(id, p)'} = U(id) \ {ip}
  BY <1>1, <1>2
<1>5. ASSUME NEW j \in Allocated, j # id
      PROVE  {p \in state'[j].pods : ~Accounted(j, p)'} = U(j)
  BY <1>1, <1>2, <1>5
<1> HIDE DEF U
<1>6. /\ Cardinality(U(id) \ {ip}) = Cardinality(U(id)) - 1
      /\ Cardinality(U(id)) \in Nat /\ Cardinality(U(id)) # 0
  BY <1>3, FS_RemoveElement, FS_CardinalityType, FS_EmptySet
<1>7. ASSUME NEW j \in Allocated'
      PROVE  state'[j].pendingCount = Cardinality({p \in state'[j].pods : ~Accounted(j, p)'})
  <2>1. CASE j = id
    BY <1>1, <1>2, <1>4, <1>6, <2>1
  <2>2. CASE j # id
    BY <1>1, <1>2, <1>5, <2>2
  <2> QED
    BY <2>1, <2>2
<1> QED
  BY <1>2, <1>6, <1>7 DEF PendingCountsPods

\* The item that owns a pod subtracts it, and goes on to call back if it was the
\* last.
LEMMA IngressDecInv ==
  ASSUME IInv, NEW id \in Ids, NEW t \in Targets, IngressDec(id, t)
  PROVE  IInv'
<1>0. TypeOK' /\ TypeOK
  BY ItemStepType DEF IInv, ItemStep
<1> PICK ip \in IPs, u \in URLs : t = <<ip, u>>
  BY DEF Targets
<1>1. /\ UNCHANGED <<ingressStates, podPending, podDone, watcher, loaded, call, result, notified, called>>
      /\ item[id][t] = "dec" /\ DecPending(id)
  BY DEF IngressDec
<1> DEFINE n == state[id].pendingCount
<1>2. PICK pc : pc = (IF n = 1 THEN "call" ELSE "counted") /\ item' = [item EXCEPT ![id][t] = pc]
  BY DEF IngressDec, SetItem, AfterDec
<1>3. /\ item'[id][t] = pc /\ pc \in {"call", "counted"}
      /\ \A j \in Ids, s \in Targets : ~(j = id /\ s = t) => item'[j][s] = item[j][s]
  BY <1>0, <1>2 DEF TypeOK
<1>4. /\ \A p \in IPs, v \in URLs : <<p, v>> \in Targets
      /\ \A p \in IPs, v \in URLs : <<p, v>> = t <=> p = ip /\ v = u
      /\ item'[id][<<ip, u>>] = pc /\ item[id][<<ip, u>>] = "dec"
      /\ \A j \in Ids, p \in IPs, v \in URLs :
           ~(j = id /\ p = ip /\ v = u) => item'[j][<<p, v>>] = item[j][<<p, v>>]
  BY <1>1, <1>3 DEF Targets
<1>5. id \in Allocated
  BY <1>0, <1>1 DEF TypeOK
<1>6. /\ Allocated' = Allocated /\ n \in Int
      /\ state'[id].pendingCount = n - 1
      /\ \A j \in Ids : j # id => state'[j] = state[j]
      /\ \A j \in Allocated : /\ state'[j].key = state[j].key
                              /\ state'[j].pods = state[j].pods
                              /\ state'[j].cancelled = state[j].cancelled
  BY <1>0, <1>1, <1>5, DecPendingType
<1>7. Queued(id, ip) /\ watcher[id][ip] # "none"
  BY <1>4 DEF IInv, PodsInv, PodInv
<1>8. PodsInv'
  <2> SUFFICES ASSUME NEW j \in Ids, NEW p \in IPs PROVE PodInv(j, p)'
    BY DEF PodsInv
  <2>0. PodInv(j, p)
    BY DEF IInv, PodsInv
  <2>1. CASE ~(j = id /\ p = ip)
    <3>1. watcher[j][p] # "none" => j \in Allocated
      BY <1>0 DEF TypeOK
    <3> QED
      BY <1>1, <1>4, <1>6, <2>0, <2>1, <3>1, PodFrame
  <2>2. CASE j = id /\ p = ip
    <3>1. Undecremented(id, ip)' = Undecremented(id, ip)
      BY <1>3, <1>4 DEF Undecremented
    <3>2. \A v \in URLs : /\ item'[id][<<ip, v>>] \in Owning <=> item[id][<<ip, v>>] \in Owning
                          /\ item'[id][<<ip, v>>] # "none"
      BY <1>3, <1>4, <1>7 DEF Owning, Queued
    <3>3. Queued(id, ip)'
      BY <1>1, <1>5, <1>6, <1>7, <3>1, <3>2 DEF Queued
    <3> QED
      BY <1>1, <1>7, <2>2, <3>3 DEF PodInv
  <2> QED
    BY <2>1, <2>2
<1>9. PendingCountsPods' /\ n > 0
  <2>1. ip \in state[id].pods
    BY <1>7 DEF Queued
  <2>2. ~Accounted(id, ip)
    <3>1. item[id][<<ip, u>>] \in Owning
      BY <1>4 DEF Owning
    <3>2. watcher[id][ip] \notin Owning
      BY <1>7, <3>1 DEF Queued
    <3>3. \A v \in URLs : item[id][<<ip, v>>] \notin {"call", "counted"}
      BY <1>4, <1>7, <3>1 DEF Queued, Owning
    <3> QED
      BY <3>2, <3>3 DEF Accounted, Owning
  <2>3. Accounted(id, ip)'
    BY <1>3, <1>4 DEF Accounted
  <2>4. \A j \in Allocated, p \in IPs : ~(j = id /\ p = ip) => (Accounted(j, p)' <=> Accounted(j, p))
    BY <1>1, <1>4 DEF Accounted, Allocated
  <2> QED
    BY <1>0, <1>1, <1>5, <2>1, <2>2, <2>3, <2>4, DecCount DEF IInv
<1>10. CallsInv'
  <2> SUFFICES ASSUME NEW j \in Ids PROVE CallInv(j)'
    BY DEF CallsInv
  <2>0. CallInv(j)
    BY DEF IInv, CallsInv
  <2>1. CASE j # id
    BY <1>1, <1>3, <1>6, <2>0, <2>1, CallFrame
  <2>2. CASE j = id
    <3>1. called[id] = 0 /\ NobodyCalls(id)
      BY <1>5, <1>9, <2>0, <2>2 DEF CallInv, Allocated
    <3>2. state'[id] # None
      BY <1>5, <1>6 DEF Allocated
    <3>3. CASE n = 1
      <4>1. OneCalls(id)'
        BY <1>1, <1>2, <1>3, <3>1, <3>3 DEF OneCalls, NobodyCalls
      <4> QED
        BY <1>1, <1>6, <2>2, <3>1, <3>2, <3>3, <4>1 DEF CallInv
    <3>4. CASE n # 1
      <4>1. NobodyCalls(id)'
        BY <1>1, <1>2, <1>3, <3>1, <3>4 DEF NobodyCalls
      <4>2. state'[id].pendingCount > 0
        BY <1>6, <1>9, <3>4
      <4> QED
        BY <1>1, <2>2, <3>1, <3>2, <4>1, <4>2 DEF CallInv
    <3> QED
      BY <3>3, <3>4
  <2> QED
    BY <2>1, <2>2
<1>11. KeysInv'
  BY <1>0, <1>1, <1>6, KeyFrame DEF IInv
<1> QED
  BY <1>0, <1>8, <1>9, <1>10, <1>11 DEF IInv

\* The goroutine that owns a pod of a cancelled ingressState does the same.
LEMMA WatcherDecInv ==
  ASSUME IInv, NEW id \in Ids, NEW ip \in IPs, WatcherDec(id, ip)
  PROVE  IInv'
<1>0. TypeOK' /\ TypeOK
  BY WatcherStepType DEF IInv, WatcherStep
<1>1. /\ UNCHANGED <<ingressStates, podPending, podDone, item, loaded, call, result, notified, called>>
      /\ watcher[id][ip] = "dec" /\ DecPending(id)
  BY DEF WatcherDec
<1> DEFINE n == state[id].pendingCount
<1>2. PICK pc : pc = (IF n = 1 THEN "call" ELSE "counted") /\ watcher' = [watcher EXCEPT ![id][ip] = pc]
  BY DEF WatcherDec, SetWatcher, AfterDec
<1>3. /\ watcher'[id][ip] = pc /\ pc \in {"call", "counted"}
      /\ \A j \in Ids, p \in IPs : ~(j = id /\ p = ip) => watcher'[j][p] = watcher[j][p]
  BY <1>0, <1>2 DEF TypeOK
<1>5. id \in Allocated
  BY <1>0, <1>1 DEF TypeOK
<1>6. /\ Allocated' = Allocated /\ n \in Int
      /\ state'[id].pendingCount = n - 1
      /\ \A j \in Ids : j # id => state'[j] = state[j]
      /\ \A j \in Allocated : /\ state'[j].key = state[j].key
                              /\ state'[j].pods = state[j].pods
                              /\ state'[j].cancelled = state[j].cancelled
  BY <1>0, <1>1, <1>5, DecPendingType
<1>7. Queued(id, ip) /\ watcher[id][ip] \in Owning /\ watcher'[id][ip] \in Owning
  BY <1>1, <1>3 DEF IInv, PodsInv, PodInv, Owning
<1>8. PodsInv'
  <2> SUFFICES ASSUME NEW j \in Ids, NEW p \in IPs PROVE PodInv(j, p)'
    BY DEF PodsInv
  <2>0. PodInv(j, p)
    BY DEF IInv, PodsInv
  <2>1. CASE ~(j = id /\ p = ip)
    <3>1. watcher[j][p] # "none" => j \in Allocated
      BY <1>0 DEF TypeOK
    <3> QED
      BY <1>1, <1>3, <1>6, <2>0, <2>1, <3>1, PodFrame
  <2>2. CASE j = id /\ p = ip
    <3>1. Queued(id, ip)'
      BY <1>1, <1>3, <1>5, <1>6, <1>7 DEF Queued
    <3> QED
      BY <1>3, <2>2, <3>1 DEF PodInv
  <2> QED
    BY <2>1, <2>2
<1>9. PendingCountsPods' /\ n > 0
  <2>1. ip \in state[id].pods
    BY <1>7 DEF Queued
  <2>2. ~Accounted(id, ip)
    BY <1>1, <1>7 DEF Accounted, Queued, Owning
  <2>3. Accounted(id, ip)'
    BY <1>3 DEF Accounted
  <2>4. \A j \in Allocated, p \in IPs : ~(j = id /\ p = ip) => (Accounted(j, p)' <=> Accounted(j, p))
    BY <1>1, <1>3 DEF Accounted, Allocated
  <2> QED
    BY <1>0, <1>1, <1>5, <2>1, <2>2, <2>3, <2>4, DecCount DEF IInv
<1>10. CallsInv'
  <2> SUFFICES ASSUME NEW j \in Ids PROVE CallInv(j)'
    BY DEF CallsInv
  <2>0. CallInv(j)
    BY DEF IInv, CallsInv
  <2>1. CASE j # id
    BY <1>1, <1>3, <1>6, <2>0, <2>1, CallFrame
  <2>2. CASE j = id
    <3>1. called[id] = 0 /\ NobodyCalls(id)
      BY <1>5, <1>9, <2>0, <2>2 DEF CallInv, Allocated
    <3>2. state'[id] # None
      BY <1>5, <1>6 DEF Allocated
    <3>3. CASE n = 1
      <4>1. OneCalls(id)'
        BY <1>1, <1>2, <1>3, <3>1, <3>3 DEF OneCalls, NobodyCalls
      <4> QED
        BY <1>1, <1>6, <2>2, <3>1, <3>2, <3>3, <4>1 DEF CallInv
    <3>4. CASE n # 1
      <4>1. NobodyCalls(id)'
        BY <1>1, <1>2, <1>3, <3>1, <3>4 DEF NobodyCalls
      <4>2. state'[id].pendingCount > 0
        BY <1>6, <1>9, <3>4
      <4> QED
        BY <1>1, <2>2, <3>1, <3>2, <4>1, <4>2 DEF CallInv
    <3> QED
      BY <3>3, <3>4
  <2> QED
    BY <2>1, <2>2
<1>11. KeysInv'
  <2>1. \A j \in Ids, p \in IPs : watcher[j][p] = "none" => watcher'[j][p] = "none"
    BY <1>1, <1>3
  <2> QED
    BY <1>0, <1>1, <1>6, <2>1, KeyFrame DEF IInv
<1> QED
  BY <1>0, <1>8, <1>9, <1>10, <1>11 DEF IInv

\* A callback leaves the counters alone: its caller was the only one, and its
\* key is marked.
LEMMA CallbackInv ==
  ASSUME IInv, TypeOK', NEW id \in Ids, ReadyCallback(id),
         UNCHANGED <<ingressStates, state, podPending, podDone, loaded, call, result>>,
         \/ \E t \in Targets : /\ item[id][t] = "call" /\ item' = [item EXCEPT ![id][t] = "counted"]
                               /\ watcher' = watcher
         \/ \E ip \in IPs : /\ watcher[id][ip] = "call" /\ watcher' = [watcher EXCEPT ![id][ip] = "counted"]
                            /\ item' = item
  PROVE  IInv'
<1>0. TypeOK
  BY DEF IInv
<1>1. /\ \A j \in Ids, s \in Targets : \/ item'[j][s] = item[j][s]
                                       \/ j = id /\ item[j][s] = "call" /\ item'[j][s] = "counted"
      /\ \A j \in Ids, p \in IPs : \/ watcher'[j][p] = watcher[j][p]
                                   \/ j = id /\ watcher[j][p] = "call" /\ watcher'[j][p] = "counted"
  BY <1>0 DEF TypeOK
<1>2. \A j \in Ids : j # id => item'[j] = item[j] /\ watcher'[j] = watcher[j]
  BY <1>0 DEF TypeOK
<1>3. id \in Allocated
  BY <1>0 DEF TypeOK
<1>4. /\ \A j \in Ids : called'[j] = IF j = id THEN called[j] + 1 ELSE called[j]
      /\ \A k \in Keys : notified[k] => notified'[k]
      /\ notified'[state[id].key] = TRUE
  BY <1>0, <1>3, ReadyCallbackType DEF TypeOK, ReadyCallback
<1>5. PodsInv'
  <2> SUFFICES ASSUME NEW j \in Ids, NEW p \in IPs PROVE PodInv(j, p)'
    BY DEF PodsInv
  <2>0. PodInv(j, p)
    BY DEF IInv, PodsInv
  <2>1. \A v \in URLs : <<p, v>> \in Targets
    BY DEF Targets
  <2>2. Undecremented(j, p)' = Undecremented(j, p)
    BY <1>1, <2>1 DEF Undecremented
  <2>3. \A v \in URLs : /\ item'[j][<<p, v>>] \in Owning <=> item[j][<<p, v>>] \in Owning
                        /\ item'[j][<<p, v>>] = "none" <=> item[j][<<p, v>>] = "none"
    BY <1>1, <2>1 DEF Owning
  <2>4. /\ watcher'[j][p] \in Owning <=> watcher[j][p] \in Owning
        /\ watcher'[j][p] = "none" <=> watcher[j][p] = "none"
        /\ watcher'[j][p] = "loaded" <=> watcher[j][p] = "loaded"
    BY <1>1 DEF Owning
  <2>5. Queued(j, p) => Queued(j, p)'
    BY <2>2, <2>3, <2>4 DEF Queued
  <2> QED
    BY <2>0, <2>3, <2>4, <2>5 DEF PodInv
<1>6. PendingCountsPods'
  <2>1. Allocated' = Allocated /\ \A j \in Allocated : j \in Ids /\ state[j].pods \subseteq IPs
    BY <1>0, FinitePods DEF Allocated
  <2>2. \A j \in Ids, s \in Targets : item'[j][s] \in {"call", "counted"} <=> item[j][s] \in {"call", "counted"}
    BY <1>1
  <2>3. \A j \in Ids, p \in IPs : watcher'[j][p] \in {"call", "counted"} <=> watcher[j][p] \in {"call", "counted"}
    BY <1>1
  <2> QED
    BY <2>1, <2>2, <2>3, CountFrame DEF IInv
<1>7. called[id] = 0 /\ NobodyCalls(id)' /\ state[id].pendingCount <= 0
  <2>1. CallInv(id) /\ ~NobodyCalls(id)
    BY DEF IInv, CallsInv, NobodyCalls
  <2>2. called[id] = 0 /\ OneCalls(id)
    BY <2>1 DEF CallInv
  <2>3. NobodyCalls(id)'
    <3>1. ASSUME NEW t \in Targets, item[id][t] = "call", watcher' = watcher,
                 item' = [item EXCEPT ![id][t] = "counted"]
          PROVE  NobodyCalls(id)'
      <4>1. /\ \A ip \in IPs : watcher[id][ip] # "call"
            /\ \A s \in Targets : item[id][s] = "call" <=> s = t
        BY <2>2, <3>1 DEF OneCalls
      <4>2. item'[id][t] = "counted" /\ \A s \in Targets : s # t => item'[id][s] = item[id][s]
        BY <1>0, <3>1 DEF TypeOK
      <4> QED
        BY <3>1, <4>1, <4>2 DEF NobodyCalls
    <3>2. ASSUME NEW ip \in IPs, watcher[id][ip] = "call", item' = item,
                 watcher' = [watcher EXCEPT ![id][ip] = "counted"]
          PROVE  NobodyCalls(id)'
      <4>1. /\ \A p \in IPs : watcher[id][p] = "call" <=> p = ip
            /\ \A s \in Targets : item[id][s] # "call"
        BY <2>2, <3>2 DEF OneCalls
      <4>2. watcher'[id][ip] = "counted" /\ \A p \in IPs : p # ip => watcher'[id][p] = watcher[id][p]
        BY <1>0, <3>2 DEF TypeOK
      <4> QED
        BY <3>2, <4>1, <4>2 DEF NobodyCalls
    <3> QED
      BY <3>1, <3>2
  <2>4. state[id].pendingCount \in Nat
    BY <1>0, <1>3, CountIsNat DEF IInv
  <2> QED
    BY <1>3, <2>1, <2>2, <2>3, <2>4 DEF CallInv, Allocated
<1>8. CallsInv'
  <2> SUFFICES ASSUME NEW j \in Ids PROVE CallInv(j)'
    BY DEF CallsInv
  <2>0. CallInv(j)
    BY DEF IInv, CallsInv
  <2>1. CASE j # id
    BY <1>2, <1>4, <2>0, <2>1, CallFrame
  <2>2. CASE j = id
    <3>1. called'[id] = 1 /\ state'[id] # None
      BY <1>3, <1>4, <1>7 DEF Allocated
    <3>2. state'[id].pendingCount \in Nat
      BY <1>0, <1>3, CountIsNat DEF IInv
    <3> QED
      BY <1>7, <2>2, <3>1, <3>2 DEF CallInv
  <2> QED
    BY <2>1, <2>2
<1>9. KeysInv'
  <2> SUFFICES ASSUME NEW k \in Keys PROVE PublishedInv(k)' /\ QueueingInv(k)'
    BY DEF KeysInv
  <2>0. PublishedInv(k) /\ QueueingInv(k)
    BY DEF IInv, KeysInv
  <2>1. PublishedInv(k)'
    <3>1. CASE ingressStates[k] # None
      <4>1. ingressStates[k] \in Ids
        BY <1>0, <3>1 DEF TypeOK
      <4> QED
        BY <1>4, <2>0, <3>1, <4>1 DEF PublishedInv
    <3> QED
      BY <3>1 DEF PublishedInv
  <2>2. QueueingInv(k)'
    <3>1. CASE call[k].pc = "queue"
      <4>1. call[k].id \in Ids /\ call[k].todo \subseteq IPs
        BY <1>0, <3>1, CallKinds DEF TypeOK, Calls, ListCalls, QueueCalls
      <4> QED
        BY <1>1, <1>4, <2>0, <3>1, <4>1 DEF QueueingInv
    <3> QED
      BY <3>1 DEF QueueingInv
  <2> QED
    BY <2>1, <2>2
<1> QED
  BY <1>5, <1>6, <1>8, <1>9 DEF IInv

\* A goroutine gets past the load only for a cancelled ingressState, because a
\* pod that was cancelled alone has nothing left to count; and a successful swap
\* makes it the owner of its pod.
LEMMA WatcherWakesInv ==
  ASSUME IInv, NEW id \in Ids, NEW ip \in IPs, WatcherLoad(id, ip) \/ WatcherCAS(id, ip)
  PROVE  IInv'
<1>0. TypeOK' /\ TypeOK
  BY WatcherStepType DEF IInv, WatcherStep
<1>1. /\ UNCHANGED <<ingressStates, state, podDone, item, call, result, notified, called>>
      /\ watcher[id][ip] \in {"waiting", "loaded"}
  BY DEF WatcherLoad, WatcherCAS
<1>2. PICK pc \in {"gone", "loaded", "dec", "waiting"} : watcher' = [watcher EXCEPT ![id][ip] = pc]
  BY DEF WatcherLoad, WatcherCAS, SetWatcher
<1>3. /\ watcher'[id][ip] = pc
      /\ \A j \in Ids, p \in IPs : ~(j = id /\ p = ip) =>
           /\ watcher'[j][p] = watcher[j][p] /\ loaded'[j][p] = loaded[j][p]
           /\ podPending'[j][p] = podPending[j][p]
  BY <1>0, <1>2 DEF TypeOK, WatcherLoad, WatcherCAS
<1>4. PodsInv'
  <2> SUFFICES ASSUME NEW j \in Ids, NEW p \in IPs PROVE PodInv(j, p)'
    BY DEF PodsInv
  <2>0. PodInv(j, p)
    BY DEF IInv, PodsInv
  <2>1. CASE ~(j = id /\ p = ip)
    BY <1>1, <1>3, <2>0, <2>1, PodFrame
  <2>2. CASE j = id /\ p = ip
    <3>1. Queued(id, ip) /\ watcher[id][ip] \notin Owning
      BY <1>1, <2>0, <2>2 DEF PodInv, Owning
    <3>2. Undecremented(id, ip)' = Undecremented(id, ip)
      BY <1>1 DEF Undecremented
    <3>3. CASE WatcherLoad(id, ip)
      <4> DEFINE n == podPending[id][ip]
      <4>1. n \in Int /\ UNCHANGED podPending /\ loaded'[id][ip] = (IF n <= 0 THEN 0 ELSE n)
        BY <1>0, <3>3 DEF WatcherLoad, TypeOK
      <4>2. pc = (IF n <= 0 THEN "gone" ELSE "loaded")
        BY <1>0, <1>3, <3>3 DEF WatcherLoad, SetWatcher, TypeOK
      <4>3. ~(n <= 0) => state[id].cancelled
        BY <3>1, <3>3 DEF WatcherLoad, PodCtxDone, Queued
      <4>4. watcher'[id][ip] = "loaded" => state[id].cancelled /\ loaded'[id][ip] > 0
        BY <1>3, <4>1, <4>2, <4>3
      <4>5. watcher'[id][ip] \notin Owning
        BY <1>3, <4>2 DEF Owning
      <4>6. Queued(id, ip)'
        BY <1>1, <3>1, <3>2, <4>1, <4>4, <4>5 DEF Queued
      <4> QED
        BY <1>3, <2>2, <4>6 DEF PodInv
    <3>4. CASE WatcherCAS(id, ip) /\ podPending[id][ip] = loaded[id][ip]
      <4>1. podPending'[id][ip] = 0 /\ pc = "dec"
        BY <1>0, <1>3, <3>4 DEF WatcherCAS, SetWatcher, TypeOK
      <4>2. state[id].cancelled /\ podPending[id][ip] > 0
        BY <3>1, <3>4 DEF WatcherCAS, Queued
      <4>3. \A u \in URLs : item[id][<<ip, u>>] \notin Owning
        BY <1>0, <3>1, <4>2 DEF Queued, TypeOK
      <4>4. watcher'[id][ip] \in Owning /\ watcher'[id][ip] # "loaded"
        BY <1>3, <4>1 DEF Owning
      <4>5. Queued(id, ip)'
        BY <1>1, <3>1, <4>1, <4>2, <4>3, <4>4 DEF Queued
      <4> QED
        BY <1>3, <2>2, <4>5 DEF PodInv
    <3>5. CASE WatcherCAS(id, ip) /\ podPending[id][ip] # loaded[id][ip]
      <4>1. UNCHANGED podPending /\ pc = "waiting"
        BY <1>0, <1>3, <3>5 DEF WatcherCAS, SetWatcher, TypeOK
      <4>2. watcher'[id][ip] \notin Owning /\ watcher'[id][ip] # "loaded"
        BY <1>3, <4>1 DEF Owning
      <4>3. Queued(id, ip)'
        BY <1>1, <3>1, <3>2, <4>1, <4>2 DEF Queued
      <4> QED
        BY <1>3, <2>2, <4>3 DEF PodInv
    <3> QED
      BY <3>3, <3>4, <3>5
  <2> QED
    BY <2>1, <2>2
<1>5. PendingCountsPods'
  <2>1. Allocated' = Allocated /\ \A j \in Allocated : j \in Ids /\ state[j].pods \subseteq IPs
    BY <1>0, <1>1, FinitePods DEF Allocated
  <2>2. \A j \in Ids, p \in IPs : watcher'[j][p] \in {"call", "counted"} <=> watcher[j][p] \in {"call", "counted"}
    BY <1>1, <1>3
  <2> QED
    BY <1>1, <2>1, <2>2, CountFrame DEF IInv
<1>6. CallsInv'
  <2>1. \A j \in Ids, p \in IPs : watcher'[j][p] = "call" <=> watcher[j][p] = "call"
    BY <1>1, <1>3
  <2> QED
    BY <1>1, <2>1, CallFrame DEF IInv, CallsInv
<1>7. KeysInv'
  <2>1. \A j \in Ids, p \in IPs : watcher[j][p] = "none" => watcher'[j][p] = "none"
    BY <1>1, <1>3
  <2> QED
    BY <1>0, <1>1, <2>1, KeyFrame DEF IInv
<1> QED
  BY <1>0, <1>4, <1>5, <1>6, <1>7 DEF IInv

-----------------------------------------------------------------------------
(* The invariant holds, and with it the properties. *)

\* Nothing is allocated, published or called in the initial state.
LEMMA InitInv == Init => IInv
<1> SUFFICES ASSUME Init PROVE IInv
  OBVIOUS
<1>0. TypeOK
  BY InitType
<1>1. /\ \A id \in Ids : state[id] = None /\ called[id] = 0
      /\ \A id \in Ids, ip \in IPs : watcher[id][ip] = "none" /\ podDone[id][ip] = FALSE
      /\ \A id \in Ids, t \in Targets : item[id][t] = "none"
      /\ \A k \in Keys : ingressStates[k] = None /\ call[k].pc = "idle"
  BY DEF Init, NoCall
<1>2. PodsInv
  BY <1>1 DEF PodsInv, PodInv, Targets
<1>3. PendingCountsPods
  BY <1>1 DEF PendingCountsPods, Allocated
<1>4. CallsInv
  BY <1>1 DEF CallsInv, CallInv, NobodyCalls
<1>5. KeysInv
  BY <1>1 DEF KeysInv, PublishedInv, QueueingInv
<1> QED
  BY <1>0, <1>2, <1>3, <1>4, <1>5 DEF IInv

\* What a pod that disappears, or a step of nobody, leaves unchanged.
LEMMA StutterInv ==
  ASSUME IInv, TypeOK',
         UNCHANGED <<ingressStates, state, podPending, podDone, watcher, loaded, item,
                     call, result, notified, called>>
  PROVE  IInv'
<1>1. PodsInv'
  BY PodFrame DEF IInv, PodsInv
<1>2. PendingCountsPods'
  BY DEF IInv, PendingCountsPods, Accounted, Allocated
<1>3. CallsInv'
  BY CallFrame DEF IInv, CallsInv
<1>4. KeysInv'
  BY KeyFrame DEF IInv
<1> QED
  BY <1>1, <1>2, <1>3, <1>4 DEF IInv

\* Every step keeps the invariant.
LEMMA NextInv == IInv /\ [Next]_vars => IInv'
<1> SUFFICES ASSUME IInv, [Next]_vars PROVE IInv'
  OBVIOUS
<1>0. TypeOK'
  BY NextType DEF IInv
<1>1. ASSUME NEW k \in Keys, CallStep(k) PROVE IInv'
  BY <1>1, EndCallInv, ListProbeTargetsInv, QueueItemsInv DEF CallStep
<1>2. ASSUME NEW id \in Ids, NEW t \in Targets, ItemStep(id, t) PROVE IInv'
  <2>1. CASE ItemCallback(id, t)
    BY <1>0, <2>1, CallbackInv DEF ItemCallback, SetItem
  <2> QED
    BY <1>2, <2>1, PodDecInv, IngressDecInv DEF ItemStep
<1>3. ASSUME NEW id \in Ids, NEW ip \in IPs, WatcherStep(id, ip) PROVE IInv'
  <2>1. CASE WatcherCallback(id, ip)
    BY <1>0, <2>1, CallbackInv DEF WatcherCallback, SetWatcher
  <2> QED
    BY <1>3, <2>1, WatcherWakesInv, WatcherDecInv DEF WatcherStep
<1>4. ASSUME NEW ip \in IPs, PodDisappears(ip) PROVE IInv'
  BY <1>0, <1>4, StutterInv DEF PodDisappears
<1>5. CASE UNCHANGED vars
  BY <1>0, <1>5, StutterInv DEF vars
<1> QED
  BY <1>1, <1>2, <1>3, <1>4, <1>5, LookupInv DEF Next

\* The inductive invariant holds in every reachable state.
LEMMA Invariant == Spec => []IInv
BY InitInv, NextInv, PTL DEF Spec

\* However the last probes of a pod and its cancellation race, each pod is
\* subtracted from its ingressState's count exactly once.
THEOREM CountIsExact == Spec => []PendingCountsPods
<1>1. IInv => PendingCountsPods
  BY DEF IInv
<1> QED
  BY <1>1, Invariant, PTL

\* No ingressState calls the reconciler back twice.
THEOREM CallsBackOnce == Spec => []CallbackOnce
<1>1. IInv => CallbackOnce
  BY InvImplies
<1> QED
  BY <1>1, Invariant, PTL

\* IsReady answers true only for a hash all of whose targets were accepted.
THEOREM ReadyIsAccepted == Spec => []ReadyMeansAllAccepted
<1>1. IInv => ReadyMeansAllAccepted
  BY InvImplies
<1> QED
  BY <1>1, Invariant, PTL

\* The reconciler always learns that probing has finished.
THEOREM WakesUp == Spec => []NoLostWakeup
<1>1. IInv => NoLostWakeup
  BY InvImplies
<1> QED
  BY <1>1, Invariant, PTL

-----------------------------------------------------------------------------
(* The prober implements ProbeContract: each step is one step of the       *)
(* contract, or changes nothing the reconciler can see.                    *)

ViewOf(k) ==
  IF ingressStates[k] = None THEN None
  ELSE [hash    |-> state[ingressStates[k]].hash,
        missing |-> Missing(ingressStates[k]),
        ready   |-> state[ingressStates[k]].pendingCount = 0]

\* The view of a key whose published state shows no change.
LEMMA ViewFrame ==
  ASSUME TypeOK, NEW k \in Keys, ingressStates'[k] = ingressStates[k],
         \A id \in Allocated : id = ingressStates[k] =>
           /\ state'[id].hash = state[id].hash /\ state'[id].pods = state[id].pods
           /\ state'[id].pendingCount = 0 <=> state[id].pendingCount = 0
           /\ \A t \in Targets : item'[id][t] \in AcceptedStates <=> item[id][t] \in AcceptedStates
  PROVE  ViewOf(k)' = ViewOf(k)
<1>1. CASE ingressStates[k] = None
  BY <1>1 DEF ViewOf
<1>2. CASE ingressStates[k] # None
  <2>1. PICK id \in Allocated : id = ingressStates[k]
    BY <1>2 DEF TypeOK
  <2>2. Missing(id)' = Missing(id)
    BY <2>1 DEF Missing
  <2>3. (state'[id].pendingCount = 0) = (state[id].pendingCount = 0)
    BY <2>1
  <2>4. ingressStates'[k] = id /\ state'[id].hash = state[id].hash
    BY <2>1
  <2>5. ViewOf(k) = [hash |-> state[id].hash, missing |-> Missing(id),
                     ready |-> state[id].pendingCount = 0]
    BY <1>2, <2>1 DEF ViewOf
  <2>6. ViewOf(k)' = [hash |-> state'[id].hash, missing |-> Missing(id)',
                      ready |-> state'[id].pendingCount = 0]
    BY <1>2, <2>1, <2>4 DEF ViewOf, Missing
  <2> QED
    BY <2>2, <2>3, <2>4, <2>5, <2>6
<1> QED
  BY <1>1, <1>2

\* Only the view of one key changes.
LEMMA OneViewChanges ==
  ASSUME NEW k \in Keys, \A l \in Keys : l # k => ViewOf(l)' = ViewOf(l)
  PROVE  ContractView' = [ContractView EXCEPT ![k] = ViewOf(k)']
<1>1. ContractView = [l \in Keys |-> ViewOf(l)] /\ ContractView' = [l \in Keys |-> ViewOf(l)']
  BY DEF ContractView, ViewOf
<1> QED
  BY <1>1

\* No view changes.
LEMMA NoViewChanges ==
  ASSUME \A k \in Keys : ViewOf(k)' = ViewOf(k)
  PROVE  UNCHANGED ContractView
BY DEF ContractView, ViewOf

\* Lookup forgets a key or changes nothing.
LEMMA LookupContract ==
  ASSUME IInv, NEW k \in Keys, NEW h \in Hashes, Lookup(k, h)
  PROVE  Contract!Next \/ UNCHANGED ContractView
<1>0. TypeOK
  BY DEF IInv
<1>1. CASE UNCHANGED <<ingressStates, state, item>>
  BY <1>1 DEF ContractView, Missing
<1>2. CASE ~UNCHANGED <<ingressStates, state, item>>
  <2>1. /\ ingressStates' = [ingressStates EXCEPT ![k] = None] /\ item' = item
        /\ state' = IF ingressStates[k] = None THEN state
                    ELSE [state EXCEPT ![ingressStates[k]].cancelled = TRUE]
    BY <1>2 DEF Lookup
  <2>2. ViewOf(k)' = None
    BY <1>0, <2>1 DEF ViewOf, TypeOK
  <2>3. ASSUME NEW l \in Keys, l # k PROVE ViewOf(l)' = ViewOf(l)
    <3>1. ingressStates'[l] = ingressStates[l]
      BY <1>0, <2>1, <2>3 DEF TypeOK
    <3>2. ASSUME NEW id \in Allocated, id = ingressStates[l] PROVE state'[id] = state[id]
      <4>1. id # None /\ id \in Ids
        BY NoneAssumption DEF Allocated
      <4>2. id # ingressStates[k]
        BY <2>3, <3>2, <4>1 DEF IInv, KeysInv, PublishedInv
      <4> QED
        BY <1>0, <2>1, <4>1, <4>2 DEF TypeOK
    <3> QED
      BY <1>0, <2>1, <3>1, <3>2, ViewFrame
  <2>4. ContractView' = [ContractView EXCEPT ![k] = None]
    BY <2>2, <2>3, OneViewChanges
  <2> QED
    BY <2>4 DEF Contract!Next, Contract!Forget
<1> QED
  BY <1>1, <1>2

\* Before it is published an ingressState shows in no view.
LEMMA UnseenContract ==
  ASSUME IInv, NEW k \in Keys,
         \/ ListFails(k)
         \/ \E id \in Ids, ips \in SUBSET (IPs \ lost) : ListProbeTargets(k, id, ips)
         \/ \E ip \in IPs : QueueItems(k, ip)
  PROVE  UNCHANGED ContractView
<1>0. TypeOK
  BY DEF IInv
<1> SUFFICES ASSUME NEW l \in Keys PROVE ViewOf(l)' = ViewOf(l)
  BY NoViewChanges
<1>1. ingressStates'[l] = ingressStates[l]
  BY DEF ListFails, ListProbeTargets, QueueItems
<1>2. ASSUME NEW id \in Allocated, id = ingressStates[l]
      PROVE  state'[id] = state[id] /\ item'[id] = item[id]
  <2>0. id \in Ids /\ id # None /\ state[id] # None
    BY NoneAssumption DEF Allocated
  <2>1. CASE ListFails(k)
    BY <2>1 DEF ListFails
  <2>2. ASSUME NEW j \in Ids, NEW ips, ListProbeTargets(k, j, ips)
        PROVE  state'[id] = state[id] /\ item'[id] = item[id]
    BY <1>0, <2>0, <2>2 DEF ListProbeTargets, TypeOK
  <2>3. ASSUME NEW ip \in IPs, QueueItems(k, ip)
        PROVE  state'[id] = state[id] /\ item'[id] = item[id]
    <3>1. id # call[k].id
      BY <1>2, <2>0, <2>3 DEF QueueItems, IInv, KeysInv, PublishedInv, QueueingInv
    <3> QED
      BY <1>0, <2>0, <2>3, <3>1 DEF QueueItems, TypeOK
  <2> QED
    BY <2>1, <2>2, <2>3
<1> QED
  BY <1>0, <1>1, <1>2, ViewFrame

\* Publish begins the probing of a hash; if it is over, nothing is missing.
LEMMA PublishContract ==
  ASSUME IInv, NEW k \in Keys, Publish(k)
  PROVE  Contract!Next
<1>0. TypeOK
  BY DEF IInv
<1>1. PICK id \in Allocated : id = call[k].id
  BY <1>0 DEF Publish, TypeOK
<1>2. id \in Ids /\ id # None /\ state[id] \in IngressStates
  BY <1>0, NoneAssumption DEF TypeOK, Allocated
<1>3. /\ ingressStates' = [ingressStates EXCEPT ![k] = id] /\ ingressStates[k] = None
      /\ UNCHANGED <<state, item>> /\ ~state[id].cancelled
  BY <1>1 DEF Publish, IInv, KeysInv, PublishedInv, QueueingInv
<1> DEFINE ready == state[id].pendingCount = 0
<1>4. /\ state[id].hash \in Hashes /\ Missing(id) \in SUBSET Targets /\ ready \in BOOLEAN
      /\ ready => Missing(id) = {}
  BY <1>2, <1>3, ZeroMeansAccepted DEF IngressStates, Missing
<1>5. ViewOf(k)' = [hash |-> state[id].hash, missing |-> Missing(id), ready |-> ready]
  <2>1. ingressStates'[k] = id /\ Missing(id)' = Missing(id)
    BY <1>0, <1>3 DEF TypeOK, Missing
  <2> QED
    BY <1>2, <1>3, <2>1 DEF ViewOf, Missing
<1>6. ASSUME NEW l \in Keys, l # k PROVE ViewOf(l)' = ViewOf(l)
  BY <1>0, <1>3, <1>6, ViewFrame DEF TypeOK
<1>7. ContractView[k] = None
  BY <1>3 DEF ContractView
<1>8. ContractView' = [ContractView EXCEPT ![k] =
                         [hash |-> state[id].hash, missing |-> Missing(id), ready |-> ready]]
  BY <1>5, <1>6, OneViewChanges
<1> HIDE DEF ready
<1>9. Contract!Begin(k, state[id].hash, Missing(id), ready)
  BY <1>4, <1>7, <1>8 DEF Contract!Begin
<1> QED
  BY <1>4, <1>9 DEF Contract!Next

\* Two keys never show the same ingressState.
LEMMA OneKeyPerState ==
  ASSUME IInv, NEW k \in Keys, NEW l \in Keys, ingressStates[k] # None,
         ingressStates[l] = ingressStates[k]
  PROVE  k = l
BY DEF IInv, KeysInv, PublishedInv

\* An accepted probe accepts a target of the contract if its ingressState is
\* published.
LEMMA ProbeAcceptedContract ==
  ASSUME IInv, NEW id \in Ids, NEW t \in Targets, ProbeAccepted(id, t)
  PROVE  Contract!Next \/ UNCHANGED ContractView
<1>0. TypeOK
  BY DEF IInv
<1>1. /\ UNCHANGED <<ingressStates, state>> /\ item' = [item EXCEPT ![id][t] = "accepted"]
      /\ item[id][t] = "pending"
  BY DEF ProbeAccepted, SetItem
<1>2. id \in Allocated /\ id # None
  BY <1>0, <1>1, NoneAssumption DEF TypeOK
<1>3. /\ item'[id][t] = "accepted" /\ \A s \in Targets : s # t => item'[id][s] = item[id][s]
      /\ \A j \in Ids : j # id => item'[j] = item[j]
  BY <1>0, <1>1 DEF TypeOK
<1>4. ASSUME NEW l \in Keys, ingressStates[l] # id PROVE ViewOf(l)' = ViewOf(l)
  BY <1>0, <1>1, <1>3, <1>4, ViewFrame DEF Allocated
<1>5. CASE \A l \in Keys : ingressStates[l] # id
  BY <1>4, <1>5, NoViewChanges
<1>6. ASSUME NEW k \in Keys, ingressStates[k] = id PROVE Contract!Next
  <2>1. \A l \in Keys : l # k => ViewOf(l)' = ViewOf(l)
    BY <1>2, <1>4, <1>6, OneKeyPerState
  <2>2. t \in Missing(id)
    <3>1. PICK ip \in IPs, u \in URLs : t = <<ip, u>>
      BY DEF Targets
    <3>2. PodInv(id, ip)
      BY DEF IInv, PodsInv
    <3>3. watcher[id][ip] # "none"
      BY <1>1, <3>1, <3>2 DEF PodInv
    <3>4. t[1] \in state[id].pods
      BY <3>1, <3>2, <3>3 DEF PodInv, Queued
    <3> QED
      BY <1>1, <3>4 DEF Missing, AcceptedStates
  <2>3. Missing(id)' = Missing(id) \ {t}
    BY <1>1, <1>3 DEF Missing, AcceptedStates
  <2> DEFINE ready == state[id].pendingCount = 0
  <2>4. /\ ViewOf(k) = [hash |-> state[id].hash, missing |-> Missing(id), ready |-> ready]
        /\ ViewOf(k)' = [hash |-> state[id].hash, missing |-> Missing(id) \ {t}, ready |-> ready]
    BY <1>1, <1>2, <1>6, <2>3 DEF ViewOf, Missing
  <2>r. ready \in BOOLEAN
    OBVIOUS
  <2> HIDE DEF ready
  <2>5. ContractView[k] = ViewOf(k)
    BY DEF ContractView, ViewOf
  <2>6. ViewOf(k) # None
    <3>1. state[id].hash \in Hashes /\ Missing(id) \in SUBSET Targets
      BY <1>0, <1>2 DEF TypeOK, Allocated, IngressStates, Missing
    <3> QED
      BY <2>4, <2>r, <3>1, NoneAssumption
  <2>7. ViewOf(k)' = [ViewOf(k) EXCEPT !.missing = ViewOf(k).missing \ {t}] /\ t \in ViewOf(k).missing
    BY <2>2, <2>4
  <2>8. ContractView' = [ContractView EXCEPT ![k] = ViewOf(k)']
    BY <2>1, OneViewChanges
  <2>9. Contract!Accept(k, t)
    BY <2>5, <2>6, <2>7, <2>8 DEF Contract!Accept
  <2> QED
    BY <2>9 DEF Contract!Next
<1> QED
  BY <1>5, <1>6

\* The last decrement makes a published ingressState ready, when nothing is
\* missing any more.
LEMMA IngressDecContract ==
  ASSUME IInv, NEW id \in Ids, NEW t \in Targets, IngressDec(id, t)
  PROVE  Contract!Next \/ UNCHANGED ContractView
<1>0. TypeOK /\ IInv'
  BY IngressDecInv DEF IInv
<1>1. /\ UNCHANGED ingressStates /\ DecPending(id)
      /\ item' = [item EXCEPT ![id][t] = AfterDec(id)] /\ item[id][t] = "dec"
  BY DEF IngressDec, SetItem
<1>2. id \in Allocated /\ id # None
  BY <1>0, <1>1, NoneAssumption DEF TypeOK
<1>3. /\ Allocated' = Allocated
      /\ state[id].pendingCount \in Int /\ state'[id].pendingCount = state[id].pendingCount - 1
      /\ \A j \in Allocated : /\ state'[j].hash = state[j].hash /\ state'[j].pods = state[j].pods
                              /\ state'[j].cancelled = state[j].cancelled
      /\ \A j \in Ids : j # id => state'[j] = state[j]
  BY <1>0, <1>1, <1>2, DecPendingType
<1>4. \A j \in Ids, s \in Targets : item'[j][s] \in AcceptedStates <=> item[j][s] \in AcceptedStates
  BY <1>0, <1>1 DEF TypeOK, AcceptedStates, AfterDec
<1>5. ASSUME NEW l \in Keys, ingressStates[l] # id PROVE ViewOf(l)' = ViewOf(l)
  BY <1>0, <1>1, <1>3, <1>4, <1>5, ViewFrame DEF Allocated
<1>6. CASE \A l \in Keys : ingressStates[l] # id
  BY <1>5, <1>6, NoViewChanges
<1>7. ASSUME NEW k \in Keys, ingressStates[k] = id PROVE Contract!Next \/ UNCHANGED ContractView
  <2>1. \A l \in Keys : l # k => ViewOf(l)' = ViewOf(l)
    BY <1>2, <1>5, <1>7, OneKeyPerState
  <2>2. state'[id].pendingCount \in Nat
    <3>1. id \in Allocated' /\ TypeOK' /\ PendingCountsPods'
      BY <1>0, <1>2, <1>3 DEF IInv
    <3>2. CountsNat'
      BY <3>1, CountsAreNat, PTL
    <3> QED
      BY <3>1, <3>2 DEF CountsNat
  <2>3. CASE state'[id].pendingCount # 0
    <3>1. ViewOf(k)' = ViewOf(k)
      BY <1>0, <1>1, <1>3, <1>4, <2>2, <2>3, ViewFrame DEF Allocated
    <3> QED
      BY <2>1, <3>1, NoViewChanges
  <2>4. CASE state'[id].pendingCount = 0
    <3>1. Missing(id) = {} /\ Missing(id)' = {}
      <4>1. Missing(id)' = Missing(id)
        BY <1>2, <1>3, <1>4 DEF Missing
      <4>2. ~state'[id].cancelled
        BY <1>2, <1>3, <1>7 DEF IInv, KeysInv, PublishedInv
      <4>3. Missing(id)' = {}
        <5>1. ZeroAccepted'
          BY <1>0, ZerosMeanAccepted, PTL
        <5> QED
          BY <1>2, <1>3, <2>4, <4>2, <5>1 DEF ZeroAccepted
      <4> QED
        BY <4>1, <4>3
    <3> DEFINE before == state[id].pendingCount = 0
               after == state'[id].pendingCount = 0
    <3>a. before \in BOOLEAN /\ after = TRUE
      BY <2>4
    <3>2. /\ ViewOf(k) = [hash |-> state[id].hash, missing |-> {}, ready |-> before]
          /\ ViewOf(k)' = [hash |-> state[id].hash, missing |-> {}, ready |-> after]
      <4>1. ViewOf(k) = [hash |-> state[id].hash, missing |-> Missing(id), ready |-> before]
        BY <1>2, <1>7 DEF ViewOf
      <4>2. ViewOf(k)' = [hash |-> state'[id].hash, missing |-> Missing(id)', ready |-> after]
        BY <1>1, <1>2, <1>7 DEF ViewOf, Missing
      <4>3. state'[id].hash = state[id].hash
        BY <1>2, <1>3
      <4> HIDE DEF before, after
      <4> QED
        BY <3>1, <4>1, <4>2, <4>3
    <3> HIDE DEF before, after
    <3>3. ContractView[k] = ViewOf(k)
      BY DEF ContractView, ViewOf
    <3>4. ViewOf(k) # None
      <4>1. state[id].hash \in Hashes
        BY <1>0, <1>2 DEF TypeOK, Allocated, IngressStates
      <4> QED
        BY <3>a, <3>2, <4>1, NoneAssumption
    <3>5. ViewOf(k)' = [ViewOf(k) EXCEPT !.ready = TRUE] /\ ViewOf(k).missing = {}
      <4>1. \A h, b, c : [[hash |-> h, missing |-> {}, ready |-> b] EXCEPT !.ready = c]
                          = [hash |-> h, missing |-> {}, ready |-> c]
        OBVIOUS
      <4>2. ViewOf(k)' = [ViewOf(k) EXCEPT !.ready = after] /\ ViewOf(k).missing = {}
        BY <3>2, <4>1
      <4> QED
        BY <3>a, <4>2, Zenon
    <3>6. ContractView' = [ContractView EXCEPT ![k] = ViewOf(k)']
      BY <2>1, OneViewChanges
    <3>7. Contract!BecomeReady(k)
      BY <3>3, <3>4, <3>5, <3>6 DEF Contract!BecomeReady
    <3> QED
      BY <3>7 DEF Contract!Next
  <2> QED
    BY <2>3, <2>4
<1> QED
  BY <1>6, <1>7

\* The other steps of workers and goroutines show in no view: they move no item
\* between accepted and not, and count down only ingressStates that were
\* cancelled, which are not published.
LEMMA HiddenContract ==
  ASSUME IInv, NEW id \in Ids,
         \/ \E t \in Targets : ProbeDropped(id, t) \/ PodDec(id, t) \/ ItemCallback(id, t)
         \/ \E ip \in IPs : WatcherStep(id, ip)
  PROVE  UNCHANGED ContractView
<1>0. TypeOK
  BY DEF IInv
<1> SUFFICES ASSUME NEW l \in Keys PROVE ViewOf(l)' = ViewOf(l)
  BY NoViewChanges
<1>1. ASSUME NEW t \in Targets, ProbeDropped(id, t) \/ PodDec(id, t) \/ ItemCallback(id, t)
      PROVE  ViewOf(l)' = ViewOf(l)
  <2>1. UNCHANGED <<ingressStates, state>>
    BY <1>1 DEF ProbeDropped, PodDec, ItemCallback
  <2>2. \A j \in Ids, s \in Targets : item'[j][s] \in AcceptedStates <=> item[j][s] \in AcceptedStates
    <3>1. \E pc : /\ item' = [item EXCEPT ![id][t] = pc]
                  /\ pc \in AcceptedStates <=> item[id][t] \in AcceptedStates
      BY <1>1 DEF ProbeDropped, PodDec, ItemCallback, SetItem, AcceptedStates
    <3> QED
      BY <1>0, <3>1 DEF TypeOK
  <2> QED
    BY <1>0, <2>1, <2>2, ViewFrame DEF Allocated
<1>2. ASSUME NEW ip \in IPs, WatcherLoad(id, ip) \/ WatcherCAS(id, ip) \/ WatcherCallback(id, ip)
      PROVE  ViewOf(l)' = ViewOf(l)
  <2>1. UNCHANGED <<ingressStates, state, item>>
    BY <1>2 DEF WatcherLoad, WatcherCAS, WatcherCallback
  <2> QED
    BY <1>0, <2>1, ViewFrame
<1>3. ASSUME NEW ip \in IPs, WatcherDec(id, ip)
      PROVE  ViewOf(l)' = ViewOf(l)
  <2>1. UNCHANGED <<ingressStates, item>> /\ DecPending(id) /\ watcher[id][ip] = "dec"
    BY <1>3 DEF WatcherDec
  <2>2. id \in Allocated /\ id # None
    BY <1>0, <2>1, NoneAssumption DEF TypeOK
  <2>3. \A j \in Ids : j # id => state'[j] = state[j]
    BY <1>0, <2>1, <2>2, DecPendingType
  <2>4. state[id].cancelled
    BY <2>1 DEF IInv, PodsInv, PodInv, Queued, Owning
  <2>5. ingressStates[l] # id
    BY <2>2, <2>4 DEF IInv, KeysInv, PublishedInv
  <2> QED
    BY <1>0, <2>1, <2>3, <2>5, ViewFrame DEF Allocated
<1> QED
  BY <1>1, <1>2, <1>3 DEF WatcherStep

\* The prober implements the contract the reconciler relies on: Ready only once
\* every target has been accepted, and for good until another hash comes.
THEOREM ImplementsContractHolds == Spec => ImplementsContract
<1>1. Init => Contract!Init
  BY DEF Init, Contract!Init, ContractView
<1>2. IInv /\ [Next]_vars => [Contract!Next]_ContractView
  <2> SUFFICES ASSUME IInv, [Next]_vars PROVE Contract!Next \/ UNCHANGED ContractView
    OBVIOUS
  <2>1. ASSUME NEW k \in Keys, CallStep(k) PROVE Contract!Next \/ UNCHANGED ContractView
    BY <2>1, UnseenContract, PublishContract DEF CallStep
  <2>2. ASSUME NEW id \in Ids, NEW t \in Targets, ItemStep(id, t)
        PROVE  Contract!Next \/ UNCHANGED ContractView
    BY <2>2, ProbeAcceptedContract, IngressDecContract, HiddenContract DEF ItemStep
  <2>3. ASSUME NEW id \in Ids, NEW ip \in IPs, WatcherStep(id, ip)
        PROVE  Contract!Next \/ UNCHANGED ContractView
    BY <2>3, HiddenContract
  <2>4. ASSUME NEW ip \in IPs, PodDisappears(ip) PROVE UNCHANGED ContractView
    BY <2>4 DEF PodDisappears, ContractView, Missing
  <2>5. CASE UNCHANGED vars
    BY <2>5 DEF vars, ContractView, Missing
  <2> QED
    BY <2>1, <2>2, <2>3, <2>4, <2>5, LookupContract DEF Next
<1> QED
  BY <1>1, <1>2, Invariant, PTL DEF Spec, ImplementsContract, Contract!Spec

=============================================================================
