------------------------ MODULE GatewayConfigProofs ------------------------
(***************************************************************************)
(* Proofs about GatewayConfig, for any contents of the two ConfigMaps and  *)
(* any number of edits and crashes.                                        *)
(***************************************************************************)
EXTENDS GatewayConfig, TLAPS

\* Beyond TypeOK: a ConfigMap has at most one version more than it has had edits.
TypeInv ==
  /\ TypeOK
  /\ \A n \in Names : Len(cm[n]) <= edits + 1

\* What may be queued: TypeOK's set of notifications.
Queue == Notifications("config-gateway") \cup Notifications("config-network")

\* The two facts a load rests on: a handler that has returned, or waits for its
\* callbacks, has left a value in the store of a process that still lives; and a
\* stored gateway configuration has passed every check of the constructor.
StoredInv ==
  /\ pc # "dead" => /\ \A n \in called : storage[n] # None
                    /\ storing # None => storage[storing] # None
  /\ pc = "run" => called = Names

GoodGateway(c) ==
  \A vis \in Visibilities : vis \in DOMAIN c /\ ValidEntry(c[vis])

GoodInv ==
  storage["config-gateway"] # None => GoodGateway(storage["config-gateway"])

CompleteInv == TypeInv /\ StoredInv /\ GoodInv /\ LoadedIsComplete

-----------------------------------------------------------------------------

\* The error-free split of a token of a namespace and a name.
LEMMA TokenSplits ==
  ASSUME NEW ns, NEW nm
  PROVE  SplitMetaNamespaceKey(<<ns, nm>>) = [namespace |-> ns, name |-> nm]
BY DEF SplitMetaNamespaceKey

\* Whatever NewGatewayFromConfigMap accepts has a valid entry for both
\* visibilities; the defaults it falls back to are valid too.
LEMMA ConstructedIsGood ==
  ASSUME NEW data, NewGatewayFromConfigMap(data) # None
  PROVE  GoodGateway(NewGatewayFromConfigMap(data))
<1>1. GoodGateway(Defaults)
  <2> DEFINE Given == {"knative-gateway", "knative-local-gateway", "istio-ingressgateway"}
  <2>1. ASSUME NEW gw \in Given, NEW svc \in Given
        PROVE  ValidEntry(Entry("istio", <<"istio-system", gw>>, <<"istio-system", svc>>))
    <3>1. /\ SplitMetaNamespaceKey(<<"istio-system", gw>>) # None
          /\ SplitMetaNamespaceKey(<<"istio-system", svc>>) # None
      BY TokenSplits, NoneAssumption
    <3> QED
      BY <3>1 DEF Entry, ValidEntry
  <2>2. /\ Defaults["ExternalIP"] = Entry("istio", <<"istio-system", "knative-gateway">>,
                                          <<"istio-system", "istio-ingressgateway">>)
        /\ Defaults["ClusterLocal"] = Entry("istio", <<"istio-system", "knative-local-gateway">>,
                                            <<"istio-system", "knative-local-gateway">>)
    BY DEF Defaults
  <2>3. DOMAIN Defaults = Visibilities
    BY DEF Defaults, Visibilities
  <2> QED
    BY <2>1, <2>2, <2>3 DEF GoodGateway, Visibilities
<1>2. ASSUME data.key # "missing"
      PROVE  /\ NewGatewayFromConfigMap(data) = data.entries
             /\ GoodGateway(data.entries)
  BY <1>2 DEF NewGatewayFromConfigMap, GoodGateway
<1> QED
  BY <1>1, <1>2 DEF NewGatewayFromConfigMap

-----------------------------------------------------------------------------
(* Types. *)

\* A notification is of one ConfigMap and carries content of it, or none.
LEMMA QueueHolds ==
  /\ \A e \in Queue : e[1] \in Names /\ e[2] \in Contents(e[1]) \cup {None}
  /\ \A n \in Names : \A d : d \in Contents(n) \cup {None} => <<n, d>> \in Queue
BY DEF Queue, Notifications, Names

\* A store that takes one more parsed value is a configuration still.
LEMMA StoreKeepsType ==
  ASSUME NEW c, Config(c), NEW n \in Names, NEW data \in Contents(n)
  PROVE  Config([c EXCEPT ![n] = Construct(n, data)])
<1>1. Construct(n, data) \in Values(n)
  BY DEF Values
<1> DEFINE d == [c EXCEPT ![n] = Construct(n, data)]
<1>2. c = [m \in Names |-> c[m]] /\ \A m \in Names : c[m] \in Values(m)
  BY DEF Config
<1>3. \A m \in Names : d[m] = IF m = n THEN Construct(n, data) ELSE c[m]
  BY <1>2
<1>4. d = [m \in Names |-> d[m]]
  BY <1>2
<1> HIDE DEF d
<1>5. \A m \in Names : d[m] \in Values(m)
  BY <1>1, <1>2, <1>3
<1> QED
  BY <1>4, <1>5 DEF Config, d

\* Before the first value the store holds nil for both names.
LEMMA EmptyStoreType == Config([n \in Names |-> None])
BY DEF Config, Values

\* A log within the count of edits is within the bound.
LEMMA LengthBounds ==
  ASSUME NEW l, NEW e \in 0..MaxEdits, l \in 1..(e + 1)
  PROVE  l \in 1..(MaxEdits + 1) /\ l <= e + 1
BY BoundsAssumption

\* A process that has just been created has the types.
LEMMA InitType == Init => TypeInv
<1> SUFFICES ASSUME Init PROVE TypeInv
  OBVIOUS
<1> PICK g \in GatewayContents, w \in NetworkContents :
      cm = [n \in Names |-> IF n = "config-gateway" THEN <<g>> ELSE <<w>>]
  BY DEF Init
<1>1. cm = [n \in Names |-> cm[n]]
  OBVIOUS
<1>2. ASSUME NEW n \in Names
      PROVE  cm[n] \in Seq(Contents(n) \cup {None}) /\ Len(cm[n]) = 1
  <2>1. CASE n = "config-gateway"
    BY <2>1 DEF Contents
  <2>2. CASE n # "config-gateway"
    BY <2>2 DEF Contents
  <2> QED
    BY <2>1, <2>2
<1>3. edits = 0 /\ crashes = 0 /\ 0 \in 0..MaxEdits /\ 0 \in 0..MaxCrashes
  BY BoundsAssumption DEF Init
<1>4. \A n \in Names : Len(cm[n]) \in 1..(MaxEdits + 1) /\ Len(cm[n]) <= edits + 1
  BY <1>2, <1>3, BoundsAssumption
<1>5. Config(storage) /\ loaded = None /\ applied = None
  BY EmptyStoreType DEF Init
<1>6. /\ pc \in {"start", "check", "wait", "run", "dead"} /\ called \subseteq Names
      /\ storing \in Names \cup {None} /\ resync \in BOOLEAN
  BY DEF Init
<1>7. events \in Seq(Queue)
  BY DEF Init
<1> QED
  BY <1>1, <1>2, <1>3, <1>4, <1>5, <1>6, <1>7 DEF TypeInv, TypeOK, Queue

\* An edit adds a version; the log grows with the count of edits.
LEMMA EditType ==
  ASSUME TypeInv, NEW n \in Names, NEW data \in Contents(n) \cup {None}, Edit(n, data)
  PROVE  TypeInv'
<1>1. /\ cm' = [cm EXCEPT ![n] = Append(@, data)] /\ edits < MaxEdits /\ edits' = edits + 1
      /\ UNCHANGED <<pc, events, called, storage, storing, resync, loaded, applied, crashes>>
  BY DEF Edit
<1>2. cm = [m \in Names |-> cm[m]]
  BY DEF TypeInv, TypeOK
<1>3. /\ cm' = [m \in Names |-> cm'[m]]
      /\ \A m \in Names : cm'[m] = IF m = n THEN Append(cm[m], data) ELSE cm[m]
  BY <1>1, <1>2
<1>4. edits' \in 0..MaxEdits
  BY <1>1, BoundsAssumption DEF TypeInv, TypeOK
<1>5. ASSUME NEW m \in Names
      PROVE  cm'[m] \in Seq(Contents(m) \cup {None}) /\ Len(cm'[m]) \in 1..(edits' + 1)
  <2>1. /\ cm[m] \in Seq(Contents(m) \cup {None}) /\ Len(cm[m]) \in 1..(edits + 1)
    BY DEF TypeInv, TypeOK
  <2>2. edits \in Nat
    BY BoundsAssumption DEF TypeInv, TypeOK
  <2> QED
    BY <1>1, <1>3, <2>1, <2>2
<1>6. \A m \in Names : Len(cm'[m]) \in 1..(MaxEdits + 1) /\ Len(cm'[m]) <= edits' + 1
  BY <1>4, <1>5, LengthBounds
<1> QED
  BY <1>1, <1>3, <1>4, <1>5, <1>6 DEF TypeInv, TypeOK, Config

\* An event or a list drops old versions, and may queue a notification.
LEMMA DropType ==
  ASSUME TypeInv, NEW n \in Names, NEW k \in 2..Len(cm[n]),
         cm' = [cm EXCEPT ![n] = SubSeq(cm[n], k, Len(cm[n]))],
         events' = events \/ events' = Append(events, <<n, cm[n][k]>>),
         UNCHANGED <<pc, called, storage, storing, resync, loaded, applied, edits, crashes>>
  PROVE  TypeInv'
<1>1. /\ cm[n] \in Seq(Contents(n) \cup {None}) /\ Len(cm[n]) \in 1..(edits + 1) /\ edits \in Nat
      /\ cm = [m \in Names |-> cm[m]]
  BY BoundsAssumption DEF TypeInv, TypeOK
<1>2. /\ SubSeq(cm[n], k, Len(cm[n])) \in Seq(Contents(n) \cup {None})
      /\ Len(SubSeq(cm[n], k, Len(cm[n]))) \in 1..(edits + 1)
  BY <1>1
<1>3. /\ cm' = [m \in Names |-> cm'[m]]
      /\ \A m \in Names : cm'[m] = IF m = n THEN SubSeq(cm[n], k, Len(cm[n])) ELSE cm[m]
  BY <1>1
<1>4. ASSUME NEW m \in Names
      PROVE  /\ cm'[m] \in Seq(Contents(m) \cup {None})
             /\ Len(cm'[m]) \in 1..(edits' + 1)
  <2>1. CASE m = n
    BY <1>2, <1>3, <2>1
  <2>2. CASE m # n
    <3>1. cm'[m] = cm[m]
      BY <1>3, <2>2
    <3>2. cm[m] \in Seq(Contents(m) \cup {None}) /\ Len(cm[m]) \in 1..(edits + 1)
      BY <1>1 DEF TypeInv, TypeOK
    <3> QED
      BY <3>1, <3>2
  <2> QED
    BY <2>1, <2>2
<1>5. <<n, cm[n][k]>> \in Queue
  <2>1. cm[n][k] \in Contents(n) \cup {None}
    BY <1>1
  <2> QED
    BY <2>1, QueueHolds
<1>6. events' \in Seq(Queue)
  <2>1. events \in Seq(Queue)
    BY DEF TypeInv, TypeOK, Queue
  <2>2. \A x \in Queue : Append(events, x) \in Seq(Queue)
    BY <2>1
  <2> QED
    BY <1>5, <2>1, <2>2
<1>7. \A m \in Names : Len(cm'[m]) \in 1..(MaxEdits + 1) /\ Len(cm'[m]) <= edits' + 1
  <2>1. edits' \in 0..MaxEdits
    BY DEF TypeInv, TypeOK
  <2> QED
    BY <1>4, <2>1, LengthBounds
<1> QED
  BY <1>3, <1>4, <1>6, <1>7 DEF TypeInv, TypeOK, Config, Queue

\* The initial list leaves one version of each and queues at most one Add each.
LEMMA InitialListType ==
  ASSUME TypeInv, InitialList
  PROVE  TypeInv'
<1>0. /\ cm' = [n \in Names |-> <<Latest(cm[n])>>] /\ pc' = "check"
      /\ UNCHANGED <<called, storage, storing, resync, loaded, applied, edits, crashes>>
  BY DEF InitialList
<1>1. ASSUME NEW m \in Names PROVE Latest(cm[m]) \in Contents(m) \cup {None}
  <2>1. cm[m] \in Seq(Contents(m) \cup {None}) /\ Len(cm[m]) >= 1
    BY DEF TypeInv, TypeOK
  <2> QED
    BY <2>1 DEF Latest
<1>2. /\ cm' = [n \in Names |-> cm'[n]]
      /\ \A m \in Names : cm'[m] = <<Latest(cm[m])>>
  BY <1>0
<1>3. ASSUME NEW m \in Names
      PROVE  cm'[m] \in Seq(Contents(m) \cup {None}) /\ Len(cm'[m]) = 1
  <2>1. \A S, x : x \in S => <<x>> \in Seq(S) /\ Len(<<x>>) = 1
    OBVIOUS
  <2>2. <<Latest(cm[m])>> \in Seq(Contents(m) \cup {None}) /\ Len(<<Latest(cm[m])>>) = 1
    BY <1>1, <2>1
  <2>3. cm'[m] = <<Latest(cm[m])>>
    BY <1>2
  <2> QED
    BY <2>2, <2>3
<1>4. events' \in Seq(Queue)
  <2> DEFINE Added(m) == IF Latest(cm[m]) = None THEN << >> ELSE <<<<m, Latest(cm[m])>>>>
  <2>1. ASSUME NEW m \in Names PROVE Added(m) \in Seq(Queue)
    <3>1. <<m, Latest(cm[m])>> \in Queue
      BY <1>1, QueueHolds
    <3>2. \A x \in Queue : <<x>> \in Seq(Queue)
      OBVIOUS
    <3>3. CASE Latest(cm[m]) = None
      BY <3>3
    <3>4. CASE Latest(cm[m]) # None
      <4>1. Added(m) = <<<<m, Latest(cm[m])>>>>
        BY <3>4
      <4> HIDE DEF Added
      <4> QED
        BY <4>1, <3>1, <3>2
    <3> QED
      BY <3>3, <3>4
  <2>2. Added("config-gateway") \in Seq(Queue) /\ Added("config-network") \in Seq(Queue)
    BY <2>1 DEF Names
  <2>3. events' \in {Added("config-gateway") \o Added("config-network"),
                    Added("config-network") \o Added("config-gateway")}
    BY DEF InitialList
  <2> HIDE DEF Added
  <2>4. \A s, t \in Seq(Queue) : s \o t \in Seq(Queue)
    OBVIOUS
  <2> QED
    BY <2>2, <2>3, <2>4
<1>5. edits' \in 0..MaxEdits
  BY <1>0 DEF TypeInv, TypeOK
<1>6. \A m \in Names : Len(cm'[m]) \in 1..(MaxEdits + 1) /\ Len(cm'[m]) <= edits' + 1
  <2>0. edits' \in Nat
    BY <1>5, BoundsAssumption
  <2>1. \A e \in Nat : 1 \in 1..(e + 1)
    OBVIOUS
  <2>2. \A m \in Names : Len(cm'[m]) \in 1..(edits' + 1)
    BY <1>3, <2>0, <2>1
  <2> QED
    BY <1>5, <2>2, LengthBounds
<1> QED
  BY <1>0, <1>2, <1>3, <1>4, <1>5, <1>6 DEF TypeInv, TypeOK, Config, Queue

\* A handler takes the notification at the head of the queue.
LEMMA HandlerType ==
  ASSUME TypeInv, OnConfigChanged \/ DeleteConfigMapEvent
  PROVE  TypeInv'
<1> DEFINE n == Head(events)[1]
           data == Head(events)[2]
<1>1. events \in Seq(Queue) /\ events # << >> /\ events' = Tail(events)
  BY DEF TypeInv, TypeOK, OnConfigChanged, DeleteConfigMapEvent, Queue
<1>2. Head(events) \in Queue /\ events' \in Seq(Queue)
  BY <1>1
<1>3. n \in Names /\ data \in Contents(n) \cup {None}
  BY <1>2, QueueHolds
<1>4. /\ pc' \in {"start", "check", "wait", "run", "dead"}
      /\ called' \subseteq Names
      /\ storing' \in Names \cup {None}
  BY <1>3 DEF TypeInv, TypeOK, OnConfigChanged, DeleteConfigMapEvent, Die
<1>5. Config(storage')
  <2>1. Config(storage)
    BY DEF TypeInv, TypeOK
  <2>2. \/ storage' = storage
        \/ data # None /\ storage' = [storage EXCEPT ![n] = Construct(n, data)]
    BY DEF OnConfigChanged, DeleteConfigMapEvent
  <2> HIDE DEF n, data
  <2> QED
    BY <1>3, <2>1, <2>2, StoreKeepsType
<1>6. /\ UNCHANGED <<cm, resync, edits, crashes, applied>>
      /\ loaded' = None \/ loaded' = loaded
  BY DEF OnConfigChanged, DeleteConfigMapEvent, Die
<1> HIDE DEF n, data
<1> QED
  BY <1>2, <1>4, <1>5, <1>6 DEF TypeInv, TypeOK, Config, Queue

\* Every step keeps the types.
LEMMA NextType == TypeInv /\ [Next]_vars => TypeInv'
<1> SUFFICES ASSUME TypeInv, [Next]_vars PROVE TypeInv'
  OBVIOUS
<1>1. ASSUME NEW n \in Names, DeleteConfigMap(n) \/ \E data \in Contents(n) : SetConfigMap(n, data)
      PROVE  TypeInv'
  BY <1>1, EditType DEF DeleteConfigMap, SetConfigMap
<1>2. ASSUME NEW n \in Names, WatchEvent(n) PROVE TypeInv'
  <2>1. cm[n] \in Seq(Contents(n) \cup {None}) /\ Len(cm[n]) > 1
    BY <1>2 DEF TypeInv, TypeOK, WatchEvent
  <2>2. Tail(cm[n]) = SubSeq(cm[n], 2, Len(cm[n])) /\ 2 \in 2..Len(cm[n])
    BY <2>1
  <2>3. cm' = [cm EXCEPT ![n] = SubSeq(cm[n], 2, Len(cm[n]))]
    BY <1>2, <2>2 DEF WatchEvent
  <2> QED
    BY <1>2, <2>2, <2>3, DropType DEF WatchEvent
<1>3. ASSUME NEW n \in Names, NEW k \in 2..Len(cm[n]), Relist(n, k) PROVE TypeInv'
  BY <1>3, DropType DEF Relist
<1>4. CASE InitialList
  BY <1>4, InitialListType
<1>5. CASE CheckObservedResourcesExist
  BY <1>5 DEF CheckObservedResourcesExist, Die, TypeInv, TypeOK, Config
<1>6. CASE WaitForAllKeys
  BY <1>6 DEF WaitForAllKeys, TypeInv, TypeOK, Config
<1>7. CASE Crash
  BY <1>7, BoundsAssumption DEF Crash, Die, TypeInv, TypeOK, Config
<1>8. CASE Restart
  <2>1. events' \in Seq(Queue) /\ Config(storage')
    BY <1>8, EmptyStoreType DEF Restart
  <2> QED
    BY <1>8, <2>1 DEF Restart, TypeInv, TypeOK, Config, Queue
<1>9. CASE OnConfigChanged \/ DeleteConfigMapEvent
  BY <1>9, HandlerType
<1>10. CASE OnAfterStore
  BY <1>10 DEF OnAfterStore, TypeInv, TypeOK, Config
<1>11. CASE Load \/ Finish
  BY <1>11 DEF Load, Finish, TypeInv, TypeOK, Config
<1>12. CASE UNCHANGED vars
  BY <1>12 DEF vars, TypeInv, TypeOK, Config
<1> QED
  BY <1>1, <1>2, <1>3, <1>4, <1>5, <1>6, <1>7, <1>8, <1>9, <1>10, <1>11, <1>12 DEF Next

\* The variables keep their types whatever the ConfigMaps hold: every version and
\* notification is content of its own ConfigMap, and what the process stores,
\* loads and applies never is anything but the parse of such content.
THEOREM ConfigTypeCorrect == Spec => []TypeOK
<1>1. Spec => []TypeInv
  BY InitType, NextType, PTL DEF Spec
<1>2. TypeInv => TypeOK
  BY DEF TypeInv
<1> QED
  BY <1>1, <1>2, PTL

-----------------------------------------------------------------------------
(* What a reconcile loads. *)

\* Both facts about the store give what LoadedIsComplete asks of a copy of it.
LEMMA StoreIsComplete ==
  ASSUME TypeInv, StoredInv, GoodInv, pc = "run"
  PROVE  /\ \A n \in Names : storage[n] # None
         /\ \A vis \in Visibilities :
              LET c == storage["config-gateway"] IN
              /\ LookupGatewayClass(c, vis) # ""
              /\ vis \in DOMAIN c
              /\ SplitMetaNamespaceKey(LookupGateway(c, vis)) # None
              /\ SplitMetaNamespaceKey(LookupService(c, vis)) # None
<1>1. \A n \in Names : storage[n] # None
  BY DEF StoredInv
<1>2. GoodGateway(storage["config-gateway"])
  BY <1>1 DEF GoodInv, Names
<1> QED
  BY <1>1, <1>2 DEF GoodGateway, ValidEntry, LookupGatewayClass, LookupGateway, LookupService

\* OnConfigChanged either stores a value the constructor accepted, or leaves
\* the store alone and reports a name that has a value or the process dies.
LEMMA OnConfigChangedKeeps ==
  ASSUME CompleteInv, OnConfigChanged
  PROVE  StoredInv' /\ GoodInv' /\ LoadedIsComplete'
<1> DEFINE n == Head(events)[1]
           value == Construct(n, Head(events)[2])
<1>1. n \in Names
  <2>1. events \in Seq(Queue) /\ events # << >>
    BY DEF CompleteInv, TypeInv, TypeOK, OnConfigChanged, Queue
  <2>2. Head(events) \in Queue
    BY <2>1
  <2> QED
    BY <2>2, QueueHolds
<1>2. /\ storage = [m \in Names |-> storage[m]] /\ called \subseteq Names
      /\ storing = None /\ pc \in {"check", "wait", "run"}
  BY DEF CompleteInv, TypeInv, TypeOK, OnConfigChanged, Config
<1>3. CASE value # None
  <2>1. storage' = [storage EXCEPT ![n] = value] /\ storing' = n
        /\ UNCHANGED <<pc, loaded, called>>
    BY <1>3 DEF OnConfigChanged
  <2>2. \A m \in Names : storage'[m] = IF m = n THEN value ELSE storage[m]
    BY <1>2, <2>1
  <2>3. n = "config-gateway" => GoodGateway(value)
    BY <1>3, ConstructedIsGood DEF Construct
  <2> HIDE DEF n, value
  <2>4. StoredInv'
    BY <1>1, <1>2, <1>3, <2>1, <2>2 DEF CompleteInv, StoredInv
  <2>5. "config-gateway" \in Names
    BY DEF Names
  <2>6. storage'["config-gateway"] = IF "config-gateway" = n THEN value ELSE storage["config-gateway"]
    BY <2>2, <2>5
  <2>7. GoodInv'
    BY <2>3, <2>6 DEF CompleteInv, GoodInv
  <2> QED
    BY <2>1, <2>4, <2>7 DEF CompleteInv, LoadedIsComplete
<1>4. CASE value = None
  <2>1. /\ UNCHANGED <<storage, storing>>
        /\ called' = called \cup {n}
        /\ IF storage[n] = None THEN pc' = "dead" /\ loaded' = None ELSE UNCHANGED <<pc, loaded>>
    BY <1>4 DEF OnConfigChanged, Die
  <2> HIDE DEF n, value
  <2>2. StoredInv'
    BY <1>1, <1>2, <2>1 DEF CompleteInv, StoredInv
  <2> QED
    BY <2>1, <2>2 DEF CompleteInv, GoodInv, LoadedIsComplete
<1> QED
  BY <1>3, <1>4

\* Every step keeps what LoadedIsComplete rests on.
LEMMA NextComplete == CompleteInv /\ [Next]_vars => CompleteInv'
<1> SUFFICES ASSUME CompleteInv, [Next]_vars PROVE CompleteInv'
  OBVIOUS
<1>0. TypeInv'
  BY NextType DEF CompleteInv
<1>1. ASSUME UNCHANGED <<pc, called, storage, storing, loaded>>
      PROVE  CompleteInv'
  BY <1>0, <1>1 DEF CompleteInv, StoredInv, GoodInv, LoadedIsComplete
<1>2. ASSUME NEW n \in Names, DeleteConfigMap(n) \/ \E data \in Contents(n) : SetConfigMap(n, data)
      PROVE  CompleteInv'
  BY <1>1, <1>2 DEF DeleteConfigMap, SetConfigMap, Edit
<1>3. ASSUME NEW n \in Names, WatchEvent(n) \/ \E k \in 2..Len(cm[n]) : Relist(n, k)
      PROVE  CompleteInv'
  BY <1>1, <1>3 DEF WatchEvent, Relist
<1>4. CASE InitialList \/ CheckObservedResourcesExist
  BY <1>0, <1>4 DEF InitialList, CheckObservedResourcesExist, Die, CompleteInv, StoredInv,
     GoodInv, LoadedIsComplete
<1>5. CASE WaitForAllKeys
  BY <1>0, <1>5 DEF WaitForAllKeys, CompleteInv, StoredInv, GoodInv, LoadedIsComplete
<1>6. CASE Crash \/ DeleteConfigMapEvent
  BY <1>0, <1>6 DEF Crash, DeleteConfigMapEvent, Die, CompleteInv, StoredInv, GoodInv,
     LoadedIsComplete
<1>7. CASE Restart
  BY <1>0, <1>7 DEF Restart, CompleteInv, StoredInv, GoodInv, LoadedIsComplete, Names
<1>8. CASE OnConfigChanged
  BY <1>0, <1>8, OnConfigChangedKeeps DEF CompleteInv
<1>9. CASE OnAfterStore
  BY <1>0, <1>9 DEF OnAfterStore, CompleteInv, StoredInv, GoodInv, LoadedIsComplete, TypeInv, TypeOK
<1>10. CASE Load
  <2>1. pc = "run" /\ loaded' = storage /\ UNCHANGED <<pc, called, storage, storing>>
    BY <1>10 DEF Load
  <2>2. LoadedIsComplete'
    BY <2>1, StoreIsComplete DEF CompleteInv, LoadedIsComplete
  <2> QED
    BY <1>0, <2>1, <2>2 DEF CompleteInv, StoredInv, GoodInv
<1>11. CASE Finish
  BY <1>0, <1>11 DEF Finish, CompleteInv, StoredInv, GoodInv, LoadedIsComplete
<1>12. CASE UNCHANGED vars
  BY <1>1, <1>12 DEF vars
<1> QED
  BY <1>2, <1>3, <1>4, <1>5, <1>6, <1>7, <1>8, <1>9, <1>10, <1>11, <1>12 DEF Next

\* No reconcile ever loads a missing or half-made configuration, so the type
\* assertions of Store.Load and the ignored errors of SplitMetaNamespaceKey are
\* safe, whatever users write to the ConfigMaps and whenever the process dies.
THEOREM LoadsComplete == Spec => []LoadedIsComplete
<1>1. Init => CompleteInv
  BY InitType DEF Init, CompleteInv, StoredInv, GoodInv, LoadedIsComplete, Names
<1>2. CompleteInv => LoadedIsComplete
  BY DEF CompleteInv
<1> QED
  BY <1>1, <1>2, NextComplete, PTL DEF Spec

-----------------------------------------------------------------------------
(* No change is lost. *)

Alive == pc \in {"check", "wait", "run"}

\* The cached version of n was told last of all that is queued of n, or is told
\* of already and stored if it parses.
ToldLast(n) ==
  \E i \in DOMAIN events :
    /\ events[i] = <<n, Cached(cm[n])>>
    /\ \A j \in DOMAIN events : j > i => events[j][1] # n

Follows(n) ==
  \/ ToldLast(n)
  \/ ~Pending(n) /\ (Construct(n, Cached(cm[n])) # None =>
                       storage[n] = Construct(n, Cached(cm[n])))

FollowInv == Alive => \A n \in Names : Cached(cm[n]) # None => Follows(n)

ReconcileInv ==
  pc = "run" /\ storing = None /\ ~resync =>
    (IF loaded # None THEN loaded ELSE applied) = storage

\* A configuration is not nil.
LEMMA ConfigIsSome ==
  ASSUME NEW c, Config(c)
  PROVE  c # None
<1>1. "config-gateway" \in Names /\ "config-network" \in Names
  BY DEF Names
<1>2. c["config-gateway"] \in Values("config-gateway") /\ c["config-network"] \in Values("config-network")
  BY <1>1 DEF Config
<1>3. c = [n \in Names |-> IF n = "config-gateway" THEN c["config-gateway"] ELSE c["config-network"]]
  BY DEF Config, Names
<1> QED
  BY <1>2, <1>3, NoneIsNoConfig

\* A step that tells of nothing new, stores nothing and leaves n's cache alone.
LEMMA FollowsKept ==
  ASSUME NEW n \in Names, Follows(n), cm'[n] = cm[n], UNCHANGED <<events, storage>>
  PROVE  Follows(n)'
<1>1. Cached(cm[n])' = Cached(cm[n])
  BY DEF Cached
<1> QED
  BY <1>1 DEF Follows, ToldLast, Pending

\* Moving the cache of n on either tells of the version reached, or reaches the
\* content it had.  What is queued of the other name stays as it is.
LEMMA DropFollows ==
  ASSUME TypeInv, FollowInv, Alive, NEW n \in Names, NEW k \in 2..Len(cm[n]),
         cm' = [cm EXCEPT ![n] = SubSeq(cm[n], k, Len(cm[n]))],
         \/ events' = Append(events, <<n, cm[n][k]>>)
         \/ events' = events /\ (cm[n][k] = None \/ cm[n][k] = Cached(cm[n])),
         UNCHANGED storage
  PROVE  FollowInv'
<1>1. /\ cm[n] \in Seq(Contents(n) \cup {None}) /\ Len(cm[n]) \in Nat
      /\ cm = [m \in Names |-> cm[m]] /\ events \in Seq(Queue)
  BY DEF TypeInv, TypeOK, Queue
<1>2. \A m \in Names : cm'[m] = IF m = n THEN SubSeq(cm[n], k, Len(cm[n])) ELSE cm[m]
  BY <1>1
<1>3. Cached(cm'[n]) = cm[n][k]
  BY <1>1, <1>2 DEF Cached
<1>4. SUFFICES ASSUME NEW m \in Names, Cached(cm'[m]) # None PROVE Follows(m)'
  BY DEF FollowInv
<1>5. CASE events' = events
  <2>1. Cached(cm'[m]) = Cached(cm[m])
    BY <1>2, <1>3, <1>4, <1>5 DEF Cached
  <2>2. Follows(m)
    BY <1>4, <2>1 DEF FollowInv
  <2>3. Cached(cm[m])' = Cached(cm[m])
    BY <2>1 DEF Cached
  <2> QED
    BY <1>5, <2>2, <2>3 DEF Follows, ToldLast, Pending
<1>6. CASE events' = Append(events, <<n, cm[n][k]>>)
  <2>1. /\ DOMAIN events = 1..Len(events) /\ Len(events) \in Nat
        /\ DOMAIN events' = 1..(Len(events) + 1)
        /\ \A i \in 1..Len(events) : events'[i] = events[i]
        /\ events'[Len(events) + 1] = <<n, cm[n][k]>>
    BY <1>1, <1>6
  <2>2. CASE m = n
    <3>1. Cached(cm[n])' = cm[n][k]
      BY <1>3 DEF Cached
    <3>2. ToldLast(n)'
      BY <2>1, <3>1 DEF ToldLast
    <3> QED
      BY <2>2, <3>2 DEF Follows
  <2>3. CASE m # n
    <3>1. Cached(cm[m])' = Cached(cm[m])
      BY <1>2, <2>3 DEF Cached
    <3>2. Follows(m)
      BY <1>4, <3>1 DEF FollowInv, Cached
    <3>3. ASSUME ToldLast(m) PROVE ToldLast(m)'
      <4>1. PICK i \in DOMAIN events :
              /\ events[i] = <<m, Cached(cm[m])>>
              /\ \A j \in DOMAIN events : j > i => events[j][1] # m
        BY <3>3 DEF ToldLast
      <4>2. \A j \in DOMAIN events' : j > i => events'[j][1] # m
        BY <2>1, <2>3, <4>1
      <4>3. i \in DOMAIN events' /\ events'[i] = <<m, Cached(cm[m])'>>
        BY <2>1, <3>1, <4>1
      <4> QED
        BY <4>2, <4>3 DEF ToldLast
    <3>4. ~Pending(m) => ~Pending(m)'
      BY <2>1, <2>3 DEF Pending
    <3> QED
      BY <3>1, <3>2, <3>3, <3>4 DEF Follows
  <2> QED
    BY <2>2, <2>3
<1> QED
  BY <1>5, <1>6

\* The initial list tells of every ConfigMap there is, once.
LEMMA InitialListFollows ==
  ASSUME TypeInv, InitialList
  PROVE  FollowInv'
<1> DEFINE Added(n) == IF Latest(cm[n]) = None THEN << >> ELSE <<<<n, Latest(cm[n])>>>>
<1>1. events' \in {Added("config-gateway") \o Added("config-network"),
                   Added("config-network") \o Added("config-gateway")}
  BY DEF InitialList
<1>2. \A n \in Names : Cached(cm[n])' = Latest(cm[n])
  BY DEF InitialList, Cached
<1>3. SUFFICES ASSUME NEW n \in Names, Latest(cm[n]) # None PROVE ToldLast(n)'
  BY <1>2 DEF FollowInv, Follows, Cached
<1>4. PICK other \in Names :
        /\ Names = {n, other} /\ n # other
        /\ events' = Added(n) \o Added(other) \/ events' = Added(other) \o Added(n)
  <2> HIDE DEF Added
  <2>1. CASE n = "config-gateway"
    <3>1. Names = {n, "config-network"} /\ "config-network" \in Names
      BY <2>1 DEF Names
    <3> QED
      BY <1>1, <2>1, <3>1
  <2>2. CASE n = "config-network"
    <3>1. Names = {n, "config-gateway"} /\ "config-gateway" \in Names
      BY <2>2 DEF Names
    <3> QED
      BY <1>1, <2>2, <3>1
  <2> QED
    BY <2>1, <2>2 DEF Names
<1>5. Added(n) = <<<<n, Latest(cm[n])>>>>
  BY <1>3
<1>6. CASE Latest(cm[other]) = None
  <2>1. Added(other) = << >>
    BY <1>6
  <2> HIDE DEF Added
  <2>2. events' = <<<<n, Latest(cm[n])>>>>
    BY <1>4, <1>5, <2>1
  <2> QED
    BY <1>2, <2>2 DEF ToldLast
<1>7. CASE Latest(cm[other]) # None
  <2>1. Added(other) = <<<<other, Latest(cm[other])>>>>
    BY <1>7
  <2> HIDE DEF Added
  <2>2. \/ events' = <<<<n, Latest(cm[n])>>, <<other, Latest(cm[other])>>>>
        \/ events' = <<<<other, Latest(cm[other])>>, <<n, Latest(cm[n])>>>>
    BY <1>4, <1>5, <2>1
  <2>3. CASE events' = <<<<n, Latest(cm[n])>>, <<other, Latest(cm[other])>>>>
    <3>1. /\ DOMAIN events' = 1..2 /\ events'[1] = <<n, Latest(cm[n])>> /\ events'[2][1] = other
      BY <2>3
    <3> QED
      BY <1>2, <1>4, <3>1 DEF ToldLast
  <2>4. CASE events' = <<<<other, Latest(cm[other])>>, <<n, Latest(cm[n])>>>>
    <3>1. /\ DOMAIN events' = 1..2 /\ events'[2] = <<n, Latest(cm[n])>>
      BY <2>4
    <3> QED
      BY <1>2, <3>1 DEF ToldLast
  <2> QED
    BY <2>2, <2>3, <2>4
<1> QED
  BY <1>6, <1>7

\* The handler of the notification at the head: the last one told of n is now
\* stored, if it parses; otherwise the last one still waits.
LEMMA OnConfigChangedFollows ==
  ASSUME TypeInv, FollowInv, OnConfigChanged
  PROVE  FollowInv'
<1> DEFINE h == Head(events)[1]
           value == Construct(h, Head(events)[2])
<1>1. events \in Seq(Queue) /\ events # << >> /\ events' = Tail(events) /\ Alive /\ UNCHANGED cm
  BY DEF TypeInv, TypeOK, OnConfigChanged, Queue, Alive
<1>2. /\ Len(events) \in Nat /\ DOMAIN events = 1..Len(events) /\ events[1] = Head(events)
      /\ DOMAIN events' = 1..(Len(events) - 1)
      /\ \A i \in 1..(Len(events) - 1) : events'[i] = events[i + 1]
      /\ 1 \in DOMAIN events
  BY <1>1
<1>3. h \in Names
  BY <1>1, QueueHolds
<1>4. storage' = IF value # None THEN [storage EXCEPT ![h] = value] ELSE storage
  BY DEF OnConfigChanged
<1>5. \A m \in Names : storage'[m] = IF m = h /\ value # None THEN value ELSE storage[m]
  <2>1. storage = [m \in Names |-> storage[m]]
    BY DEF TypeInv, TypeOK, Config
  <2> QED
    BY <1>4, <2>1
<1>6. SUFFICES ASSUME NEW n \in Names, Cached(cm[n]) # None PROVE Follows(n)'
  BY <1>1 DEF FollowInv, Cached
<1>7. Follows(n) /\ Cached(cm[n])' = Cached(cm[n])
  BY <1>1, <1>6 DEF FollowInv, Cached
<1> HIDE DEF h, value
<1>8. CASE ~Pending(n)
  <2>1. n # h
    BY <1>2, <1>8 DEF Pending, h
  <2>2. ~Pending(n)'
    <3>1. ASSUME NEW j \in DOMAIN events' PROVE events'[j][1] # n
      <4>1. j + 1 \in DOMAIN events /\ events'[j] = events[j + 1]
        BY <1>2
      <4> QED
        BY <1>8, <4>1 DEF Pending
    <3> QED
      BY <3>1 DEF Pending
  <2>3. Construct(n, Cached(cm[n])) # None => storage[n] = Construct(n, Cached(cm[n]))
    BY <1>7, <1>8 DEF Follows, ToldLast, Pending
  <2> QED
    BY <1>5, <1>7, <2>1, <2>2, <2>3 DEF Follows
<1>9. CASE Pending(n)
  <2>1. PICK i \in DOMAIN events :
          /\ events[i] = <<n, Cached(cm[n])>>
          /\ \A j \in DOMAIN events : j > i => events[j][1] # n
    BY <1>7, <1>9 DEF Follows, ToldLast
  <2>2. CASE i = 1
    <3>1. ~Pending(n)'
      <4>1. ASSUME NEW j \in DOMAIN events' PROVE events'[j][1] # n
        <5>1. j + 1 \in DOMAIN events /\ j + 1 > i /\ events'[j] = events[j + 1]
          BY <1>2, <2>2
        <5> QED
          BY <2>1, <5>1
      <4> QED
        BY <4>1 DEF Pending
    <3>2. h = n /\ value = Construct(n, Cached(cm[n]))
      BY <1>2, <2>1, <2>2 DEF h, value
    <3> QED
      BY <1>5, <1>7, <3>1, <3>2 DEF Follows
  <2>3. CASE i # 1
    <3>1. i - 1 \in DOMAIN events' /\ events'[i - 1] = <<n, Cached(cm[n])>>
      BY <1>2, <2>1, <2>3
    <3>2. \A j \in DOMAIN events' : j > i - 1 => events'[j][1] # n
      <4>1. ASSUME NEW j \in DOMAIN events', j > i - 1
            PROVE  events'[j][1] # n
        <5>1. j + 1 \in DOMAIN events /\ j + 1 > i /\ events'[j] = events[j + 1]
          BY <1>2, <2>1, <4>1
        <5> QED
          BY <2>1, <5>1
      <4> QED
        BY <4>1
    <3>3. ToldLast(n)'
      BY <1>7, <3>1, <3>2 DEF ToldLast
    <3> QED
      BY <3>3 DEF Follows
  <2> QED
    BY <2>2, <2>3
<1> QED
  BY <1>8, <1>9

\* Every step keeps the store in step with the cache.
LEMMA NextFollows == TypeInv /\ FollowInv /\ [Next]_vars => FollowInv'
<1> SUFFICES ASSUME TypeInv, FollowInv, [Next]_vars PROVE FollowInv'
  OBVIOUS
<1>1. ASSUME UNCHANGED <<cm, events, storage>>, Alive' => Alive
      PROVE  FollowInv'
  BY <1>1, FollowsKept DEF FollowInv
<1>2. ASSUME NEW n \in Names, DeleteConfigMap(n) \/ \E data \in Contents(n) : SetConfigMap(n, data)
      PROVE  FollowInv'
  <2>1. PICK data : Edit(n, data)
    BY <1>2 DEF DeleteConfigMap, SetConfigMap
  <2>2. \A m \in Names : Cached(cm'[m]) = Cached(cm[m])
    <3>1. ASSUME NEW m \in Names PROVE Cached(cm'[m]) = Cached(cm[m])
      <4>1. cm[m] \in Seq(Contents(m) \cup {None}) /\ Len(cm[m]) >= 1 /\ cm = [q \in Names |-> cm[q]]
        BY DEF TypeInv, TypeOK
      <4>2. cm'[m] = cm[m] \/ cm'[m] = Append(cm[m], data)
        BY <2>1, <4>1 DEF Edit
      <4>3. ASSUME NEW S, NEW q \in Seq(S), Len(q) >= 1 PROVE Append(q, data)[1] = q[1]
        BY <4>3
      <4> QED
        BY <4>1, <4>2, <4>3 DEF Cached
    <3> QED
      BY <3>1
  <2>3. UNCHANGED <<pc, events, storage>>
    BY <2>1 DEF Edit
  <2> QED
    BY <2>2, <2>3 DEF FollowInv, Follows, ToldLast, Pending, Alive, Cached
<1>3. ASSUME NEW n \in Names, WatchEvent(n) PROVE FollowInv'
  <2>1. cm[n] \in Seq(Contents(n) \cup {None}) /\ Len(cm[n]) > 1 /\ Alive
    BY <1>3 DEF TypeInv, TypeOK, WatchEvent, Alive
  <2>2. Tail(cm[n]) = SubSeq(cm[n], 2, Len(cm[n])) /\ 2 \in 2..Len(cm[n])
    BY <2>1
  <2>3. /\ cm' = [cm EXCEPT ![n] = SubSeq(cm[n], 2, Len(cm[n]))] /\ UNCHANGED storage
        /\ \/ events' = Append(events, <<n, cm[n][2]>>)
           \/ events' = events /\ cm[n][2] = None
    BY <1>3, <2>2 DEF WatchEvent
  <2> QED
    BY <2>1, <2>2, <2>3, DropFollows
<1>4. ASSUME NEW n \in Names, NEW k \in 2..Len(cm[n]), Relist(n, k) PROVE FollowInv'
  BY <1>4, DropFollows DEF Relist, Alive
<1>5. CASE InitialList
  BY <1>5, InitialListFollows
<1>6. CASE CheckObservedResourcesExist \/ WaitForAllKeys \/ Load \/ Finish
  BY <1>1, <1>6 DEF CheckObservedResourcesExist, WaitForAllKeys, Load, Finish, Die, Alive
<1>7. CASE Crash \/ Restart \/ DeleteConfigMapEvent
  BY <1>7 DEF Crash, Restart, DeleteConfigMapEvent, Die, FollowInv, Alive
<1>8. CASE OnConfigChanged
  BY <1>8, OnConfigChangedFollows
<1>9. CASE OnAfterStore \/ UNCHANGED vars
  BY <1>1, <1>9 DEF OnAfterStore, vars, Alive
<1> QED
  BY <1>2, <1>3, <1>4, <1>5, <1>6, <1>7, <1>8, <1>9 DEF Next

\* Every store is followed by a resync, which every load empties.
LEMMA NextReconciles == TypeInv /\ ReconcileInv /\ [Next]_vars => ReconcileInv'
<1> SUFFICES ASSUME TypeInv, ReconcileInv, [Next]_vars PROVE ReconcileInv'
  OBVIOUS
<1>0. Config(storage) /\ storage # None
  BY ConfigIsSome DEF TypeInv, TypeOK
<1>1. ASSUME UNCHANGED <<pc, storing, resync, loaded, applied, storage>> PROVE ReconcileInv'
  BY <1>1 DEF ReconcileInv
<1>2. CASE \E n \in Names : \/ DeleteConfigMap(n)
                            \/ \E data \in Contents(n) : SetConfigMap(n, data)
                            \/ WatchEvent(n)
                            \/ \E k \in 2..Len(cm[n]) : Relist(n, k)
  BY <1>1, <1>2 DEF DeleteConfigMap, SetConfigMap, Edit, WatchEvent, Relist
<1>3. CASE InitialList \/ CheckObservedResourcesExist \/ WaitForAllKeys \/ Crash \/ Restart
           \/ DeleteConfigMapEvent
  BY <1>3 DEF InitialList, CheckObservedResourcesExist, WaitForAllKeys, Crash, Restart,
     DeleteConfigMapEvent, Die, ReconcileInv
<1>4. CASE OnConfigChanged
  <2>1. events \in Seq(Queue) /\ events # << >>
    BY <1>4 DEF TypeInv, TypeOK, OnConfigChanged, Queue
  <2>2. Head(events)[1] \in Names
    BY <2>1, QueueHolds
  <2>3. Head(events)[1] # None
    BY <2>2, NamesAreNotNone
  <2> QED
    BY <1>4, <2>3 DEF OnConfigChanged, Die, ReconcileInv
<1>5. CASE OnAfterStore
  BY <1>5 DEF OnAfterStore, ReconcileInv
<1>6. CASE Load \/ Finish
  BY <1>0, <1>6 DEF Load, Finish, ReconcileInv
<1>7. CASE UNCHANGED vars
  BY <1>1, <1>7 DEF vars
<1> QED
  BY <1>2, <1>3, <1>4, <1>5, <1>6, <1>7 DEF Next

\* Whatever users write, however the watch breaks and whenever the process dies:
\* what the cache holds and the store lacks is still queued, and what the store
\* holds and no reconcile has is still due.
THEOREM NoChangeIsLostHolds == Spec => []NoChangeIsLost
<1> DEFINE Inv == TypeInv /\ FollowInv /\ ReconcileInv
<1>1. Init => Inv
  BY InitType DEF Init, FollowInv, ReconcileInv, Alive
<1>2. Inv /\ [Next]_vars => Inv'
  BY NextType, NextFollows, NextReconciles
<1>3. Inv => NoChangeIsLost
  <2> SUFFICES ASSUME FollowInv, ReconcileInv PROVE NoChangeIsLost
    OBVIOUS
  <2>1. ASSUME NEW n \in Names, ToldLast(n) PROVE Pending(n)
    BY <2>1 DEF ToldLast, Pending
  <2> QED
    BY <2>1 DEF FollowInv, Follows, Alive, ReconcileInv, NoChangeIsLost
<1> HIDE DEF Inv
<1> QED
  BY <1>1, <1>2, <1>3, PTL DEF Spec

============================================================================
