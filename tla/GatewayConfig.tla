--------------------------- MODULE GatewayConfig ---------------------------
(***************************************************************************)
(* The configuration of the controller: the ConfigMaps config-gateway and  *)
(* config-network, the watcher that delivers them, the store of            *)
(* pkg/reconciler/ingress/config that parses and keeps them, and the       *)
(* reconciles that load them.  The process dies on a configuration it      *)
(* cannot parse at start-up and on a deletion it learns of late, keeps its *)
(* last good one otherwise, and is started again by the cluster.           *)
(*                                                                         *)
(* A ConfigMap is a log of versions as in IngressController.  The content  *)
(* of config-gateway is its key "visibility": missing, malformed YAML, or  *)
(* entries by visibility; a namespace/name token is the sequence of its    *)
(* parts between slashes.                                                  *)
(***************************************************************************)
EXTENDS Naturals, Sequences

CONSTANTS
  GatewayContents,  \* contents users give config-gateway
  NetworkContents,  \* contents users give config-network: {"good", "bad"}
  None,             \* nil, no object, or an error
  MaxEdits,         \* bound on edits of ConfigMaps
  MaxCrashes        \* bound on crashes of the process

ASSUME BoundsAssumption == MaxEdits \in Nat /\ MaxCrashes \in Nat

\* None, the error of SplitMetaNamespaceKey, is no name that the defaults have.
ASSUME NoneAssumption ==
  \A nm \in {"knative-gateway", "knative-local-gateway", "istio-ingressgateway"} :
    None # [namespace |-> "istio-system", name |-> nm]

Names == {"config-gateway", "config-network"}
ASSUME NamesAreNotNone == None \notin Names

Visibilities == {"ExternalIP", "ClusterLocal"}

VARIABLES
  cm,       \* cm[n]: log of versions of ConfigMap n, its head in the cache
  pc,       \* main thread: "start", "check", "wait", "run" or "dead"
  events,   \* notifications not yet handled: sequence of <<name, content>>
  called,   \* names whose Add handler has returned
  storage,  \* storage[n]: the parsed value, None before the first
  storing,  \* the name stored last whose callbacks have not run, or None
  resync,   \* a reconcile with the current configuration is due
  loaded,   \* the configuration a reconcile works with, None between them
  applied,  \* the configuration of the last finished reconcile
  edits, crashes

vars == <<cm, pc, events, called, storage, storing, resync, loaded, applied,
          edits, crashes>>

Cached(log) == Head(log)
Latest(log) == log[Len(log)]

-----------------------------------------------------------------------------
(* gateway.go *)

Entry(class, gateway, service) ==
  [class |-> class, gateway |-> gateway, service |-> service]

Defaults ==
  [ExternalIP   |-> Entry("istio", <<"istio-system", "knative-gateway">>,
                                   <<"istio-system", "istio-ingressgateway">>),
   ClusterLocal |-> Entry("istio", <<"istio-system", "knative-local-gateway">>,
                                   <<"istio-system", "knative-local-gateway">>)]

\* SplitMetaNamespaceKey (external): a bare name has the empty namespace; only
\* a second slash is an error.
SplitMetaNamespaceKey(key) ==
  IF Len(key) > 2 THEN None
  ELSE IF Len(key) = 1 THEN [namespace |-> "", name |-> key[1]]
  ELSE [namespace |-> key[1], name |-> key[2]]

ValidEntry(e) ==
  /\ SplitMetaNamespaceKey(e.service) # None
  /\ SplitMetaNamespaceKey(e.gateway) # None
  /\ e.class # ""

NewGatewayFromConfigMap(data) ==
  IF data.key = "missing" THEN Defaults
  ELSE IF /\ data.key # "malformed"
          /\ Visibilities \subseteq DOMAIN data.entries
          /\ DOMAIN data.entries \subseteq Visibilities
          /\ \A vis \in DOMAIN data.entries : ValidEntry(data.entries[vis])
  THEN data.entries
  ELSE None

\* A visibility without an entry gives the empty string.
LookupGateway(c, vis) == IF vis \in DOMAIN c THEN c[vis].gateway ELSE <<"">>
LookupService(c, vis) == IF vis \in DOMAIN c THEN c[vis].service ELSE <<"">>
LookupGatewayClass(c, vis) == IF vis \in DOMAIN c THEN c[vis].class ELSE ""

\* The constructors of NewStore; the network configuration is parsed by
\* knative.dev/networking.
Construct(n, data) ==
  IF n = "config-gateway" THEN NewGatewayFromConfigMap(data)
  ELSE IF data = "bad" THEN None ELSE data

-----------------------------------------------------------------------------

Contents(n) == IF n = "config-gateway" THEN GatewayContents ELSE NetworkContents

\* What the constructors return for the contents users give, nil included.
Values(n) == {Construct(n, data) : data \in Contents(n)} \cup {None}
Config(c) == c = [n \in Names |-> c[n]] /\ \A n \in Names : c[n] \in Values(n)

\* None, nil, is no configuration.
ASSUME NoneIsNoConfig ==
  \A g \in Values("config-gateway"), w \in Values("config-network") :
    None # [n \in Names |-> IF n = "config-gateway" THEN g ELSE w]

\* The process starts in a cluster where both ConfigMaps exist, with any
\* contents.
Init ==
  /\ \E g \in GatewayContents, w \in NetworkContents :
       cm = [n \in Names |-> IF n = "config-gateway" THEN <<g>> ELSE <<w>>]
  /\ pc = "start"
  /\ events = << >>
  /\ called = {}
  /\ storage = [n \in Names |-> None]
  /\ storing = None
  /\ resync = FALSE
  /\ loaded = None
  /\ applied = None
  /\ edits = 0
  /\ crashes = 0

-----------------------------------------------------------------------------
(* Users, and the cluster's API server. *)

Edit(n, data) ==
  /\ edits < MaxEdits
  /\ edits' = edits + 1
  /\ data # Latest(cm[n])
  /\ cm' = [cm EXCEPT ![n] = Append(@, data)]
  /\ UNCHANGED <<pc, events, called, storage, storing, resync, loaded, applied, crashes>>

SetConfigMap(n, data) == Edit(n, data)
DeleteConfigMap(n) == Edit(n, None)

-----------------------------------------------------------------------------
(* Start-up: InformedWatcher.Start, called before the controllers start.   *)

\* The informer lists the ConfigMaps and queues an Add for each, in any order.
InitialList ==
  /\ pc = "start"
  /\ pc' = "check"
  /\ cm' = [n \in Names |-> <<Latest(cm[n])>>]
  /\ LET Added(n) == IF Latest(cm[n]) = None THEN << >> ELSE <<<<n, Latest(cm[n])>>>>
     IN  events' \in {Added("config-gateway") \o Added("config-network"),
                      Added("config-network") \o Added("config-gateway")}
  /\ UNCHANGED <<called, storage, storing, resync, loaded, applied, edits, crashes>>

Die ==
  /\ pc' = "dead"
  /\ loaded' = None

\* checkObservedResourcesExist; its error is fatal.
CheckObservedResourcesExist ==
  /\ pc = "check"
  /\ IF \A n \in Names : Cached(cm[n]) # None
     THEN pc' = "wait" /\ UNCHANGED loaded
     ELSE Die
  /\ UNCHANGED <<cm, events, called, storage, storing, resync, applied, edits, crashes>>

\* Fault: Start returns once the ConfigMaps are known to exist.
NoWait ==
  /\ pc = "wait"
  /\ pc' = "run"
  /\ resync' = TRUE
  /\ UNCHANGED <<cm, events, called, storage, storing, loaded, applied, edits, crashes>>

\* WaitForAllKeys; then the informers start and every Ingress is enqueued.
WaitForAllKeys ==
  /\ pc = "wait"
  /\ called = Names
  /\ pc' = "run"
  /\ resync' = TRUE
  /\ UNCHANGED <<cm, events, called, storage, storing, loaded, applied, edits, crashes>>

Crash ==
  /\ pc # "dead"
  /\ crashes < MaxCrashes
  /\ crashes' = crashes + 1
  /\ Die
  /\ UNCHANGED <<cm, events, called, storage, storing, resync, applied, edits>>

\* The cluster starts the process again: everything it kept is gone.
Restart ==
  /\ pc = "dead"
  /\ pc' = "start"
  /\ events' = << >>
  /\ called' = {}
  /\ storage' = [n \in Names |-> None]
  /\ storing' = None
  /\ resync' = FALSE
  /\ UNCHANGED <<cm, loaded, applied, edits, crashes>>

-----------------------------------------------------------------------------
(* The informer and its handlers. *)

\* A watch event moves the cache on by one version.  Deletions do nothing: no
\* ConfigMap has a default.
WatchEvent(n) ==
  /\ pc \in {"check", "wait", "run"}
  /\ Len(cm[n]) > 1
  /\ cm' = [cm EXCEPT ![n] = Tail(@)]
  /\ events' = IF cm[n][2] = None THEN events ELSE Append(events, <<n, cm[n][2]>>)
  /\ UNCHANGED <<pc, called, storage, storing, resync, loaded, applied, edits, crashes>>

\* A list after a broken watch moves it past any number of versions; an update
\* that changes nothing is ignored.  The handler is told of a deletion with a
\* DeletedFinalStateUnknown, here the event <<n, None>>.
Relist(n, k) ==
  /\ pc \in {"check", "wait", "run"}
  /\ k \in 2..Len(cm[n])
  /\ cm' = [cm EXCEPT ![n] = SubSeq(@, k, Len(@))]
  /\ events' = IF cm[n][k] = Cached(cm[n]) THEN events
               ELSE Append(events, <<n, cm[n][k]>>)
  /\ UNCHANGED <<pc, called, storage, storing, resync, loaded, applied, edits, crashes>>

\* deleteConfigMapEvent takes every deleted object for a ConfigMap: it panics on
\* a DeletedFinalStateUnknown and the process dies.
DeleteConfigMapEvent ==
  /\ pc \in {"check", "wait", "run"}
  /\ storing = None
  /\ events # << >>
  /\ Head(events)[2] = None
  /\ Die
  /\ events' = Tail(events)
  /\ UNCHANGED <<cm, called, storage, storing, resync, applied, edits, crashes>>

\* UntypedStore.OnConfigChanged: the constructor, then the store ...
OnConfigChanged ==
  /\ pc \in {"check", "wait", "run"}
  /\ storing = None
  /\ events # << >>
  /\ Head(events)[2] # None
  /\ LET n     == Head(events)[1]
         value == Construct(n, Head(events)[2])
     IN  IF value # None
         THEN /\ storage' = [storage EXCEPT ![n] = value]
              /\ storing' = n
              /\ UNCHANGED <<pc, loaded, called>>
         ELSE /\ IF storage[n] = None THEN Die ELSE UNCHANGED <<pc, loaded>>
              /\ called' = called \cup {n}
              /\ UNCHANGED <<storage, storing>>
  /\ events' = Tail(events)
  /\ UNCHANGED <<cm, resync, applied, edits, crashes>>

\* Fault: a change of the configuration starts no resync.
NoCallback ==
  /\ pc \in {"check", "wait", "run"}
  /\ storing # None
  /\ called' = called \cup {storing}
  /\ storing' = None
  /\ UNCHANGED <<cm, pc, events, storage, resync, loaded, applied, edits, crashes>>

\* Fault: the name is reset before the handler reports it.
ResetFirst ==
  /\ pc \in {"check", "wait", "run"}
  /\ storing # None
  /\ storing' = None
  /\ called' = called \cup {storing'}
  /\ resync' = TRUE
  /\ UNCHANGED <<cm, pc, events, storage, loaded, applied, edits, crashes>>

\* ... then onAfterStore: GlobalResync; then the handler has returned.
OnAfterStore ==
  /\ pc \in {"check", "wait", "run"}
  /\ storing # None
  /\ called' = called \cup {storing}
  /\ resync' = TRUE
  /\ storing' = None
  /\ UNCHANGED <<cm, pc, events, storage, loaded, applied, edits, crashes>>

-----------------------------------------------------------------------------
(* Reconciles: Store.ToContext loads a copy of both values when one begins. *)

Load ==
  /\ pc = "run"
  /\ resync
  /\ loaded = None
  /\ resync' = FALSE
  /\ loaded' = storage
  /\ UNCHANGED <<cm, pc, events, called, storage, storing, applied, edits, crashes>>

\* Fault: what became due while a reconcile ran is forgotten when it ends.
FinishForgets ==
  /\ pc = "run"
  /\ loaded # None
  /\ loaded' = None
  /\ applied' = loaded
  /\ resync' = FALSE
  /\ UNCHANGED <<cm, pc, events, called, storage, storing, edits, crashes>>

Finish ==
  /\ pc = "run"
  /\ loaded # None
  /\ loaded' = None
  /\ applied' = loaded
  /\ UNCHANGED <<cm, pc, events, called, storage, storing, resync, edits, crashes>>

-----------------------------------------------------------------------------

Next ==
  \/ \E n \in Names :
       \/ DeleteConfigMap(n)
       \/ \E data \in Contents(n) : SetConfigMap(n, data)
       \/ WatchEvent(n)
       \/ \E k \in 2..Len(cm[n]) : Relist(n, k)
  \/ InitialList \/ CheckObservedResourcesExist \/ WaitForAllKeys
  \/ Crash \/ Restart
  \/ OnConfigChanged \/ OnAfterStore \/ DeleteConfigMapEvent
  \/ Load \/ Finish

\* The threads of a running process, and the cluster that restarts it.
Fairness ==
  /\ WF_vars(InitialList \/ CheckObservedResourcesExist \/ WaitForAllKeys)
  /\ WF_vars(Restart)
  /\ \A n \in Names : WF_vars(WatchEvent(n) \/ \E k \in 2..Len(cm[n]) : Relist(n, k))
  /\ WF_vars(OnConfigChanged \/ OnAfterStore \/ DeleteConfigMapEvent)
  /\ WF_vars(Load \/ Finish)

Spec == Init /\ [][Next]_vars /\ Fairness

-----------------------------------------------------------------------------
(* Properties. *)

Notifications(n) == {n} \X (Contents(n) \cup {None})

\* The types of the variables: versions and notifications carry contents of the
\* ConfigMap they belong to, and what is stored, loaded and applied are parses
\* of such contents.
TypeOK ==
  /\ cm = [n \in Names |-> cm[n]]
  /\ \A n \in Names : /\ cm[n] \in Seq(Contents(n) \cup {None})
                      /\ Len(cm[n]) \in 1..(MaxEdits + 1)
  /\ pc \in {"start", "check", "wait", "run", "dead"}
  /\ events \in Seq(Notifications("config-gateway") \cup Notifications("config-network"))
  /\ called \subseteq Names
  /\ Config(storage)
  /\ storing \in Names \cup {None}
  /\ resync \in BOOLEAN
  /\ loaded = None \/ Config(loaded)
  /\ applied = None \/ Config(applied)
  /\ edits \in 0..MaxEdits /\ crashes \in 0..MaxCrashes

\* A reconcile never works with a missing or half-made configuration: what
\* Store.Load returns has both parts (its type assertions would panic on nil),
\* and in the gateway part both visibilities look up a class and tokens that
\* split, so that MakeHTTPRoute and ListProbeTargets may ignore the errors of
\* SplitMetaNamespaceKey.
LoadedIsComplete ==
  loaded # None =>
    /\ \A n \in Names : loaded[n] # None
    /\ \A vis \in Visibilities :
         LET c == loaded["config-gateway"] IN
         /\ LookupGatewayClass(c, vis) # ""
         /\ vis \in DOMAIN c
         /\ SplitMetaNamespaceKey(LookupGateway(c, vis)) # None
         /\ SplitMetaNamespaceKey(LookupService(c, vis)) # None

Pending(n) == \E i \in DOMAIN events : events[i][1] = n

\* No change is lost between the informer, the store and the reconciles.  In a
\* process that has listed the ConfigMaps: one whose cached version parses, and
\* of which no notification waits, is stored as just that version, through edits
\* that do not parse, deletions, re-creations and versions skipped by a list
\* (InformedWatcher.updateConfigMapEvent, UntypedStore.OnConfigChanged).  And
\* unless a resync is due or about to be triggered, the reconcile that is running,
\* or else the last one that ended, has what is stored: a store in the middle of a
\* reconcile, or between Load and Finish, always brings another.
NoChangeIsLost ==
  /\ pc \in {"check", "wait", "run"} =>
       \A n \in Names :
         /\ ~Pending(n)
         /\ Cached(cm[n]) # None
         /\ Construct(n, Cached(cm[n])) # None
         => storage[n] = Construct(n, Cached(cm[n]))
  /\ pc = "run" /\ storing = None /\ ~resync =>
       (IF loaded # None THEN loaded ELSE applied) = storage

\* Once edits and crashes have stopped: if both ConfigMaps are there and can be
\* parsed, the process runs and the last reconcile has applied exactly them,
\* whatever came before (bad edits, deletions, crash loops at start-up,
\* panics, versions never seen, an edit in the middle of a reconcile).
ConfigTakesEffect ==
  <>[](LET wanted == [n \in Names |->
             IF Latest(cm[n]) = None THEN None ELSE Construct(n, Latest(cm[n]))]
       IN  (\A n \in Names : wanted[n] # None) => pc = "run" /\ applied = wanted)

=============================================================================
