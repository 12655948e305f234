------------------------- MODULE IngressController -------------------------
(***************************************************************************)
(* The Ingress controller of pkg/reconciler/ingress with the machinery     *)
(* that drives it: API server, informer caches, work queue, worker         *)
(* threads, generated reconciler, and an abstract status prober (the       *)
(* detailed one is StatusProber).                                          *)
(*                                                                         *)
(* An API object is a log of versions: its last entry is what the API      *)
(* server holds, its first what the informer cache holds, the entries in   *)
(* between are watch events under way.  A write appends, a watch event     *)
(* drops the head, a list after a broken watch drops any number of heads   *)
(* (ClientCache shows that the generated informers keep such logs).  An    *)
(* update sent with a cached copy is refused with a conflict exactly when  *)
(* the copy is no longer the last entry.                                   *)
(***************************************************************************)
EXTENDS ConditionSet, WorkQueue, Resources

CONSTANTS
  Keys,             \* names of Ingresses, all in one namespace
  Hosts,            \* host names, by alphabetical rank
  Specs,            \* Specs[k]: what users submit as Ingress k
  Configs,          \* contents of the config-gateway ConfigMap
  InitConfig,       \* the one the controller starts with
  Workers,          \* reconciling goroutines
  None,             \* nil, or no object
  MaxEdits,         \* bound on user edits of Ingresses and configuration
  MaxIncarnations,  \* bound on creations of one Ingress name
  MaxFaults,        \* bound on failures: API errors, deleted routes, restarts
  MaxLag,           \* bound: versions in a log when it is written to
  WatchesBreak,     \* whether a watch may end and its informer list again
  MaxAttempts       \* retry.DefaultRetry.Steps, 5 in the code

ASSUME BoundsAssumption ==
  /\ MaxEdits \in Nat /\ MaxIncarnations \in Nat /\ MaxFaults \in Nat
  /\ MaxLag \in Nat \ {0} /\ MaxAttempts \in Nat \ {0}
  /\ WatchesBreak \in BOOLEAN

ASSUME ConfigAssumption == InitConfig \in Configs

\* nil is no object, no key and no configuration
ASSUME NoneAssumption == None \notin Keys /\ None \notin Configs

\* a host is its rank in alphabetical order
ASSUME HostsAssumption == Hosts \subseteq Nat

\* At least one rule, which admission requires, and each with a host, which it
\* does not: LongestHost indexes the first one, and Knative always sends some.
ASSUME SpecsAssumption ==
  \A k \in Keys : \A s \in Specs[k] :
    /\ DOMAIN s = {"class", "rules"}
    /\ s.rules # << >>
    /\ s.rules \in Seq([hosts : (SUBSET Hosts) \ {{}},
                       visibility : {""} \cup Visibilities,
                       http : {s.rules[i].http : i \in DOMAIN s.rules}])

VARIABLES
  ing,       \* ing[k]: log of versions of Ingress k
  route,     \* route[h]: log of versions of the HTTPRoute named h
  created,   \* created[k]: incarnations of k so far; the newest is its UID
  fresh,     \* fresh[k]: no write to k since its worker last read it
  cfg,       \* configuration in the config store
  resync,    \* the config store still has to call GlobalResync
  wq,        \* the work queue
  worker,    \* worker[w]: local state of a worker thread
  prober,    \* prober[k]: None or the prober's state for k
  probed,    \* history: the <<k, hash>> whose probing has succeeded
  edits,     \* user edits so far
  faults     \* failures so far

vars == <<ing, route, created, fresh, cfg, resync, wq, worker, prober,
          probed, edits, faults>>

\* What a thread outside Reconcile holds.
IdleWorker == [pc |-> "idle", key |-> None, cfg |-> None, orig |-> None,
               rule |-> 0, status |-> None, err |-> FALSE, attempt |-> 0]

NoStatus == [conditions |-> NoConditions, observedGeneration |-> 0, lb |-> None]

Cached(log) == Head(log)
Stored(log) == log[Len(log)]
Synced(log) == Len(log) = 1
Exists(log) == Stored(log) # None

Init ==
  /\ ing = [k \in Keys |-> <<None>>]
  /\ route = [h \in Hosts |-> <<None>>]
  /\ created = [k \in Keys |-> 0]
  /\ fresh = [k \in Keys |-> FALSE]
  /\ cfg = InitConfig
  /\ resync = FALSE
  /\ wq = EmptyQueue
  /\ worker = [w \in Workers |-> IdleWorker]
  /\ prober = [k \in Keys |-> None]
  /\ probed = {}
  /\ edits = 0
  /\ faults = 0

-----------------------------------------------------------------------------
(* The API server.  MaxLag keeps a writer waiting while the informer lags  *)
(* too far behind; no writer is ever refused for it.                       *)

WriteIngress(k, obj) ==
  /\ Len(ing[k]) <= MaxLag
  /\ ing' = [ing EXCEPT ![k] = Append(@, obj)]
  /\ fresh' = [fresh EXCEPT ![k] = FALSE]

WriteRoute(h, obj) ==
  /\ Len(route[h]) <= MaxLag
  /\ route' = [route EXCEPT ![h] = Append(@, obj)]

-----------------------------------------------------------------------------
(* Users. *)

Edit == edits < MaxEdits /\ edits' = edits + 1

CreateIngress(k, s) ==
  /\ Edit
  /\ ~Exists(ing[k])
  /\ created[k] < MaxIncarnations
  /\ created' = [created EXCEPT ![k] = @ + 1]
  /\ WriteIngress(k, [uid |-> created[k] + 1, generation |-> 1, spec |-> s,
                      status |-> NoStatus])
  /\ UNCHANGED <<route, cfg, resync, wq, worker, prober, probed, faults>>

\* The class is an annotation: editing it alone leaves the generation.
UpdateIngress(k, s) ==
  /\ Edit
  /\ Exists(ing[k])
  /\ LET old == Stored(ing[k]) IN
       /\ s # old.spec
       /\ WriteIngress(k, [old EXCEPT
            !.spec = s,
            !.generation = IF s.rules = old.spec.rules THEN @ ELSE @ + 1])
  /\ UNCHANGED <<route, created, cfg, resync, wq, worker, prober, probed, faults>>

DeleteIngress(k) ==
  /\ Edit
  /\ Exists(ing[k])
  /\ WriteIngress(k, None)
  /\ UNCHANGED <<route, created, cfg, resync, wq, worker, prober, probed, faults>>

\* UntypedStore.OnConfigChanged: the value is stored first ...
ChangeConfig(c) ==
  /\ Edit
  /\ ~resync
  /\ c # cfg
  /\ cfg' = c
  /\ resync' = TRUE
  /\ UNCHANGED <<ing, route, created, fresh, wq, worker, prober, probed, faults>>

\* Fault: the resync enqueues nothing.
ResyncNothing ==
  /\ resync
  /\ resync' = FALSE
  /\ UNCHANGED <<ing, route, created, fresh, cfg, wq, worker, prober, probed, edits, faults>>

\* ... then onAfterStore runs: every cached Ingress goes to a lane.
GlobalResync ==
  /\ resync
  /\ resync' = FALSE
  /\ wq' = Enqueue(wq, {k \in Keys : Cached(ing[k]) # None})
  /\ UNCHANGED <<ing, route, created, fresh, cfg, worker, prober, probed, edits, faults>>

-----------------------------------------------------------------------------
(* The gateway's own controller, the garbage collector and other clients   *)
(* of the API server: external, as the controller sees them.               *)

Admission(h, ok) == {[gateway |-> Stored(route[h]).spec.gateway, admitted |-> ok]}

SetRouteStatus(h, s) ==
  /\ Exists(route[h])
  /\ Stored(route[h]).status # s
  /\ WriteRoute(h, [Stored(route[h]) EXCEPT !.status = s])
  /\ UNCHANGED <<ing, created, fresh, cfg, resync, wq, worker, prober, probed, edits>>

GatewayAdmits(h) == SetRouteStatus(h, Admission(h, TRUE)) /\ UNCHANGED faults

Fault == faults < MaxFaults /\ faults' = faults + 1

GatewayRejects(h) == Fault /\ SetRouteStatus(h, Admission(h, FALSE))

\* No Gateway is associated with the route any more: an empty list.
GatewayForgets(h) == Fault /\ SetRouteStatus(h, {})

OwnerGone(r) ==
  LET o == Stored(ing[r.owner.key]) IN ~(o # None /\ o.uid = r.owner.uid)

RemoveRoute(h) ==
  /\ Exists(route[h])
  /\ WriteRoute(h, None)
  /\ UNCHANGED <<ing, created, fresh, cfg, resync, wq, worker, prober, probed, edits>>

CollectRoute(h) ==
  /\ Exists(route[h])
  /\ OwnerGone(Stored(route[h]))
  /\ RemoveRoute(h)
  /\ UNCHANGED faults

DeleteRoute(h) == Fault /\ RemoveRoute(h)

-----------------------------------------------------------------------------
(* Informer event handlers. *)

ClassFilter(obj) == obj # None /\ obj.spec.class \in {"ours", "unset"}

IngressEvent(k) ==
  /\ ~Synced(ing[k])
  /\ ing' = [ing EXCEPT ![k] = Tail(@)]
  /\ wq' = IF ClassFilter(ing[k][1]) \/ ClassFilter(ing[k][2])
             THEN Enqueue(wq, {k}) ELSE wq
  /\ UNCHANGED <<route, created, fresh, cfg, resync, worker, prober, probed, edits, faults>>

\* A list after a broken watch moves the cache on to a later version; what came
\* in between is never seen.  A deletion is then told with a
\* DeletedFinalStateUnknown, which is no metav1.Object: the filter drops it.
IngressRelist(k, n) ==
  /\ WatchesBreak
  /\ n \in 2 .. Len(ing[k])
  /\ ing' = [ing EXCEPT ![k] = SubSeq(@, n, Len(@))]
  /\ wq' = IF ing[k][n] # None /\ (ClassFilter(ing[k][1]) \/ ClassFilter(ing[k][n]))
             THEN Enqueue(wq, {k}) ELSE wq
  /\ UNCHANGED <<route, created, fresh, cfg, resync, worker, prober, probed, edits, faults>>

\* Fault: an owner of another incarnation is not enqueued.
EnqueueSameUID(obj) ==
  LET o == Cached(ing[obj.owner.key])
  IN  IF o # None /\ o.uid = obj.owner.uid THEN Enqueue(wq, {obj.owner.key}) ELSE wq

\* Fault: the Ingress whose labels the route carries, the last to write it.
EnqueueLastWriter(obj) == Enqueue(wq, {obj.from.key})

\* By the owner's name, whatever its UID.
EnqueueControllerOf(obj) == Enqueue(wq, {obj.owner.key})

\* A deletion hands the handler the last known version.
RouteEvent(h) ==
  /\ ~Synced(route[h])
  /\ wq' = EnqueueControllerOf(IF route[h][2] = None THEN route[h][1] ELSE route[h][2])
  /\ route' = [route EXCEPT ![h] = Tail(@)]
  /\ UNCHANGED <<ing, created, fresh, cfg, resync, worker, prober, probed, edits, faults>>

RouteRelist(h, n) ==
  /\ WatchesBreak
  /\ n \in 2 .. Len(route[h])
  /\ wq' = IF route[h][n] # None THEN EnqueueControllerOf(route[h][n]) ELSE wq
  /\ route' = [route EXCEPT ![h] = SubSeq(@, n, Len(@))]
  /\ UNCHANGED <<ing, created, fresh, cfg, resync, worker, prober, probed, edits, faults>>

\* A lane or a timer hands a key to the consumer queue.
RunConsumer(k) ==
  /\ k \in wq.waiting
  /\ wq' = ConsumerAdd(wq, k)
  /\ UNCHANGED <<ing, route, created, fresh, cfg, resync, worker, prober, probed, edits, faults>>

-----------------------------------------------------------------------------
(* A worker's pass through Reconcile. *)

SetWorker(w, l) == worker' = [worker EXCEPT ![w] = l]

\* Fault: a failed key waits for its next event.
FinishWithoutRetry(w, err) ==
  /\ wq' = Done(wq, worker[w].key)
  /\ SetWorker(w, IdleWorker)

\* handleErr requeues the key before the deferred Done.
FinishReconcile(w, err) ==
  LET k == worker[w].key IN
    /\ wq' = Done(IF err THEN Enqueue(wq, {k}) ELSE wq, k)
    /\ SetWorker(w, IdleWorker)

\* processNextWorkItem up to configStore.ToContext: the configuration is frozen.
ProcessNextWorkItem(w) ==
  /\ worker[w].pc = "idle"
  /\ CanGet(wq)
  /\ wq' = Get(wq)
  /\ SetWorker(w, [IdleWorker EXCEPT !.pc = "read", !.key = Head(wq.queue), !.cfg = cfg])
  /\ UNCHANGED <<ing, route, created, fresh, cfg, resync, prober, probed, edits, faults>>

\* PreProcessReconcile, then the start of reconcileIngress (SetDefaults is in
\* Resources; InitializeConditions again changes nothing).
PreProcess(obj) ==
  LET c == InitializeConditions(obj.status.conditions)
  IN  [obj.status EXCEPT !.conditions =
         IF obj.status.observedGeneration # obj.generation
           THEN MarkUnknown(c, Happy) ELSE c]

ReadIngress(w) ==
  LET k == worker[w].key
      obj == Cached(ing[k])
  IN
  /\ worker[w].pc = "read"
  /\ IF obj = None \/ obj.spec.class # "ours"
       THEN FinishReconcile(w, FALSE) /\ UNCHANGED fresh
       ELSE /\ SetWorker(w, [worker[w] EXCEPT !.pc = "rules", !.orig = obj, !.rule = 1,
                               !.status = PreProcess(obj)])
            /\ fresh' = [fresh EXCEPT ![k] = Synced(ing[k])]
            /\ UNCHANGED wq
  /\ UNCHANGED <<ing, route, created, cfg, resync, prober, probed, edits, faults>>

\* The end of ReconcileKind and PostProcessReconcile; the status is written
\* only when it differs from the cached one.
EndReconcileKind(w, status, err) ==
  LET s1 == IF err THEN [status EXCEPT !.conditions = MarkUnknown(@, Happy)]
            ELSE status
      s2 == [s1 EXCEPT !.observedGeneration = worker[w].orig.generation]
  IN  IF s2 = worker[w].orig.status
        THEN FinishReconcile(w, err)
        ELSE /\ SetWorker(w, [worker[w] EXCEPT !.pc = "status", !.status = s2, !.err = err])
             /\ UNCHANGED wq

\* IsHTTPRouteReady: nil is not ready, any listed gateway must have admitted.
IsHTTPRouteReady(r) ==
  /\ r.status # None
  /\ \A g \in r.status : g.admitted

RuleDone(w, r) ==
  LET l == worker[w]
      marked == IF IsHTTPRouteReady(r) THEN MarkTrue(l.status.conditions, "NetworkConfigured")
                ELSE MarkUnknown(l.status.conditions, Happy)
      last == l.rule = Len(l.orig.spec.rules)
  IN  /\ SetWorker(w, [l EXCEPT !.pc = IF last THEN "probe" ELSE "rules",
                               !.rule = @ + 1,
                               !.status = [@ EXCEPT !.conditions = marked]])
      /\ UNCHANGED wq

\* One iteration of the loop over the rules: reconcileHTTPRoute reads the
\* lister and creates, updates or keeps the route.
ReconcileRule(w) ==
  LET l == worker[w]
      rules == l.orig.spec.rules
      h == RouteName(rules, l.rule)
      spec == MakeHTTPRouteSpec(rules, l.rule, l.cfg)
      old == Cached(route[h])
      new == IF old = None
               THEN [owner |-> [key |-> l.key, uid |-> l.orig.uid],
                     spec |-> spec, status |-> None,
                     from |-> [key |-> l.key, uid |-> l.orig.uid,
                               generation |-> l.orig.generation]]
               ELSE [old EXCEPT !.spec = spec,
                       !.from = [key |-> l.key, uid |-> l.orig.uid,
                                 generation |-> l.orig.generation]]
      keep == old # None /\ old.spec = spec
      accepted == IF old = None THEN ~Exists(route[h]) ELSE Synced(route[h])
  IN
  /\ l.pc = "rules"
  /\ \/ /\ keep
        /\ RuleDone(w, old)
        /\ UNCHANGED <<route, faults>>
     \/ /\ ~keep /\ accepted
        /\ WriteRoute(h, new)
        /\ RuleDone(w, new)
        /\ UNCHANGED faults
     \/ /\ ~keep
        /\ IF accepted THEN Fault ELSE UNCHANGED faults
        /\ EndReconcileKind(w, l.status, TRUE)
        /\ UNCHANGED route
  /\ UNCHANGED <<ing, created, fresh, cfg, resync, prober, probed, edits>>

\* Fault: the state of an outdated hash answers for the new one.
IsReadyAnyHash(k, hash) == prober[k] # None /\ prober[k].ready

\* Prober.IsReady as the reconciler sees it: a known hash answers from the
\* cached state, another one replaces the state and starts probing.
\* ListProbeTargets may fail, after the outdated state is gone.
IsReady(k, hash) == prober[k] # None /\ prober[k].hash = hash /\ prober[k].ready

ProbeIngress(w) ==
  LET l == worker[w]
      k == l.key
      hash == ComputeHash(l.orig.spec.rules)
      known == prober[k] # None /\ prober[k].hash = hash
      status == IF IsReady(k, hash)
                  THEN [l.status EXCEPT
                          !.lb = <<LookupService(l.cfg, "ExternalIP"),
                                   LookupService(l.cfg, "ClusterLocal")>>,
                          !.conditions = MarkTrue(@, "LoadBalancerReady")]
                  ELSE [l.status EXCEPT
                          !.conditions = MarkUnknown(@, "LoadBalancerReady")]
  IN
  /\ l.pc = "probe"
  /\ \/ /\ prober' = IF known THEN prober
                     ELSE [prober EXCEPT ![k] = [hash |-> hash, ready |-> FALSE]]
        /\ EndReconcileKind(w, status, FALSE)
        /\ UNCHANGED faults
     \/ /\ ~known
        /\ Fault
        /\ prober' = [prober EXCEPT ![k] = None]
        /\ EndReconcileKind(w, l.status, TRUE)
  /\ UNCHANGED <<ing, route, created, fresh, cfg, resync, probed, edits>>

\* Fault: one attempt too many.
OneMoreAttempt(l) == l.attempt < MaxAttempts

MayRetry(l) == l.attempt + 1 < MaxAttempts

\* updateStatus, one attempt at UpdateStatus: a conflict is retried, any other
\* error (the Ingress is gone, an API error) ends the reconciliation.
UpdateStatus(w) ==
  LET l == worker[w]
      k == l.key
  IN
  /\ l.pc = "status"
  /\ \/ /\ fresh[k]
        /\ WriteIngress(k, [Stored(ing[k]) EXCEPT !.status = l.status])
        /\ FinishReconcile(w, l.err)
        /\ UNCHANGED faults
     \/ /\ ~fresh[k] /\ Exists(ing[k]) /\ MayRetry(l)
        /\ SetWorker(w, [l EXCEPT !.pc = "get", !.attempt = @ + 1])
        /\ UNCHANGED <<ing, fresh, wq, faults>>
     \/ /\ ~(~fresh[k] /\ Exists(ing[k]) /\ MayRetry(l))
        /\ IF fresh[k] THEN Fault ELSE UNCHANGED faults
        /\ FinishReconcile(w, TRUE)
        /\ UNCHANGED <<ing, fresh>>
  /\ UNCHANGED <<route, created, cfg, resync, prober, probed, edits>>

\* A later attempt first fetches the latest version from the API server, which
\* may fail as well.
GetLatest(w) ==
  LET l == worker[w]
      k == l.key
  IN
  /\ l.pc = "get"
  /\ \/ /\ IF Exists(ing[k]) THEN Fault ELSE UNCHANGED faults
        /\ FinishReconcile(w, TRUE)
        /\ UNCHANGED fresh
     \/ /\ Exists(ing[k]) /\ Stored(ing[k]).status = l.status
        /\ FinishReconcile(w, l.err)
        /\ UNCHANGED <<fresh, faults>>
     \/ /\ Exists(ing[k]) /\ Stored(ing[k]).status # l.status
        /\ SetWorker(w, [l EXCEPT !.pc = "status"])
        /\ fresh' = [fresh EXCEPT ![k] = TRUE]
        /\ UNCHANGED <<wq, faults>>
  /\ UNCHANGED <<ing, route, created, cfg, resync, prober, probed, edits>>

-----------------------------------------------------------------------------
\* The prober's readyCallback: all probes of k's current hash were accepted.
ProbeSucceeds(k) ==
  /\ prober[k] # None
  /\ ~prober[k].ready
  /\ prober' = [prober EXCEPT ![k].ready = TRUE]
  /\ probed' = probed \cup {<<k, prober[k].hash>>}
  /\ wq' = Enqueue(wq, {k})
  /\ UNCHANGED <<ing, route, created, fresh, cfg, resync, worker, edits, faults>>

\* The process dies at any point and starts again: the caches are listed
\* anew, and each listed Ingress and each listed route enqueues its key, in
\* an order nothing fixes.
Restart ==
  /\ Fault
  /\ ing' = [k \in Keys |-> <<Stored(ing[k])>>]
  /\ route' = [h \in Hosts |-> <<Stored(route[h])>>]
  /\ wq' = Enqueue(EmptyQueue,
             {k \in Keys : ClassFilter(Stored(ing[k]))} \cup
             {Stored(route[h]).owner.key : h \in {g \in Hosts : Exists(route[g])}})
  /\ fresh' = [k \in Keys |-> FALSE]
  /\ worker' = [w \in Workers |-> IdleWorker]
  /\ prober' = [k \in Keys |-> None]
  /\ resync' = FALSE
  /\ UNCHANGED <<created, cfg, probed, edits>>

-----------------------------------------------------------------------------
WorkerStep(w) ==
  \/ ReadIngress(w)
  \/ ReconcileRule(w)
  \/ ProbeIngress(w)
  \/ UpdateStatus(w)
  \/ GetLatest(w)

Next ==
  \/ \E k \in Keys : \/ \E s \in Specs[k] : CreateIngress(k, s) \/ UpdateIngress(k, s)
                     \/ DeleteIngress(k)
                     \/ IngressEvent(k)
                     \/ \E n \in 2 .. Len(ing[k]) : IngressRelist(k, n)
                     \/ RunConsumer(k)
                     \/ ProbeSucceeds(k)
  \/ \E c \in Configs : ChangeConfig(c)
  \/ GlobalResync
  \/ \E h \in Hosts : \/ GatewayAdmits(h) \/ GatewayRejects(h) \/ GatewayForgets(h)
                      \/ CollectRoute(h) \/ DeleteRoute(h)
                      \/ RouteEvent(h)
                      \/ \E n \in 2 .. Len(route[h]) : RouteRelist(h, n)
  \/ \E w \in Workers : ProcessNextWorkItem(w) \/ WorkerStep(w)
  \/ Restart

Spec == Init /\ [][Next]_vars

-----------------------------------------------------------------------------
(* Fairness.  The threads of the controller, its informers, timers and     *)
(* callbacks keep running; the gateway's controller admits a route that    *)
(* stays, its pods eventually answer the probes of a hash that stays, and  *)
(* the garbage collector collects.  Users and faults owe nothing.          *)

Fairness ==
  /\ \A k \in Keys : /\ WF_vars(IngressEvent(k))
                     /\ WF_vars(RunConsumer(k))
                     /\ WF_vars(ProbeSucceeds(k))
  /\ \A h \in Hosts : /\ WF_vars(RouteEvent(h))
                      /\ WF_vars(GatewayAdmits(h))
                      /\ WF_vars(CollectRoute(h))
  /\ \A w \in Workers : WF_vars(WorkerStep(w))
  /\ WF_vars(\E w \in Workers : ProcessNextWorkItem(w))
  /\ WF_vars(GlobalResync)

FairSpec == Spec /\ Fairness

-----------------------------------------------------------------------------
(* Properties. *)

Services == {c[v].service : c \in Configs, v \in Visibilities}
Gateways == {c[v].gateway : c \in Configs, v \in Visibilities}

AllSpecs == UNION {Specs[k] : k \in Keys}

Statuses == [conditions : Conditions, observedGeneration : Nat,
             lb : {None} \cup (Services \X Services)]

IngressObjects == [uid : Nat, generation : Nat, spec : AllSpecs, status : Statuses]

RouteSpecs ==
  UNION {{MakeHTTPRouteSpec(s.rules, i, c) : i \in DOMAIN s.rules, c \in Configs} :
           s \in AllSpecs}

RouteObjects ==
  [owner : [key : Keys, uid : Nat], spec : RouteSpecs,
   status : {None} \cup SUBSET [gateway : Gateways, admitted : BOOLEAN],
   from : [key : Keys, uid : Nat, generation : Nat]]

\* no route is nil
ASSUME RoutesAssumption == None \notin RouteObjects

\* nor is a list of gateways' answers
ASSUME AnswersAssumption ==
  \A answers \in SUBSET [gateway : Gateways, admitted : BOOLEAN] : answers # None

\* nor is a list of load balancers
ASSUME LoadBalancersAssumption == None \notin Services \X Services

Hashes == {ComputeHash(s.rules) : s \in AllSpecs}

ProbeStates == [hash : Hashes, ready : BOOLEAN]

\* nor what the prober knows of a key
ASSUME ProbeStatesAssumption == None \notin ProbeStates

Queues == [queue : Seq(Keys), dirty : SUBSET Keys, processing : SUBSET Keys,
           waiting : SUBSET Keys]

Logs(objects) == Seq({None} \cup objects) \ {<< >>}

WorkerStates ==
  [pc : {"idle", "read", "rules", "probe", "status", "get"},
   key : {None} \cup Keys, cfg : {None} \cup Configs,
   orig : {None} \cup IngressObjects, rule : Nat,
   status : {None} \cup Statuses, err : BOOLEAN, attempt : 0 .. MaxAttempts - 1]

\* A thread inside Reconcile has a key and a configuration; once it has read
\* the Ingress it has a copy, a status, and while in the loop a rule of it.
WorkerOK(l) ==
  /\ l.pc # "idle" => l.key \in Keys /\ l.cfg \in Configs
  /\ l.pc \in {"rules", "probe", "status", "get"} =>
       l.orig \in IngressObjects /\ l.status \in Statuses
  /\ l.pc = "rules" => l.rule \in 1 .. Len(l.orig.spec.rules)

\* Every variable of the controller has the shape the code gives it: version
\* logs are never empty, queues hold keys, a busy worker holds what its place in
\* Reconcile promises, and retries stay within their limit.
TypeOK ==
  /\ ing \in [Keys -> Logs(IngressObjects)]
  /\ route \in [Hosts -> Logs(RouteObjects)]
  /\ created \in [Keys -> 0 .. MaxIncarnations]
  /\ fresh \in [Keys -> BOOLEAN]
  /\ cfg \in Configs
  /\ resync \in BOOLEAN
  /\ wq \in Queues
  /\ worker \in [Workers -> WorkerStates]
  /\ \A w \in Workers : WorkerOK(worker[w])
  /\ prober \in [Keys -> {None} \cup ProbeStates]
  /\ probed \subseteq Keys \X Hashes
  /\ edits \in 0 .. MaxEdits
  /\ faults \in 0 .. MaxFaults

\* The copy a worker may still write to exists.
FreshExists == \A k \in Keys : fresh[k] => Exists(ing[k])

\* A route is deleted only when it exists: no two deletions follow each other.
RouteLogsOK ==
  \A h \in Hosts : \A i \in 1 .. Len(route[h]) - 1 :
    route[h][i] # None \/ route[h][i + 1] # None

\* One key is never reconciled by two threads at once, however its events,
\* timers and callbacks interleave; Prober.IsReady relies on it ("IsReady is
\* not called concurrently", status.go).
SingleFlight ==
  /\ \A v, w \in Workers :
       v # w /\ worker[v].pc # "idle" => worker[v].key # worker[w].key
  /\ \A w \in Workers : worker[w].pc # "idle" => worker[w].key \in wq.processing

IsIngressReady(o) ==
  /\ o.status.observedGeneration = o.generation
  /\ o.status.conditions[Happy] = "True"

Rules(k) == Stored(ing[k]).spec.rules

\* An Ingress that reports Ready for its latest generation has had exactly
\* that spec accepted by the gateway pods: neither a failed pass over the
\* rules, a condition left over from an older generation, a conflicting
\* status write nor a restart makes it report Ready early.
ReadyImpliesProbed ==
  \A k \in Keys :
    Exists(ing[k]) /\ IsIngressReady(Stored(ing[k]))
      => <<k, ComputeHash(Rules(k))>> \in probed

\* "IngressConditionReady is set when the Ingress networking setting is
\* configured and it has a load balancer address" (ingress_types.go): in every
\* stored status Ready comes with both dependents True and with addresses.
ReadyHasLoadBalancer ==
  \A k \in Keys :
    Exists(ing[k]) =>
      LET s == Stored(ing[k]).status IN
        /\ HappyImpliesDependents(s.conditions)
        /\ s.conditions["LoadBalancerReady"] = "True" => s.lb # None

Converged(k) ==
  LET o == Stored(ing[k]) IN
    Exists(ing[k]) /\ o.spec.class = "ours" =>
      /\ \A i \in DOMAIN Rules(k) :
           LET r == Stored(route[RouteName(Rules(k), i)])
           IN  r # None /\ r.spec = MakeHTTPRouteSpec(Rules(k), i, cfg)
      /\ IsIngressReady(o)
      /\ o.status.lb = <<LookupService(cfg, "ExternalIP"),
                         LookupService(cfg, "ClusterLocal")>>

AtRest ==
  /\ \A k \in Keys : Synced(ing[k])
  /\ \A h \in Hosts : Synced(route[h])
  /\ Idle(wq) /\ ~resync

Quiet ==
  /\ AtRest
  /\ \A k \in Keys : prober[k] # None => prober[k].ready
  /\ \A h \in Hosts :
       Exists(route[h]) => /\ Stored(route[h]).status = Admission(h, TRUE)
                           /\ ~OwnerGone(Stored(route[h]))

\* No wake-up is ever lost: once nothing is left to deliver, to retry or to
\* answer, every Ingress of this class has all its HTTPRoutes as the current
\* spec and the current configuration want them and is Ready with the current
\* load balancers, whatever was edited, deleted, refused or restarted before.
QuietMeansConverged == Quiet => \A k \in Keys : Converged(k)

Owns(k, h) ==
  LET r == Stored(route[h])
  IN  r # None /\ r.owner = [key |-> k, uid |-> Stored(ing[k]).uid]

\* Ingresses that name the same first host write to the same HTTPRoute, for
\* reconcileHTTPRoute looks it up by host and never compares owners.  The dispute
\* ends: route events wake only the owner, so once all is quiet an Ingress that
\* owns all its routes has them as it wants them and is Ready, whatever its
\* rivals read and wrote in between.
OwnerConverges ==
  Quiet => \A k \in Keys :
    Exists(ing[k]) /\ (\A i \in DOMAIN Rules(k) : Owns(k, RouteName(Rules(k), i)))
      => Converged(k)

Admitted(r) == \E g \in r.status : g.gateway = r.spec.gateway /\ g.admitted

\* "Waiting for HTTPRoute becomes Ready" (ingress.go), "IngressConditionNetwork-
\* Configured is set when the Ingress's underlying network programming has been
\* configured" (ingress_types.go): when the controller is at rest and an Ingress
\* reports Ready for its latest generation, each of its HTTPRoutes has been
\* admitted by the gateway it names.
ReadyMeansAdmitted ==
  \A k \in Keys :
    AtRest /\ Exists(ing[k]) /\ IsIngressReady(Stored(ing[k])) =>
      \A i \in DOMAIN Rules(k) :
        LET r == Stored(route[RouteName(Rules(k), i)])
        IN  r # None => r.status # None /\ Admitted(r)

\* A controller write never takes an HTTPRoute back to an older generation of
\* the same Ingress: stale caches, conflicts and concurrent workers included.
RouteNeverRegresses ==
  [][\A h \in Hosts :
       LET old == Stored(route[h])
           new == Stored(route'[h])
       IN  old # None /\ new # None /\ old.from.key = new.from.key
             /\ old.from.uid = new.from.uid
           => old.from.generation <= new.from.generation]_vars

\* The generation an Ingress reports as observed never goes backwards while
\* the Ingress lives, although statuses are computed from cached copies and
\* written over whatever version the API server holds after a conflict.
ObservedGenerationMonotone ==
  [][\A k \in Keys :
       LET old == Stored(ing[k])
           new == Stored(ing'[k])
       IN  old # None /\ new # None /\ old.uid = new.uid
           => old.status.observedGeneration <= new.status.observedGeneration]_vars

\* Once edits and faults cease, every Ingress converges and stays converged:
\* retries, resyncs and callbacks always reach it and nothing undoes it.
EventuallyConverged == <>[](\A k \in Keys : Converged(k))

=============================================================================
