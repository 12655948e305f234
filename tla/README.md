# net-gateway-api: a TLA+ model of the Ingress controller

net-gateway-api turns Knative `Ingress` objects into Gateway API `HTTPRoute`
objects and reports when the gateway's pods serve them. The code is small; what
makes it work or fail is how it is driven: informer caches that lag, a queue
shared by worker threads, refused writes, a gateway that admits routes whenever
it likes, and a prober whose goroutines race with the reconciler. That is what
most of these modules describe. The others take up what the first ones keep
opaque: the generated client code, the translation of rules, the configuration.

`PROJECT.json` maps every definition to the lines it models, lists the hazards
of the code with the properties that cover them, and the findings.

## Inventory

Paths are relative to `src/`; `R` is `pkg/reconciler/ingress`, `K` is
`vendor/knative.dev`.

| Part | State | Operations | What makes it correct |
|---|---|---|---|
| Ingress reconciler (`R/ingress.go`, `R/reconcile_resources.go`) | none of its own; the pass's copy and status | `ReconcileKind`, `reconcileIngress`, `reconcileHTTPRoute`, `IsHTTPRouteReady` | routes follow the latest spec and configuration, Ready only when all is served |
| Controller wiring (`R/controller.go`) | the event handlers | Ingress and HTTPRoute handlers, resync, ready callback | no change goes unnoticed |
| HTTPRoute resources (`R/resources`) | pure, but for a sort in place | `MakeHTTPRoute`, `makeHTTPRouteRule`, `LongestHost` | a gateway does with the route what the Ingress says; probes verify it |
| Gateway configuration (`R/config`, `K/pkg/configmap`) | the stored configuration | parse, store, `ToContext`, look-ups, the watcher's start-up | a pass sees one complete configuration; a valid change takes effect, an invalid one harms nobody |
| Probe target lister (`R/lister.go`) | none | `ListProbeTargets` | lists what must be probed, or fails |
| Status prober (`K/networking/pkg/status/status.go`) | `ingressStates`, counters, contexts, work items | `IsReady`, `processWorkItem`, `onProbingSuccess`, `onProbingCancellation` | ready exactly when every target accepted; always calls back |
| Generated reconciler (`K/networking/pkg/client/injection/reconciler/.../ingress/reconciler.go`, `K/pkg/reconciler`) | none | `Reconcile`, `PreProcessReconcile`, `PostProcessReconcile`, `updateStatus` | status never goes backwards, never describes another spec |
| Condition set (`K/pkg/apis/condition_set.go`, `ingress_lifecycle.go`) | the conditions | `MarkTrue`, `MarkUnknown`, `MarkFalse`, `InitializeConditions` | Ready implies its dependents |
| Work queue (`vendor/k8s.io/client-go/util/workqueue/queue.go`, `K/pkg/controller`) | queue, dirty, processing, lanes, timers | `Add`, `Get`, `Done`, `AddRateLimited`, `handleErr` | one worker per key, no key lost |
| Generated clients (`pkg/client/gatewayapi`) | informers of a factory, which are started, their stores | nine client methods for seven kinds, their fakes, `InformerFor`, `Start`, `WaitForCacheSync`, listers, injection | a lister shows one version of what was asked for; tests on the fake see what the cluster does |
| API server, gateway controller, garbage collector, users | objects, route status | writes | external: modelled as the controller sees them |

How they interact. An informer event, the config store's resync, the prober's
callback or a failed pass puts a key into the queue. A worker takes it, freezes
the configuration, reads the Ingress from the informer cache, and per rule reads
the route from its lister and creates or updates it through the API server. It
then asks the prober whether this hash of the Ingress is served, and writes the
status, which comes back as an event. The prober works on its own goroutines and
calls back once.

Hard behaviours: events during a pass; caches older than the worker's own
writes; conflicts and their retries; failures between two rules; a configuration
change in the middle of a pass; an Ingress deleted and created again while the
garbage collector is still at its old route; restarts; counters decremented and
cancelled at the same time; a callback before the state it is about is
published; watches that break and the versions lost with them; two Ingresses
that want the same route; informers requested and started by several threads; a
ConfigMap that is bad at the wrong moment. The list with code lines is `hazards` in `PROJECT.json`.

## Modules

| Module | Models |
|---|---|
| `ConditionSet` | the living condition set, as functions on a map from condition type to status |
| `WorkQueue` | the queue as a value: `Add`, `Get`, `Done`, and the set of keys waiting in a lane or for a timer |
| `Resources` | which HTTPRoute a rule becomes; defaulting; hash; look-ups |
| `IngressController` | the controller: API objects and caches, users, gateway, garbage collector, event handlers, worker threads, status update, prober as the reconciler sees it, restarts |
| `StatusProber` | the prober in detail |
| `ProbeContract` | what the reconciler may rely on of the prober; `StatusProber` implements it |
| `TypedClients` | the generated client code of the seven kinds, as functions: which request a method makes, which action its fake, which informer an accessor hands out, what a lister answers, what injection passes on |
| `ClientCache` | that code at work, for one kind at a time: writers, threads that start and read informers, reflectors, and a fake beside the server |
| `VersionLog` | what an informer cache promises; `ClientCache` implements it, `IngressController` and `GatewayConfig` are built on it |
| `RouteRules` | the data path of `reconcileIngress`: defaults, probe paths, routes, probe URLs, and what a gateway does with a request |
| `GatewayConfig` | the ConfigMaps, the watcher, the store, the reconciles that load it, and the life of the process |
| `MC...` | instances for TLC |
| `WorkQueueProofs` | lemmas about the queue's operations |
| `IngressControllerProofs` | types of the controller, one worker per key; lemmas about logs, conditions, routes |
| `IngressControllerSafety` | what a status may claim; routes and statuses do not go back |
| `IngressControllerConvergence` | no wake-up is lost; owners converge |
| `StatusProberProofs` | invariants of the prober, and that it implements `ProbeContract` |
| `GatewayConfigProofs` | types of the configuration, every load is complete, no change is lost |
| `ClientCacheProofs` | listers, the fake, and that the cache implements `VersionLog` |
| `RouteRulesProofs` | the routes do what the Ingress says, and probes reach their rule |

### IngressController

*Objects and caches.* `ing[k]` and `route[h]` are logs of versions. The last
entry is what the API server holds, the first what the informer cache holds,
those in between are watch events under way. A write appends; a watch event
drops the head and runs the handlers; with `WatchesBreak`, a list after a broken
watch drops any number of heads, and the handlers see only the difference
(`IngressRelist`, `RouteRelist`). That the caches behave like this is not taken
for granted: `ClientCache` implements `VersionLog`, which says exactly this.
`None` is "no object", so the log also carries deletions. An update sent with the cached route is refused with a
conflict exactly when the log has more than one entry (the resourceVersion is no
longer the latest); a create is refused when the route exists. For the status
update it is not enough to look at the log, because the worker's copy may be
older than the cache: `fresh[k]` is true while nobody has written to `k` since
its worker read the version it would overwrite (from a synced cache, or by the
`Get` of a later attempt).

*A pass* is a sequence of steps of one worker, each of which reads shared state
or makes one API call: `ProcessNextWorkItem` (take the key, freeze the
configuration), `ReadIngress`, one `ReconcileRule` per rule, `ProbeIngress`,
`UpdateStatus` and, after a conflict, `GetLatest`. Each has the code's error
exits: a refused write or a failing lister marks the Ingress not ready, bumps the
observed generation, writes the status and requeues the key, as `ReconcileKind`,
`PostProcessReconcile` and `handleErr` do.

*Environment.* `CreateIngress`, `UpdateIngress` (generation changes with the
rules, not with the class annotation), `DeleteIngress`, `ChangeConfig` and the
resync that follows it; `GatewayAdmits`, `GatewayRejects`, `GatewayForgets`;
`CollectRoute`; `DeleteRoute`; `Restart`. `MaxFaults` bounds failures (rejected
or deleted routes, API errors, failed listings, restarts), `MaxEdits` user edits.

*History variables* `probed`, `created` and the field `from` of a route record
what properties speak about; the code has UIDs for `created` and nothing for
the others. They guard nothing (but the bound on `created`).

*Abstractions.*
- A host is its alphabetical rank and a rule's hosts are a set: `LongestHost`
  sorts the rule's slice in place before the names are copied into the route, so
  their order in the spec does not survive. A rule without a host is left out:
  admission accepts one (`ingress_validation.go:58-70` looks at HTTP blocks only), but
  Knative submits none and `LongestHost` would panic on it.
- A rule's HTTP block is an opaque value (`RouteRules` opens it). The hash of an Ingress is its
  defaulted rules: the code's hash covers the spec, namespace and name, and is
  taken to have no collisions. Namespace and name are left out because hashes are
  only compared with hashes of the same key.
- Reasons, messages, times and Kubernetes events of conditions are left out, so
  a status that differs only in a reason counts as unchanged.
- The lanes of the two-lane queue and the rate-limiting timers are one set,
  `waiting`, from which keys reach the consumer queue in any order: more orders
  than the code has, never fewer.
- One replica, the leader.
- The Gateway informer's handler enqueues the controlling owner of a Gateway.
  Gateways have none, so the handler changes nothing.
- The reconciler's prober (`prober[k]`) is a state per key: a hash and whether it
  is ready. It is justified by `ProbeContract`: at any time the prober knows one
  hash per key, and it becomes ready once, with a callback.

### StatusProber

A step is a critical section of `mu`, one atomic operation on a counter, or the
outcome of a probe. `state[id]` are the `ingressState` objects ever allocated;
`ingressStates[k]` is the map entry. A call of `IsReady` is `Lookup`,
`ListProbeTargets` (or `ListFails`), `QueueItems` per pod, `Publish`; in between,
the probes of pods already queued run. Per work item: `ProbeAccepted` (or
`ProbeDropped`), `PodDec`, `IngressDec`, `ItemCallback`. Per pod goroutine:
`WatcherLoad`, `WatcherCAS`, `WatcherDec`, `WatcherCallback`. A probe that fails
is queued again and stays pending. Delays, ports and HTTP codes are left out:
what matters is whether a probe was accepted. `CancelPodProbing` and
`CancelIngressProbing` are not actions because nothing calls them.

### TypedClients, ClientCache, VersionLog

The generated files are instances of templates. `TypedClient`, `FakeClient`,
`NewFilteredInformer`, `NamespaceLister` and `ClusterLister` are the templates;
`BackendPolicies`, `FakeGateways`, `TCPRouteInformer` and so on are the
instances, each with the resource name, scope and client its own file has. A
request is a verb, a resource and the parts the method puts into it.

`ClientCache` chooses one kind and one set-up in `Init` and then lets everything
interact. `server` is the history of the API server's store; a request that
names the wrong resource, or a namespace for a cluster-scoped kind, does not
reach it. `Create`, `Update`, `UpdateStatus`, `Patch`, `Delete` and
`DeleteCollection` send a whole body. The server keeps the status out of `Create`,
`Update` and `Patch` and everything else out of `UpdateStatus`, refuses specs the schema
forbids (`SchemaAllows`), and refuses an update made from a copy, any a client may
still have, that is not the latest.

A set-up has one of three modes:

- `injection`: one thread has clients, factories and informers injected
  (`SetupInformers`) and started (`StartInformers`). The factories are those of the
  context: one without selectors, or one per different selector, as
  `withFilteredInformerFactories` keys them, all of which list with the last selector.
  `StartInformers` runs each injected informer itself, so that one whose selector was
  given twice gets two reflectors.
- `factory`: two threads share a program's own factories, one per selector, take an
  informer (`Request`, by accessor or by resource) and `Start` its factory, which runs
  what is not started yet.
- `fake`: no informers; every call goes to the fake's tracker as well as to the
  server. The tracker stores what it is sent: no schema, no conflict, no status
  subresource, no delete-collection. `alike` is a history variable, the objects for which
  the calls so far have left both sides the same.

After `WaitForCacheSync` threads read. Reflectors `List` at any version not older than
the last they saw, `WatchEvent`, and `WatchExpires`. The API server, the tracker and
the reflector are external.

### RouteRules

One reconcile of one Ingress, and another after an edit: `Prepare` (defaults, the
prober's copy, `InsertProbe`), `ReconcileRule` per rule with the sort in place,
the look-up by first host and the overwriting, `AskProber`. The API server refuses
a route with more rules, hosts or backends in a rule than its schema allows
(`WithinSchema`). Hosts are ranks,
paths sequences of segments, headers names. `GatewayAnswers` is the external
gateway with the precedence its API prescribes; where that goes by the age of
routes, which the model does not have, any of them may answer. `IngressAnswer`, the
reference, is what `ingress_types.go` says of an Ingress, a redirection to HTTPS if it asks for
one. The properties compare the two for
every user's request, and follow every probe URL to the hash it comes back with.
They speak of one host at a time: of those that one rule serves with a route to
itself (`ServedAlone`) and that no route left over from an earlier spec lists
(`NoLeftover`), whatever is wrong with other hosts of the same Ingress.
Probes go to the path `/healthz`. A user's path that matches it without headers,
usually the empty path or `/` and sometimes `/healthz` itself, lets its probe copy
answer with the hash (`CatchesProbes`). `SortHosts` is any permutation that
ascends, as `sort.Strings` promises no more.

### GatewayConfig

Each ConfigMap is a log of versions. The main thread goes through `InitialList`,
`CheckObservedResourcesExist` and `WaitForAllKeys` while the informer's thread
already handles events (`OnConfigChanged` with the constructor and the store,
`OnAfterStore` with the resync). A first value that cannot be parsed kills the
process, as does a deletion learned from a list (`DeleteConfigMapEvent`); the
cluster starts it again. `Load` and `Finish` are a reconcile. `NoChangeIsLost` follows a
change from the cache through the notification, the store and the resync to the
reconcile that has it.

## Runs

| Run | What it checks and shows |
|---|---|
| `edits` | One Ingress, two specs (one rule; two rules with both visibilities), two configurations, two workers, two edits. Types, one worker per key, Ready only for probed specs and with load balancers, routes and observed generations never go backwards, and convergence when nothing is left to do. |
| `shared_host` | Two Ingresses with the same host and different backends, created in any order while caches lag by up to two versions: the owner of the route ends with the route it wants. |
| `live` | `EventuallyConverged` under fairness, and `QuietMeansConverged`, with class changes, deletion and recreation under the same name (the old route adopted, then collected) and one failure of any kind. |
| `pods` | Prober: two pods with two URLs each, one version and its cancellation by another. Counters, callbacks, contract, end of probing. |
| `versions` | Prober: an old and a new version side by side, one pod that may vanish. |
| `clients` | All seven kinds, five set-ups (the controller's own; injected with namespace and label; injected with the same label twice; a factory shared by two threads; a test on the fake), two writes, one expiry per informer. Listers show a snapshot, the cache implements `VersionLog` and catches up, and the fake agrees with the server on every object whose calls they take alike. |
| `routing` | 2752 Ingresses of one or two rules with up to three paths, too many hosts or too many splits, both visibilities, redirected or not, overlapping and disjoint hosts, and one edit of each to one of six others. Requests of users and probes. |
| `config` | Eight contents of config-gateway (three good, five rejected for different reasons), two of config-network, two edits or deletions, one crash. Types, complete loads, no change lost, valid changes take effect. |
| `not_admitted`, `old_status`, `missed_delete`, `lost_pod` | Violations, see Findings. |

Deadlock is not checked for the controller, the clients, the translation and the
configuration: they rest when edits and faults are used up and everything has
converged. The prober never rests (`Lookup` of a
known hash is always possible), so there deadlock is checked and means little.

*Bounds.* `MaxEdits = 2` is create plus one change (3 for delete and recreate),
which is what it takes for a stale copy, a conflict or an interrupted probe.
`MaxLag` = 1 or 2 bounds the watch events under way per object when a writer
writes; with 2 a cache can miss a spec change and a status change at once. It
delays writers in the model and refuses none. `MaxAttempts = 2` stands for the
code's 5: the first attempt uses the cached copy, all later ones fetch the
latest, so one later attempt shows every kind of step, and exhausting attempts
happens sooner. `MaxIncarnations = 2` is needed only for recreation. `WatchesBreak` is on in
`edits`, where no route is deleted behind the controller's back, and in
`missed_delete`, where one is. Two
workers are the least that can interfere, and by `SingleFlight` a third could
only work on a third key. In the prober two pods and two URLs are the least for
which "the last URL of the last pod" is a race; two allocated states are an old
and a new version.

In `clients` two writes and an expiry are the least for which a list can skip a
version or a second reflector could fall behind the first; two objects, in two
namespaces where the kind has them, and two labels tell scopes and selectors
apart. Every kind has an object before the first call; only a Gateway is not `alike`
then, as the fake does not find it (see Findings). The bodies are a change of each of
spec, status and label, and a spec the schema refuses. In `routing` `MaxItems = 4` stands for
the schema's 16, so that three paths with their probes, five hosts and five
splits are too many. In `config`
two edits are enough for good-bad, bad-good, delete-recreate and for a change
during start-up or a reconcile.

*Symmetry* is declared for workers and, in `versions`, for hashes, pods and URLs,
in runs that check safety only.

*Fairness* (`live`, `pods`, `lost_pod`, `clients`, `config`). Weak fairness of each informer, worker,
timer, callback and goroutine step: they are goroutines that block on nothing but
what their guard says. Taking a key is fair for the workers together, since
which one takes it is the scheduler's choice. The gateway's controller is assumed to
admit a route that stays, pods to serve eventually what was configured, the
garbage collector to collect; these are assumptions about other programs, and
without them nothing the controller does could make an Ingress ready. In `clients` start-up threads
and the reflectors of each selector's factory run on, and in `config` the main thread, the
informer, its handlers and the reconciles do, and the cluster restarts a dead
process (the Deployment's restart policy). Nothing is
assumed of users or of failures, and `lost_pod` assumes nothing of pods that are
gone.

## Findings

1. `not_admitted`: a two-rule Ingress becomes Ready though one of its routes was
   never admitted. The other rule marks `NetworkConfigured`; `MarkIngressNotReady`
   only touches Ready, which `MarkLoadBalancerReady` recomputes.
2. `old_status`: after a conflict, the status of a deleted Ingress is written to
   its successor of the same name, which reports Ready for an unprobed spec. It
   is corrected by the next pass.
3. `missed_delete`: a route deleted while the watch is broken is reported by the
   next list with a `DeletedFinalStateUnknown`; the class filter takes only
   `metav1.Object`s, so `EnqueueControllerOf`, which would handle it, never sees
   it. The Ingress stays Ready without its route until the informers' periodic
   resync.
4. `lost_pod`: a pod that disappears while being probed blocks readiness, since
   `CancelPodProbing` is connected to nothing.

Because of 1 `Converged` speaks of Ready and of the routes' specs, but admission is
in the premise `Quiet`; because of 2 `ReadyImpliesProbed` is checked in `edits`, with
one incarnation per name; because of 3 `live` has unbroken watches.

Seen while modelling, without a run of their own (`PROJECT.json` quotes the
lines): after the configuration names another gateway the old gateway's admission
still counts, and an empty, non-nil list of gateways counts as admitted. Two
rules with the same first host share a route, and the last one wins where the
Ingress type promises the first. A gateway prefers the longest path, the Ingress
type the first: hence the premises `ServedAlone` and `MostSpecificFirst` of
`RoutesLikeIngress`. Routes left over from an earlier first host go on answering
users and probes: hence `NoLeftover`. A Redirected Ingress is not redirected; its
option reaches only the port of its probes. `LongestHost` returns the alphabetically
first host. Filtered factories made for several selectors all use the last, and a
selector given twice makes one informer that is run twice: hence `OneSelector`. The fake clientset files a
Gateway it was created with under "gatewaies". A gateway configured without a
namespace is accepted, and the sample ConfigMap documents the key `gatewayClass`
where the code reads `class`. `FromContextOrDefaults` panics where it should
return defaults. A ConfigMap deletion learned from a list panics the process.

## Proofs

A theorem holds for every value of the constants that satisfies the assumptions
of the module; the run that checks the same property shows it on a small
instance. Each proof has an inductive invariant that TLC checked first, one
lemma per action or group of actions that shows the action keeps it, and a last
step in temporal logic.

| Theorem | Property | Run | Condition |
|---|---|---|---|
| `TypeCorrect`, `SingleFlightHolds` | `TypeOK`, `SingleFlight` | `edits` | |
| `ReadyComesWithLoadBalancer` | `ReadyHasLoadBalancer` | `edits` | |
| `ReadyIsProbed` | `ReadyImpliesProbed` | `edits` | while every name has been used once |
| `RoutesMoveForward` | `RouteNeverRegresses` | `edits` | |
| `ObservedMovesForward` | `ObservedGenerationMonotone` | `edits` | `MaxIncarnations <= 1` |
| `NoWakeUpIsLost` | `QuietMeansConverged` | `live` | unbroken watches; no two Ingresses ask for one route name |
| `OwnersConverge` | `OwnerConverges` | `shared_host` | |
| `ProberTypeCorrect`, `CountIsExact`, `CallsBackOnce`, `ReadyIsAccepted`, `WakesUp` | `TypeOK`, `PendingCountsPods`, `CallbackOnce`, `ReadyMeansAllAccepted`, `NoLostWakeup` | `pods`, `versions` | |
| `ImplementsContractHolds` | `ImplementsContract` | `pods`, `versions` | |
| `ConfigTypeCorrect`, `LoadsComplete`, `NoChangeIsLostHolds` | `TypeOK`, `LoadedIsComplete`, `NoChangeIsLost` | `config` | |
| `CacheImplementsVersionLog`, `ListersShow` | `ImplementsVersionLog`, `ListersShowASnapshot` | `clients` | in the properties: one selector, given once, when injected |
| `FakeAgreesHolds` | `FakeAgrees` | `clients` | in the property: objects that are `alike` |
| `RoutesAreTheIngress` | `RoutesLikeIngress` | `routing` | in the property, per host: one rule with a route to itself, the more specific path first, no leftover route; not Redirected |
| `ProbesReachTheirRule` | `ProbeVerifiesRule` | `routing` | in the property, per host: one rule with a route to itself, no leftover route |

### The queue and the controller

`WorkQueueProofs`: each operation of the queue preserves its type and its
discipline `QueueOK` (what is queued is dirty, is not being processed, and is
queued once), and lemmas say what it does to `processing`.

- `TypeCorrect`. `TypeOK` alone is not inductive. A worker may write a status only
  to an Ingress that exists, which needs `FreshExists`; the handler of a route
  deletion is handed the version before it, which needs `RouteLogsOK` (no two
  deletions in a row; `LogRelist` shows that a relist, which drops any number of
  heads, keeps it). `TypeInv` is their conjunction, in named parts, so that each
  action is proved only for the parts it disturbs.
- `SingleFlightHolds`. The strengthening `FlightInv` adds `QueueOK(wq)` and that an
  idle worker has no key. A busy worker's key is in `processing`; `Get` hands out
  only what is queued, and that is not in `processing`; the key leaves
  `processing` only with its worker.

`IngressControllerSafety` reasons about a log through two notions only: which
versions are in it, and which comes `Before` which. The cache's steps make it
`Loses` versions, a write makes it `Gains` one after all others.

- `ReadyComesWithLoadBalancer`. A pass starts from a cached copy, so it is not
  enough that the stored status is good. `StatusInv` says it of every version on
  its way to a cache and of the status each worker is computing.
- `RoutesMoveForward`. A route written from a cached copy of the Ingress could be
  older than the stored one. What rules that out are three facts together:
  `LogsInv` (versions of an incarnation are in order), `CopiesInv` (a worker's copy
  is not after anything its cache has still to see) and `StampsInv` (no route in
  any log is from a later version than the copy of the worker that reconciles its
  Ingress; here `SingleFlight` is used). `GenerationInv` is their conjunction.
- `ReadyIsProbed`, `ObservedMovesForward`. `RulesInv` says that equal generations have
  equal rules, `PendingInv` that a status about to be written speaks of the generation
  the pass read and is Ready only if those rules were probed, `ClaimsInv` that no
  version or copy claims to have observed more than there is to observe. The last
  is true only while a name has had one incarnation: a successor's generations
  start at 1 again, and finding 2 is the counterexample. Hence the conditions: the
  theorem about Ready holds in every state in which all names have been used
  once, the one about observed generations relates two states and is stated for
  `MaxIncarnations <= 1`, which is how `edits` is instantiated.

Assumptions: the bounds are numbers; the initial configuration is one of the
configurations; `None` is no key, configuration, route, list of gateways' answers,
list of load balancers or state of the prober; hosts
are ranks; submitted specs have at least one rule, as admission requires, and
each rule a host, which it does not check: `LongestHost` indexes the first one.

### Convergence

`QuietMeansConverged` says of states in which nothing is left to do that
everything has been done. To be kept by every step it must be said of all
states: whatever is out of date will be seen. `WakeInv` says for each Ingress
of this class: either its key will be handed to a worker once more (it is
`Woken`: waiting, dirty, to be resynced, or with an event about the Ingress under
way), or it is `Attended`. If a worker has the key, `Attended` means that what the
pass has done so far is current (`PassOK`): it has the latest configuration and
copy, nobody has written to the Ingress since (so that its status will be
accepted, and come back as an event), the routes of the rules behind it are as
the Ingress wants them, and before the prober is asked `NetworkConfigured` is
true if the gateway's answer has arrived. If no worker has it, the prober will
call back (`Unanswered`) or the Ingress is `UpToDate`: all routes as it wants them, its
latest generation observed, the current load balancers, and Ready once the
gateway's answer on the last rule's route has arrived (`LastHeard`). A route with
events under way is excused, as they will wake its owner.

The proof has two halves. Steps of others are `Calm` for a key: they leave its
objects alone, or they wake it (`CalmNext`, one lemma per kind of write, event
and restart). Steps of the pass itself keep `PassOK` (`ReadAttended`,
`RuleAttended`, `ProbeAttended`, `StatusAttended`; `ErrorAttended` for all error exits,
which requeue the key). A worker that has another key is a bystander (`Bystands`).
`OwnersInv` supplies that every route in any log is owned by an Ingress that asked
for its name, so that a route's event wakes the right key.

The two conditions of `NoWakeUpIsLost` are the code's. With a broken watch the
deletion of a route is not reported (finding 3, `missed_delete`); the condition is
sufficient and not necessary, `edits` checks the property with broken watches
when no route is deleted. When two Ingresses ask for one route name, only its
owner is woken, and the other one stays as it is (`shared_host`). `OwnersConverge`
needs neither: it speaks of Ingresses that own the routes they ask for, and
`WakeInv` is stated with `Claims` so that it covers both theorems.

### The prober

The invariant is `TypeOK`, `PodsInv`, `PendingCountsPods`, `CallsInv` and `KeysInv`. The
reason it has so many parts is that a decrement is not one step: between the
decrement of a pod's count and that of the state's count a goroutine owns the
pod, and between that and the callback it owns the call. `PodsInv` says that at
most one item or watcher owns a pod, and only when its count has reached 0;
`PendingCountsPods` that the state's count is the number of pods nobody has counted
off; `CallsInv` that at most one goroutine is about to call back, only at count 0,
and that at count 0 one is or has been; `KeysInv` that a published state belongs to
its key, is not cancelled, and that its callback has not been forgotten. From the
last three `CallbackOnce`, `ReadyMeansAllAccepted` and `NoLostWakeup` follow without
further induction. The refinement is proved action by action; the critical
case is the step that makes the state ready, which must be the step at which the
contract has nothing missing.

Assumptions: the number of states is a number; `IPs` and `URLs` are finite, as
`ListProbeTargets` returns lists; `None` is no state.

### The configuration

`LoadsComplete`: `StoredInv` (a handler that has returned, or waits for its
callbacks, has left a value in the store of a living process, and the process runs
only when all names were called back) and `GoodInv` (a stored gateway
configuration has a class and tokens that split for both visibilities, which
is what the constructor checks and what `ToContext` and the look-ups rely on).
`NoChangeIsLostHolds` has two invariants of its own. `FollowInv`: in a process that has
listed, the last thing queued about a ConfigMap is its cached version, or nothing
is queued and that version is stored if it parses; so a version that a relist
skipped, or that did not parse, does not matter. `ReconcileInv`: between a store and
the next load there is a callback or a resync to come.

`ConfigTypeCorrect` types all variables: caches and notifications carry content of
their own ConfigMap, and what is stored, loaded and applied is what the
constructors make of such content. It is the basis of the other two.

Assumptions: the bounds are numbers; `None` is none of the default gateways' names,
no ConfigMap's name and no configuration.

### The clients

The proof first shows, kind by kind, that the seven generated clients, fakes,
informers and listers are the templates with the kind's resource and scope
(`ClientOfKind`, `FakeOfKind`, `InformerOfKind`, `ResourceOfKind`, `InjectedOfKind`,
`FilteredOfKind`, `ListerOfKind`): a file that names the resource of another kind
would fail there. From then on the proof is about one kind. The invariant `IInv`
has four parts:

- `SetupOK`: the set-up is one of those given and does not change.
- `ServerOK`: consecutive stores of the server's history differ in exactly one
  object, so that a watch event, which reports one object, is enough.
- `TrackerOK`: outside a set-up on the fake nothing is `alike`; in one, the tracker holds
  exactly the latest content of each `alike` object, under the kind's resource (`AlikeAt`).
- If there is one selector (`OneSelector`), `CacheInv`: each informer has the definition
  its factory was asked for, one reflector once it is started, that reflector where
  the store is, and a store that shows a version once it has synced; the
  threads' informers are started before they wait and synced before they go on.
  That a started informer has one reflector is the fact the locking of `Start` is
  there for.

From it follow:

- `ListersShow`. Two ids never have the same key (`KeysDiffer`), so a lister's
  answers are the visible objects of the version. The condition `OneSelector` is
  there because of the code (see Findings): of injected factories with different
  selectors all list with the last one, and a selector given twice makes one
  informer with two reflectors, which may set its store back. It says nothing of
  factories a program makes itself.
- `FakeAgreesHolds`. One lemma per call (`CreateCall`, `UpdateCall`, ...) shows that a call
  which keeps its object `alike` changes both sides in the same way, and that other
  objects are left alone. The calls after which an object is not `alike` are those
  the fake is no replacement for, and they are listed at `FakeAgrees`.
- `CacheImplementsVersionLog`. An object's log is the sequence of the different values
  between the cache's version and the server's. `LogGrows` says that a call, which
  changes an object at most once, leaves it or appends one value, and `LogShrinks`
  that starting at a later version leaves it or drops some heads, with no other
  effect on the rest. Both need that the rank of a change among the changes is
  a bijection, and so induction over numbers; it is done through least elements
  (`LeastNumber`, from the well-foundedness of `<`), since the induction theorem
  itself cannot be instantiated here.

Assumptions: ids are finite sets of pairs, with a namespace exactly for
namespaced kinds; there is a label, and bodies are made of it, a spec and a
status; set-ups have one of the three modes and at least one selector; `None` is no
object.

### The translation

`RoutesAreTheIngress` compares a gateway's choice among all candidates of all
routes, for a host that one rule serves alone, with the first path of that rule
that matches. `TranslationInv` has four parts: the prober's copy is a defaulted spec (`StageInv`); the reconciler's
has, at every rule still to come, what `InsertProbe` made of it (`CopyInv`); each
route already written is what one of the rules with that first host becomes
(`RoutesInv`); and a pass fails only at a rule with a list that is too long (`RefusedInv`).
The rest of the argument is about one state and needs no induction:

- `SortedHosts`: an ascending permutation of finitely many hosts exists
  (`SortOneMore`, `OrderExists`) and has the least host in front. So the name of a
  rule's route is one of its hosts (`NameIsHost`). A rule that serves a host alone
  keeps the route of its name (`AloneOwnsRoute`), and without leftovers that is the only
  route that lists the host (`ServedByRule`), with a probe and a user's rule per path
  (`RouteOfRule`).
- A probe copy matches no request without the hash header, so a user's request
  has only the user's paths as candidates, and of these the first that matches
  precedes all others, because the more specific come first (`UserReachesFirstPath`;
  `PrefixesNest`: of two prefixes of one path the longer is more specific).
- A request with the hash header matches a probe copy whenever it matches the
  user's path, and the copy has one header more: it precedes the user's paths of
  its length (`ProbePathWins`). Whichever copy wins sets the hash of the spec before the
  insertion, which is the prober's copy (`ProbeCarriesHash`).

Where the definitions say first or best, the proofs use that every non-empty set
of numbers has a least element (`MinIsLeast`), by the well-foundedness of `<`, in
place of induction.

Assumptions: the specs are records of the Ingress type whose paths have a split
and whose rules have a host; users' headers are finitely many and the hash
header, Knative's own, is not among them.

### Only model-checked

Every invariant and every action property of a passing run is proved. Left to
TLC is liveness: `EventuallyConverged`, `ProbingEnds`, `CacheCatchesUp`,
`ConfigTakesEffect`, and everything about `ENABLED`. The prover has no rules for
fairness.

## Not modelled

- Leader election and several replicas: the models describe the leader.
- The informers' periodic resync (ten hours by default): it would hide what a
  lost notification does for that long.
- The two lanes of the queue and the rate limiter as machines of their own; one
  set of waiting keys has all their orders and more.
- Time: timeouts, back-off and probe delays are left to interleaving.
- Injection of the fakes into test contexts; entry point, manifests, tests.
- Finalizers and observers: this reconciler has neither. `CancelPodProbing`,
  `CancelIngressProbing`: nothing calls them.
- Gateway pods that differ between the external and the local service.

## Plan

`TwoLaneQueue`: lanes, consumers and rate limiter as a machine that refines the
queue used here.
