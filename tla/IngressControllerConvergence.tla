-------------------- MODULE IngressControllerConvergence --------------------
(***************************************************************************)
(* No wake-up is lost, for every instance: when the controller is at rest  *)
(* and the cluster has answered, every Ingress has the routes and the      *)
(* status its latest spec and the latest configuration ask for.            *)
(*                                                                         *)
(* What makes it so is one invariant, WakeInv.  An Ingress whose key will  *)
(* be handed to a thread once more is left out of it: that pass will see   *)
(* to everything.  For any other Ingress, what the thread working on it    *)
(* has done so far, or what the last pass left behind, is up to date.  A   *)
(* route with events under way is left out in the same way: the event will *)
(* wake its owner.                                                         *)
(***************************************************************************)
EXTENDS IngressControllerSafety

-----------------------------------------------------------------------------
(* What is promised to whom. *)

\* No two Ingresses may ask for routes of the same name.
HostsNotShared ==
  \A j, k \in Keys : \A s \in Specs[j], t \in Specs[k] :
    \A i \in DOMAIN s.rules, n \in DOMAIN t.rules :
      RouteName(s.rules, i) = RouteName(t.rules, n) => j = k

\* Every route an Ingress asks for is its own, and its deletion is noticed.
Undisturbed == ~WatchesBreak /\ HostsNotShared

\* The promise about a route is made to its owner.
Claims(k, log) == Undisturbed \/ (Exists(log) /\ Stored(log).owner.key = k)

\* A route without events under way is as its claimant wants it.
RouteAs(k, log, spec) ==
  Claims(k, log) /\ Synced(log) => Exists(log) /\ Stored(log).spec = spec

\* The routes of the rules before the n-th.
RoutesAs(k, rules, n, c, routes) ==
  \A i \in DOMAIN rules :
    i < n => RouteAs(k, routes[RouteName(rules, i)], MakeHTTPRouteSpec(rules, i, c))

\* The gateway's answer on the last rule's route has reached its claimant.
LastHeard(k, rules, routes) ==
  LET log == routes[RouteName(rules, Len(rules))]
  IN  Claims(k, log) /\ Synced(log) /\ Exists(log) /\ IsHTTPRouteReady(Stored(log))

\* What a pass leaves behind when the prober knew the answer.
UpToDate(k, o, c, routes) ==
  LET rules == o.spec.rules IN
  /\ RoutesAs(k, rules, Len(rules) + 1, c, routes)
  /\ o.status.observedGeneration = o.generation
  /\ o.status.lb = <<LookupService(c, "ExternalIP"), LookupService(c, "ClusterLocal")>>
  /\ LastHeard(k, rules, routes) => o.status.conditions[Happy] = "True"

-----------------------------------------------------------------------------
(* The invariant. *)

Managed(k) == Exists(ing[k]) /\ Stored(ing[k]).spec.class = "ours"

\* The queue will hand k to a thread once more.
Calls(q, k) == k \in q.waiting \/ k \in q.dirty

\* So it will be, now or after an event or a resync under way.
Woken(k) == Calls(wq, k) \/ ~Synced(ing[k]) \/ resync

Busy(w, k) == worker[w].pc # "idle" /\ worker[w].key = k

\* The prober will call back.
Unanswered(k) == prober[k] # None /\ ~prober[k].ready

\* A pass works on what is stored, and what it has done is still right.
PassOK(k, l, new, o, c, routes) ==
  LET rules == o.spec.rules IN
  /\ l.cfg = c
  /\ l.pc # "get"
  /\ InPass(l) => new /\ l.orig = o
  /\ l.pc = "rules" => RoutesAs(k, rules, l.rule, c, routes)
  /\ l.pc = "probe" =>
       /\ RoutesAs(k, rules, Len(rules) + 1, c, routes)
       /\ LastHeard(k, rules, routes) => l.status.conditions["NetworkConfigured"] = "True"

Attended(k) ==
  /\ \A w \in Workers :
       Busy(w, k) => PassOK(k, worker[w], fresh[k], Stored(ing[k]), cfg, route)
  /\ (\A w \in Workers : ~Busy(w, k)) =>
       Unanswered(k) \/ UpToDate(k, Stored(ing[k]), cfg, route)

WakeInv == \A k \in Keys : Managed(k) /\ ~Woken(k) => Attended(k)

-----------------------------------------------------------------------------
(* The queue forgets no key it was given. *)

LEMMA CallsKept ==
  ASSUME NEW q \in Queues, NEW k \in Keys
  PROVE  /\ \A S \in SUBSET Keys : Calls(Enqueue(q, S), k) <=> Calls(q, k) \/ k \in S
         /\ \A j \in Keys : Calls(q, k) => Calls(ConsumerAdd(q, j), k)
         /\ \A j \in Keys : Calls(Done(q, j), k) <=> Calls(q, k)
         /\ CanGet(q) /\ k # Head(q.queue) => (Calls(q, k) => Calls(Get(q), k))
<1>1. \A S \in SUBSET Keys : Calls(Enqueue(q, S), k) <=> Calls(q, k) \/ k \in S
  BY DEF Queues, Enqueue, Calls
<1>2. ASSUME NEW j \in Keys, Calls(q, k) PROVE Calls(ConsumerAdd(q, j), k)
  <2> DEFINE r == [q EXCEPT !.waiting = q.waiting \ {j}]
  <2>1. r \in Queues /\ r.waiting = q.waiting \ {j} /\ r.dirty = q.dirty
    BY DEF Queues
  <2>2. ConsumerAdd(q, j) = Add(r, j)
    BY DEF ConsumerAdd
  <2> HIDE DEF r
  <2>3. Add(r, j).waiting = r.waiting /\ Add(r, j).dirty = r.dirty \cup {j}
    <3>1. CASE j \in r.dirty
      BY <3>1 DEF Add
    <3>2. CASE j \notin r.dirty /\ j \in r.processing
      BY <2>1, <3>2 DEF Add, Queues
    <3>3. CASE j \notin r.dirty /\ j \notin r.processing
      <4> DEFINE s == Append(r.queue, j)
      <4>1. Add(r, j) = [r EXCEPT !.dirty = r.dirty \cup {j}, !.queue = s]
        BY <3>3 DEF Add
      <4> HIDE DEF s
      <4> QED BY <2>1, <4>1 DEF Queues
    <3> QED BY <3>1, <3>2, <3>3
  <2> QED BY <1>2, <2>1, <2>2, <2>3 DEF Calls
<1>3. ASSUME NEW j \in Keys PROVE Calls(Done(q, j), k) <=> Calls(q, k)
  <2> DEFINE s == IF j \in q.dirty THEN Append(q.queue, j) ELSE q.queue
  <2>1. Done(q, j) = [q EXCEPT !.processing = q.processing \ {j}, !.queue = s]
    BY DEF Done
  <2> HIDE DEF s
  <2> QED BY <2>1 DEF Queues, Calls
<1>4. ASSUME CanGet(q), k # Head(q.queue), Calls(q, k) PROVE Calls(Get(q), k)
  <2> DEFINE h == Head(q.queue)
             s == Tail(q.queue)
  <2>1. Get(q) = [q EXCEPT !.queue = s, !.processing = q.processing \cup {h},
                           !.dirty = q.dirty \ {h}]
    BY DEF Get
  <2> HIDE DEF h, s
  <2>2. Get(q).waiting = q.waiting /\ Get(q).dirty = q.dirty \ {h}
    BY <2>1 DEF Queues
  <2> QED BY <1>4, <2>2 DEF Calls, h
<1> QED BY <1>1, <1>2, <1>3, <1>4

-----------------------------------------------------------------------------
(* A step from which k comes out without a wake-up to come.  It found k    *)
(* without one, took nothing away from what the thread or the last pass    *)
(* relied on, and no route k claims has changed unless an event about it   *)
(* is under way.                                                           *)

NothingNew(k, rules, old, new) ==
  \A i \in DOMAIN rules :
    LET h == RouteName(rules, i)
    IN  new[h] = old[h] \/ ~Synced(new[h]) \/ ~Claims(k, new[h])

Calm(k) ==
  /\ Managed(k) /\ ~Woken(k)
  /\ Stored(ing'[k]) = Stored(ing[k])
  /\ cfg' = cfg
  /\ NothingNew(k, Rules(k), route, route')

\* Such a step keeps what was established of the routes.
LEMMA NothingNewKeeps ==
  ASSUME NEW k, NEW rules, Len(rules) \in DOMAIN rules, NEW old, NEW new,
         NothingNew(k, rules, old, new)
  PROVE  /\ \A n, c : RoutesAs(k, rules, n, c, old) => RoutesAs(k, rules, n, c, new)
         /\ LastHeard(k, rules, new) => LastHeard(k, rules, old)
<1>1. ASSUME NEW n, NEW c, RoutesAs(k, rules, n, c, old), NEW i \in DOMAIN rules, i < n
      PROVE  RouteAs(k, new[RouteName(rules, i)], MakeHTTPRouteSpec(rules, i, c))
  <2> DEFINE h == RouteName(rules, i)
  <2>1. RouteAs(k, old[h], MakeHTTPRouteSpec(rules, i, c))
    BY <1>1 DEF RoutesAs
  <2>2. new[h] = old[h] \/ ~Synced(new[h]) \/ ~Claims(k, new[h])
    BY DEF NothingNew
  <2> HIDE DEF h
  <2> QED BY <2>1, <2>2 DEF RouteAs, h
<1>2. \A n, c : RoutesAs(k, rules, n, c, old) => RoutesAs(k, rules, n, c, new)
  BY <1>1 DEF RoutesAs
<1>3. LastHeard(k, rules, new) => LastHeard(k, rules, old)
  <2> DEFINE h == RouteName(rules, Len(rules))
  <2>1. new[h] = old[h] \/ ~Synced(new[h]) \/ ~Claims(k, new[h])
    BY DEF NothingNew
  <2> QED BY <2>1 DEF LastHeard
<1> QED BY <1>2, <1>3

\* A log is longer after a write, and its event is under way.
LEMMA WrittenLog ==
  ASSUME NEW S, NEW log \in Logs(S), NEW x \in {None} \cup S
  PROVE  ~Synced(Append(log, x))
<1>1. log \in Seq({None} \cup S) /\ Len(log) \in Nat \ {0}
  BY LogEnds DEF Logs
<1>2. Len(Append(log, x)) = Len(log) + 1
  BY <1>1
<1> QED BY <1>1, <1>2 DEF Synced

\* A key is Calm when a write to an Ingress leaves it without a wake-up.
LEMMA CalmIngressWrite ==
  ASSUME TypeInv, NEW j \in Keys, NEW x \in {None} \cup IngressObjects, WriteIngress(j, x),
         UNCHANGED <<route, cfg, resync>>,
         NEW k \in Keys, Managed(k)', ~Woken(k)', Calls(wq, k) => Calls(wq', k)
  PROVE  Calm(k) /\ j # k
<1>1. \A i \in Keys : ing'[i] = IF i = j THEN Append(ing[j], x) ELSE ing[i]
  BY DEF WriteIngress, TypeInv, IngressesOK
<1>2. j # k
  <2>1. ~Synced(Append(ing[j], x))
    BY WrittenLog DEF TypeInv, IngressesOK
  <2> QED BY <1>1, <2>1 DEF Woken
<1> QED BY <1>1, <1>2 DEF Calm, Managed, Woken, NothingNew

\* And so when a write to a route does.
LEMMA CalmRouteWrite ==
  ASSUME TypeInv, NEW h \in Hosts, NEW x \in {None} \cup RouteObjects, WriteRoute(h, x),
         UNCHANGED <<ing, cfg, resync>>,
         NEW k \in Keys, Managed(k)', ~Woken(k)', Calls(wq, k) => Calls(wq', k)
  PROVE  Calm(k)
<1>1. route \in [Hosts -> Logs(RouteObjects)] /\ route' = [route EXCEPT ![h] = Append(route[h], x)]
  BY DEF WriteRoute, TypeInv, RoutesOK
<1>2. \A g : g # h => route'[g] = route[g]
  BY <1>1
<1>3. ~Synced(route'[h])
  BY <1>1, WrittenLog
<1> QED BY <1>2, <1>3 DEF Calm, Managed, Woken, NothingNew

\* And so when nothing but queue, threads and prober changes.
LEMMA CalmStill ==
  ASSUME UNCHANGED <<ing, route, cfg, resync>>,
         NEW k \in Keys, Managed(k)', ~Woken(k)', Calls(wq, k) => Calls(wq', k)
  PROVE  Calm(k)
BY DEF Calm, Managed, Woken, NothingNew

-----------------------------------------------------------------------------
(* What is written, and whose it is. *)

LEMMA UserWrites ==
  ASSUME TypeInv, NEW k \in Keys,
         \/ \E s \in Specs[k] : CreateIngress(k, s) \/ UpdateIngress(k, s)
         \/ DeleteIngress(k)
  PROVE  /\ UNCHANGED <<route, cfg, resync, wq, worker, prober>>
         /\ \E x \in {None} \cup IngressObjects :
              WriteIngress(k, x) /\ (x # None => x.spec \in Specs[k])
<1>1. UNCHANGED <<route, cfg, resync, wq, worker, prober>>
  BY DEF CreateIngress, UpdateIngress, DeleteIngress
<1>2. ing[k] \in Logs(IngressObjects) /\ created[k] \in Nat
  BY DEF TypeInv, IngressesOK, CountersOK
<1>3. CASE DeleteIngress(k)
  BY <1>1, <1>3 DEF DeleteIngress
<1>4. ASSUME NEW s \in Specs[k], CreateIngress(k, s)
      PROVE  \E x \in IngressObjects : WriteIngress(k, x) /\ x.spec \in Specs[k]
  <2> DEFINE x == [uid |-> created[k] + 1, generation |-> 1, spec |-> s, status |-> NoStatus]
  <2>1. WriteIngress(k, x)
    BY <1>4 DEF CreateIngress
  <2>2. NoStatus \in Statuses
    BY DEF NoStatus, NoConditions, Statuses, Conditions, ConditionStatuses
  <2>3. x \in IngressObjects /\ x.spec = s
    BY <1>2, <2>2 DEF IngressObjects, AllSpecs
  <2> HIDE DEF x
  <2> QED BY <2>1, <2>3
<1>5. ASSUME NEW s \in Specs[k], UpdateIngress(k, s)
      PROVE  \E x \in IngressObjects : WriteIngress(k, x) /\ x.spec \in Specs[k]
  <2> DEFINE old == Stored(ing[k])
             g == IF s.rules = old.spec.rules THEN old.generation ELSE old.generation + 1
             x == [old EXCEPT !.spec = s, !.generation = g]
  <2>1. Exists(ing[k]) /\ WriteIngress(k, x)
    BY <1>5 DEF UpdateIngress
  <2>2. old \in IngressObjects
    BY <1>2, <2>1, LogEnds DEF Exists
  <2>3. g \in Nat
    BY <2>2 DEF IngressObjects
  <2>4. x \in IngressObjects /\ x.spec = s
    <3> HIDE DEF g, old
    <3> QED BY <2>2, <2>3 DEF IngressObjects, AllSpecs
  <2> HIDE DEF x
  <2> QED BY <2>1, <2>4
<1> QED BY <1>1, <1>3, <1>4, <1>5

\* The cluster leaves the owner of a route as it is.
LEMMA ClusterKeepsOwner ==
  ASSUME TypeInv, NEW h \in Hosts,
         \/ GatewayAdmits(h) \/ GatewayRejects(h) \/ GatewayForgets(h)
         \/ CollectRoute(h) \/ DeleteRoute(h)
  PROVE  /\ UNCHANGED <<ing, fresh, cfg, resync, wq, worker, prober>>
         /\ Exists(route[h])
         /\ \E x \in {None} \cup RouteObjects :
              WriteRoute(h, x) /\ (x # None => x.owner = Stored(route[h]).owner)
<1>1. /\ UNCHANGED <<ing, fresh, cfg, resync, wq, worker, prober>>
      /\ Exists(route[h])
  BY DEF GatewayAdmits, GatewayRejects, GatewayForgets, CollectRoute, DeleteRoute,
     SetRouteStatus, RemoveRoute
<1>2. Stored(route[h]) \in RouteObjects
  BY <1>1, LogEnds DEF Exists, TypeInv, RoutesOK
<1>3. CASE RemoveRoute(h)
  BY <1>1, <1>3 DEF RemoveRoute
<1>4. ASSUME NEW s \in SUBSET [gateway : Gateways, admitted : BOOLEAN], SetRouteStatus(h, s)
      PROVE  \E x \in RouteObjects : WriteRoute(h, x) /\ x.owner = Stored(route[h]).owner
  <2> DEFINE x == [Stored(route[h]) EXCEPT !.status = s]
  <2>1. WriteRoute(h, x)
    BY <1>4 DEF SetRouteStatus
  <2>2. x \in RouteObjects /\ x.owner = Stored(route[h]).owner
    BY <1>2 DEF RouteObjects
  <2> HIDE DEF x
  <2> QED BY <2>1, <2>2
<1>5. \A ok \in BOOLEAN : Admission(h, ok) \in SUBSET [gateway : Gateways, admitted : BOOLEAN]
  BY <1>2, RouteGateway DEF Admission
<1>6. \/ RemoveRoute(h)
      \/ \E ok \in BOOLEAN : SetRouteStatus(h, Admission(h, ok))
      \/ SetRouteStatus(h, {})
  BY DEF GatewayAdmits, GatewayRejects, GatewayForgets, CollectRoute, DeleteRoute
<1> QED BY <1>1, <1>3, <1>4, <1>5, <1>6

\* A rule's route is created with the thread's Ingress as its owner, or keeps
\* the owner it has.
LEMMA RuleWrites ==
  ASSUME TypeInv, NEW w \in Workers, ReconcileRule(w), ~UNCHANGED route
  PROVE  \E i \in DOMAIN worker[w].orig.spec.rules : \E x \in RouteObjects :
           LET h == RouteName(worker[w].orig.spec.rules, i) IN
           /\ h \in Hosts
           /\ WriteRoute(h, x)
           /\ \/ x.owner.key = worker[w].key
              \/ Cached(route[h]) # None /\ x.owner = Cached(route[h]).owner
<1> DEFINE l == worker[w]
           rules == l.orig.spec.rules
           h == RouteName(rules, l.rule)
           spec == MakeHTTPRouteSpec(rules, l.rule, l.cfg)
           old == Cached(route[h])
           owner == [key |-> l.key, uid |-> l.orig.uid]
           from == Stamp(l)
           new == IF old = None
                    THEN [owner |-> owner, spec |-> spec, status |-> None, from |-> from]
                    ELSE [old EXCEPT !.spec = spec, !.from = from]
<1>1. l.pc = "rules" /\ WriteRoute(h, new)
  BY DEF ReconcileRule, Stamp
<1>2. /\ l.orig.spec \in AllSpecs /\ l.rule \in 1 .. Len(rules)
      /\ l.key \in Keys /\ l.cfg \in Configs
      /\ l.orig.uid \in Nat /\ l.orig.generation \in Nat
  BY <1>1, BusyWorker DEF TypeInv
<1>3. h \in Hosts /\ spec \in RouteSpecs /\ l.rule \in DOMAIN rules
  BY <1>2, RouteNameType, RouteSpecType, RulesType
<1>4. old \in {None} \cup RouteObjects
  BY <1>3, LogEnds DEF TypeInv, RoutesOK
<1>5. /\ from \in [key : Keys, uid : Nat, generation : Nat]
      /\ owner \in [key : Keys, uid : Nat] /\ owner.key = l.key
  BY <1>2 DEF Stamp
<1>6. /\ new \in RouteObjects
      /\ new.owner.key = l.key \/ (old # None /\ new.owner = old.owner)
  <2> HIDE DEF spec, from, old, owner
  <2> QED BY <1>3, <1>4, <1>5 DEF RouteObjects
<1> HIDE DEF new
<1> QED BY <1>1, <1>3, <1>6

\* A status is written over whatever spec is stored.
LEMMA StatusWrites ==
  ASSUME TypeInv, NEW w \in Workers, UpdateStatus(w) \/ GetLatest(w), ~UNCHANGED ing
  PROVE  LET k == worker[w].key IN
         /\ k \in Keys /\ Exists(ing[k]) /\ UpdateStatus(w)
         /\ \E x \in IngressObjects : WriteIngress(k, x) /\ x.spec = Stored(ing[k]).spec
<1> DEFINE l == worker[w]
           k == l.key
           x == [Stored(ing[k]) EXCEPT !.status = l.status]
<1>1. UpdateStatus(w) /\ l.pc = "status" /\ fresh[k] /\ WriteIngress(k, x)
  BY DEF UpdateStatus, GetLatest
<1>2. k \in Keys /\ l.status \in Statuses
  BY <1>1, BusyWorker DEF TypeInv
<1>3. Exists(ing[k]) /\ Stored(ing[k]) \in IngressObjects
  BY <1>1, <1>2, LogEnds DEF TypeInv, IngressesOK, FreshExists, Exists
<1>4. x \in IngressObjects /\ x.spec = Stored(ing[k]).spec
  BY <1>2, <1>3 DEF IngressObjects
<1> HIDE DEF x
<1> QED BY <1>1, <1>2, <1>3, <1>4

-----------------------------------------------------------------------------
(* Every version, copy and route comes from a submitted Ingress. *)

SubmittedInv == \A k \in Keys : \A o \in Versions(ing[k]) : o.spec \in Specs[k]

CopiedInv ==
  \A w \in Workers : InPass(worker[w]) => worker[w].orig.spec \in Specs[worker[w].key]

AsksFor(j, h) == \E s \in Specs[j] : \E i \in DOMAIN s.rules : h = RouteName(s.rules, i)

AskedInv == \A h \in Hosts : \A r \in Versions(route[h]) : AsksFor(r.owner.key, h)

OwnersInv == SubmittedInv /\ CopiedInv /\ AskedInv

LEMMA InitOwners == Init => OwnersInv
<1> SUFFICES ASSUME Init PROVE OwnersInv
  OBVIOUS
<1>1. \A x \in Versions(<<None>>) : FALSE
  BY DEF Versions
<1>2. \A w \in Workers : ~InPass(worker[w])
  BY DEF Init, InPass, IdleWorker
<1> QED BY <1>1, <1>2 DEF Init, OwnersInv, SubmittedInv, CopiedInv, AskedInv

\* Every step keeps the submitted specs ...
LEMMA NextSubmitted ==
  TypeInv /\ OwnersInv /\ [Next]_vars => SubmittedInv'
<1> SUFFICES ASSUME TypeInv, OwnersInv, [Next]_vars PROVE SubmittedInv'
  OBVIOUS
<1>1. ASSUME IngressesKept PROVE SubmittedInv'
  BY <1>1 DEF IngressesKept, Loses, SubmittedInv, OwnersInv
<1>2. ASSUME NEW k \in Keys, NEW x \in {None} \cup IngressObjects, WriteIngress(k, x),
             x # None => x.spec \in Specs[k]
      PROVE  SubmittedInv'
  <2>1. IngressGains(k, x)
    BY <1>2, WriteIngressGains
  <2>2. \A j \in Keys : /\ \A o \in Versions(ing'[j]) : o # None
                        /\ Versions(ing'[j]) \subseteq Versions(ing[j]) \cup {x}
                        /\ j # k => ing'[j] = ing[j]
    BY <2>1 DEF IngressGains, Gains, Versions
  <2> QED BY <1>2, <2>2 DEF SubmittedInv, OwnersInv
<1>3. ASSUME NEW k \in Keys,
             \/ \E s \in Specs[k] : CreateIngress(k, s) \/ UpdateIngress(k, s)
             \/ DeleteIngress(k)
      PROVE  SubmittedInv'
  BY <1>2, <1>3, UserWrites
<1>4. ASSUME NEW w \in Workers, UpdateStatus(w) \/ GetLatest(w), ~UNCHANGED ing
      PROVE  SubmittedInv'
  <2> DEFINE k == worker[w].key
  <2>1. PICK x \in IngressObjects : WriteIngress(k, x) /\ x.spec = Stored(ing[k]).spec
    BY <1>4, StatusWrites
  <2>2. k \in Keys /\ Exists(ing[k])
    BY <1>4, StatusWrites
  <2>3. Stored(ing[k]).spec \in Specs[k]
    BY <2>2, VersionsType DEF TypeInv, IngressesOK, OwnersInv, SubmittedInv
  <2> QED BY <1>2, <2>1, <2>2, <2>3
<1>5. ASSUME NEW w \in Workers, WorkerStep(w) PROVE SubmittedInv'
  <2>1. UNCHANGED ing \/ UpdateStatus(w) \/ GetLatest(w)
    BY <1>5, ReadEffect, RuleEffect, ProbeEffect DEF WorkerStep
  <2> QED BY <1>1, <1>4, <2>1, KeptStill
<1>6. ASSUME NEW h \in Hosts,
             \/ GatewayAdmits(h) \/ GatewayRejects(h) \/ GatewayForgets(h)
             \/ CollectRoute(h) \/ DeleteRoute(h)
      PROVE  SubmittedInv'
  BY <1>1, <1>6, ClusterKeepsOwner, KeptStill
<1> QED BY <1>1, <1>3, <1>5, <1>6, Catching DEF Next

\* ... the copies of them ...
LEMMA NextCopied ==
  TypeInv /\ OwnersInv /\ [Next]_vars => CopiedInv'
<1> SUFFICES ASSUME TypeInv, OwnersInv, [Next]_vars PROVE CopiedInv'
  OBVIOUS
<1>1. ASSUME NobodyMoves PROVE CopiedInv'
  BY <1>1 DEF NobodyMoves, CopiedInv, OwnersInv
<1>2. ASSUME NEW w \in Workers, Moves(w) \/ Retires(w) PROVE CopiedInv'
  BY <1>2 DEF Moves, Retires, InPass, IdleWorker, CopiedInv, OwnersInv
<1>3. ASSUME NEW w \in Workers, ReadsVersion(w) PROVE CopiedInv'
  BY <1>3 DEF ReadsVersion, CopiedInv, SubmittedInv, OwnersInv
<1>4. ASSUME NEW w \in Workers, WorkerStep(w) PROVE CopiedInv'
  <2>1. Retires(w) \/ Moves(w) \/ ReadsVersion(w)
    BY <1>4, ReadEffect, RuleEffect, ProbeEffect, StatusEffect
       DEF WorkerStep, Retrying, StatusWritten
  <2> QED BY <1>2, <1>3, <2>1
<1>5. ASSUME UNCHANGED worker PROVE CopiedInv'
  BY <1>1, <1>5 DEF NobodyMoves
<1> QED BY <1>1, <1>4, <1>5, Catching, UserEffect, ClusterWrites DEF Next

\* ... and the routes made from those.
LEMMA NextAsked ==
  TypeInv /\ OwnersInv /\ [Next]_vars => AskedInv'
<1> SUFFICES ASSUME TypeInv, OwnersInv, [Next]_vars PROVE AskedInv'
  OBVIOUS
<1>1. ASSUME RoutesKept PROVE AskedInv'
  BY <1>1 DEF RoutesKept, Loses, AskedInv, OwnersInv
<1>2. ASSUME NEW h \in Hosts, NEW x \in {None} \cup RouteObjects, WriteRoute(h, x),
             x # None => AsksFor(x.owner.key, h)
      PROVE  AskedInv'
  <2>1. RouteGains(h, x)
    BY <1>2, WriteRouteGains
  <2>2. \A g \in Hosts : /\ \A r \in Versions(route'[g]) : r # None
                         /\ Versions(route'[g]) \subseteq Versions(route[g]) \cup {x}
                         /\ g # h => route'[g] = route[g]
    BY <2>1 DEF RouteGains, Gains, Versions
  <2> QED BY <1>2, <2>2 DEF AskedInv, OwnersInv
<1>3. ASSUME NEW h \in Hosts,
             \/ GatewayAdmits(h) \/ GatewayRejects(h) \/ GatewayForgets(h)
             \/ CollectRoute(h) \/ DeleteRoute(h)
      PROVE  AskedInv'
  <2>1. PICK x \in {None} \cup RouteObjects :
               WriteRoute(h, x) /\ (x # None => x.owner = Stored(route[h]).owner)
    BY <1>3, ClusterKeepsOwner
  <2>2. Exists(route[h])
    BY <1>3, ClusterKeepsOwner
  <2>3. AsksFor(Stored(route[h]).owner.key, h)
    BY <2>2, VersionsType DEF TypeInv, RoutesOK, OwnersInv, AskedInv
  <2> QED BY <1>2, <2>1, <2>3
<1>4. ASSUME NEW w \in Workers, ReconcileRule(w), ~UNCHANGED route PROVE AskedInv'
  <2> DEFINE rules == worker[w].orig.spec.rules
  <2>1. PICK i \in DOMAIN rules : \E x \in RouteObjects :
               LET h == RouteName(rules, i) IN
               /\ h \in Hosts
               /\ WriteRoute(h, x)
               /\ \/ x.owner.key = worker[w].key
                  \/ Cached(route[h]) # None /\ x.owner = Cached(route[h]).owner
    BY <1>4, RuleWrites
  <2> DEFINE h == RouteName(rules, i)
  <2>2. PICK x \in RouteObjects :
               /\ h \in Hosts
               /\ WriteRoute(h, x)
               /\ \/ x.owner.key = worker[w].key
                  \/ Cached(route[h]) # None /\ x.owner = Cached(route[h]).owner
    BY <2>1
  <2>3. worker[w].pc = "rules"
    BY <1>4 DEF ReconcileRule
  <2>4. AsksFor(worker[w].key, h)
    BY <2>1, <2>3 DEF OwnersInv, CopiedInv, InPass, AsksFor
  <2>5. Cached(route[h]) # None => AsksFor(Cached(route[h]).owner.key, h)
    BY <2>2, VersionsType DEF TypeInv, RoutesOK, OwnersInv, AskedInv
  <2> HIDE DEF h
  <2> QED BY <1>2, <2>2, <2>4, <2>5
<1>5. ASSUME NEW w \in Workers, WorkerStep(w) PROVE AskedInv'
  <2>1. UNCHANGED route \/ ReconcileRule(w)
    BY <1>5, ReadEffect, ProbeEffect, StatusEffect DEF WorkerStep
  <2> QED BY <1>1, <1>4, <2>1, KeptStill
<1>6. ASSUME UNCHANGED route PROVE AskedInv'
  BY <1>1, <1>6, KeptStill
<1> QED BY <1>1, <1>3, <1>5, <1>6, Catching, UserWrites DEF Next

LEMMA OwnersInvariant == Spec => []OwnersInv
<1>1. TypeInv /\ OwnersInv /\ [Next]_vars => OwnersInv'
  BY NextSubmitted, NextCopied, NextAsked DEF OwnersInv
<1> QED BY <1>1, InitOwners, TypeInvariant, PTL DEF Spec

-----------------------------------------------------------------------------
(* Only a thread that takes k itself may leave it without a wake-up and    *)
(* not be calm: every other step that changes something for k calls it.    *)

\* An event of k calls it unless more events are under way.
LEMMA CalmIngressEvent ==
  ASSUME TypeInv, NEW j \in Keys,
         IngressEvent(j) \/ \E n \in 2 .. Len(ing[j]) : IngressRelist(j, n),
         NEW k \in Keys, Managed(k)', ~Woken(k)'
  PROVE  Calm(k)
<1>1. PICK n \in 2 .. Len(ing[j]) :
        /\ ing' = [ing EXCEPT ![j] = IF IngressEvent(j) THEN Tail(ing[j])
                                     ELSE SubSeq(ing[j], n, Len(ing[j]))]
        /\ IngressEvent(j) => n = 2
        /\ wq' = wq \/ wq' = Enqueue(wq, {j})
        /\ ing[j][n] # None /\ ClassFilter(ing[j][n]) => wq' = Enqueue(wq, {j})
        /\ UNCHANGED <<route, cfg, resync>>
  <2>1. CASE IngressEvent(j)
    <3>1. ~Synced(ing[j]) /\ ing[j] \in Logs(IngressObjects)
      BY <2>1 DEF IngressEvent, TypeInv, IngressesOK
    <3>2. Len(ing[j]) \in Nat /\ Len(ing[j]) >= 2
      BY <3>1, LogEvent, LogEnds
    <3>3. 2 \in 2 .. Len(ing[j])
      BY <3>2
    <3> QED BY <2>1, <3>3 DEF IngressEvent
  <2>2. ASSUME ~IngressEvent(j), NEW n \in 2 .. Len(ing[j]), IngressRelist(j, n)
        PROVE  /\ ing' = [ing EXCEPT ![j] = SubSeq(ing[j], n, Len(ing[j]))]
               /\ wq' = wq \/ wq' = Enqueue(wq, {j})
               /\ ing[j][n] # None /\ ClassFilter(ing[j][n]) => wq' = Enqueue(wq, {j})
               /\ UNCHANGED <<route, cfg, resync>>
    BY <2>2 DEF IngressRelist
  <2> QED BY <2>1, <2>2
<1>2. ing \in [Keys -> Logs(IngressObjects)] /\ ing[j] \in Logs(IngressObjects)
  BY DEF TypeInv, IngressesOK
<1>3. Calls(wq, k) => Calls(wq', k)
  BY <1>1, CallsKept DEF TypeInv, QueuesOK
<1>4. CASE j # k
  <2>1. ing'[k] = ing[k]
    BY <1>1, <1>2, <1>4
  <2> QED BY <1>1, <1>3, <2>1 DEF Calm, Managed, Woken, NothingNew
<1>5. CASE j = k
  <2> DEFINE new == ing'[k]
  <2>1. /\ Len(ing[k]) \in Nat /\ n \in Nat
        /\ Stored(new) = Stored(ing[k])
        /\ Len(new) = Len(ing[k]) - n + 1
    <3>1. CASE IngressEvent(j)
      <4>1. ~Synced(ing[k]) /\ new = Tail(ing[k]) /\ n = 2
        BY <1>1, <1>2, <1>5, <3>1 DEF IngressEvent
      <4>2. Stored(new) = Stored(ing[k])
        BY <1>2, <1>5, <4>1, LogEvent
      <4>3. ing[k] \in Seq({None} \cup IngressObjects) /\ Len(ing[k]) >= 2
        BY <1>2, <1>5, <4>1, LogEvent DEF Logs
      <4> QED BY <4>1, <4>2, <4>3
    <3>2. CASE ~IngressEvent(j)
      <4>1. new = SubSeq(ing[k], n, Len(ing[k]))
        BY <1>1, <1>2, <1>5, <3>2
      <4>2. Len(ing[k]) \in Nat
        BY <1>2, <1>5, LogEnds
      <4> QED BY <1>2, <1>5, <4>1, <4>2, LogRelist
    <3> QED BY <3>1, <3>2
  <2>2. Len(new) = 1
    BY DEF Woken, Synced
  <2>3. n = Len(ing[k])
    <3>1. Len(ing[k]) - n + 1 = 1
      BY <2>1, <2>2
    <3> HIDE DEF new
    <3> QED BY <2>1, <3>1
  <2>4. ing[k][n] = Stored(ing[k]) /\ Stored(ing[k]) # None
        /\ Stored(ing[k]).spec.class = "ours"
    BY <2>1, <2>3 DEF Stored, Managed, Exists
  <2>5. wq' = Enqueue(wq, {k})
    BY <1>1, <1>5, <2>4 DEF ClassFilter
  <2>6. Calls(wq', k)
    BY <2>5, CallsKept DEF TypeInv, QueuesOK
  <2> QED BY <2>6 DEF Woken
<1> QED BY <1>4, <1>5

\* The owner a route event calls is the one the route is promised to.
LEMMA ClaimantCalled ==
  ASSUME TypeInv, OwnersInv, NEW h \in Hosts, NEW r \in Versions(route[h]),
         NEW k \in Keys, Exists(ing[k]), NEW i \in DOMAIN Rules(k), h = RouteName(Rules(k), i),
         Undisturbed \/ r.owner.key = k
  PROVE  r.owner.key = k
<1>1. CASE Undisturbed
  <2>1. r \in RouteObjects /\ Stored(ing[k]) \in Versions(ing[k])
    BY VersionsType DEF TypeInv, RoutesOK, IngressesOK
  <2>2. r.owner.key \in Keys /\ Stored(ing[k]).spec \in Specs[k]
    BY <2>1 DEF RouteObjects, OwnersInv, SubmittedInv
  <2>3. PICK s \in Specs[r.owner.key] : \E m \in DOMAIN s.rules : h = RouteName(s.rules, m)
    BY DEF OwnersInv, AskedInv, AsksFor
  <2>4. PICK m \in DOMAIN s.rules : h = RouteName(s.rules, m)
    BY <2>3
  <2> DEFINE t == Stored(ing[k]).spec
  <2>5. t \in Specs[k] /\ i \in DOMAIN t.rules /\ RouteName(s.rules, m) = RouteName(t.rules, i)
    BY <2>2, <2>4 DEF Rules
  <2> HIDE DEF t
  <2> QED BY <1>1, <2>2, <2>5 DEF Undisturbed, HostsNotShared
<1> QED BY <1>1

\* An event of a route calls its owner.
LEMMA CalmRouteEvent ==
  ASSUME TypeInv, OwnersInv, NEW h \in Hosts, RouteEvent(h),
         NEW k \in Keys, Managed(k)', ~Woken(k)'
  PROVE  Calm(k)
<1> DEFINE log == route[h]
           r == IF log[2] = None THEN log[1] ELSE log[2]
<1>1. /\ ~Synced(log)
      /\ wq' = Enqueue(wq, {r.owner.key})
      /\ route' = [route EXCEPT ![h] = Tail(log)]
      /\ UNCHANGED <<ing, cfg, resync>>
  BY DEF RouteEvent, EnqueueControllerOf
<1>2. route \in [Hosts -> Logs(RouteObjects)] /\ log \in Logs(RouteObjects)
  BY DEF TypeInv, RoutesOK
<1>3. /\ log \in Seq({None} \cup RouteObjects) /\ Len(log) \in Nat /\ Len(log) >= 2
      /\ Stored(Tail(log)) = Stored(log)
  BY <1>1, <1>2, LogEvent DEF Logs
<1>4. Len(Tail(log)) = Len(log) - 1
  BY <1>3
<1>5. r # None /\ r \in Versions(log)
  <2>1. log[1] # None \/ log[2] # None
    BY <1>3 DEF TypeInv, RoutesOK, RouteLogsOK
  <2>2. 1 \in 1 .. Len(log) /\ 2 \in 1 .. Len(log)
    BY <1>3
  <2> QED BY <2>1, <2>2 DEF Versions
<1>6. r \in RouteObjects /\ r.owner.key \in Keys
  <2>1. r \in RouteObjects
    BY <1>2, <1>5, VersionsType
  <2> QED BY <2>1 DEF RouteObjects
<1>7. \A g : g # h => route'[g] = route[g]
  BY <1>1, <1>2
<1>8. route'[h] = Tail(log)
  BY <1>1, <1>2
<1>9. Calls(wq', k) <=> Calls(wq, k) \/ k = r.owner.key
  <2>1. {r.owner.key} \in SUBSET Keys
    BY <1>6
  <2> HIDE DEF r
  <2> QED BY <1>1, <2>1, CallsKept DEF TypeInv, QueuesOK
<1>10. Exists(ing[k])
  BY <1>1 DEF Managed
<1>11. ASSUME NEW i \in DOMAIN Rules(k), RouteName(Rules(k), i) = h, Synced(Tail(log)),
              Claims(k, Tail(log))
       PROVE  FALSE
  <2>1. Len(log) = 2
    BY <1>3, <1>4, <1>11 DEF Synced
  <2>2. Stored(Tail(log)) = log[2]
    BY <1>3, <2>1 DEF Stored
  <2>3. Undisturbed \/ r.owner.key = k
    BY <1>11, <2>2 DEF Claims, Exists
  <2> HIDE DEF r
  <2>4. r.owner.key = k
    BY <1>5, <1>10, <1>11, <2>3, ClaimantCalled
  <2> QED BY <1>9, <2>4 DEF Woken
<1>12. NothingNew(k, Rules(k), route, route')
  BY <1>7, <1>8, <1>11 DEF NothingNew
<1> QED BY <1>1, <1>9, <1>12 DEF Calm, Managed, Woken

\* A list of routes calls the owners of those it finds, and misses deletions.
LEMMA CalmRouteRelist ==
  ASSUME TypeInv, OwnersInv, NEW h \in Hosts, NEW n \in 2 .. Len(route[h]), RouteRelist(h, n),
         NEW k \in Keys, Managed(k)', ~Woken(k)'
  PROVE  Calm(k)
<1> DEFINE log == route[h]
           rest == SubSeq(log, n, Len(log))
           r == log[n]
<1>1. /\ WatchesBreak
      /\ wq' = IF r # None THEN Enqueue(wq, {r.owner.key}) ELSE wq
      /\ route' = [route EXCEPT ![h] = rest]
      /\ UNCHANGED <<ing, cfg, resync>>
  BY DEF RouteRelist, EnqueueControllerOf
<1>2. route \in [Hosts -> Logs(RouteObjects)] /\ log \in Logs(RouteObjects)
  BY DEF TypeInv, RoutesOK
<1>3. Len(log) \in Nat /\ n \in Nat /\ n \in 1 .. Len(log)
      /\ Stored(rest) = Stored(log) /\ Len(rest) = Len(log) - n + 1
  BY <1>2, LogRelist, LogEnds
<1>4. r # None => r \in Versions(log)
  BY <1>3 DEF Versions
<1>5. r # None => r.owner.key \in Keys
  <2>1. r # None => r \in RouteObjects
    BY <1>2, <1>4, VersionsType
  <2> QED BY <2>1 DEF RouteObjects
<1>6. \A g : g # h => route'[g] = route[g]
  BY <1>1, <1>2
<1>7. route'[h] = rest
  BY <1>1, <1>2
<1>8. Calls(wq', k) <=> Calls(wq, k) \/ (r # None /\ k = r.owner.key)
  <2>1. r # None => {r.owner.key} \in SUBSET Keys
    BY <1>5
  <2> HIDE DEF r
  <2> QED BY <1>1, <2>1, CallsKept DEF TypeInv, QueuesOK
<1>9. Exists(ing[k])
  BY <1>1 DEF Managed
<1> HIDE DEF rest
<1>10. ASSUME NEW i \in DOMAIN Rules(k), RouteName(Rules(k), i) = h, Synced(rest),
              Claims(k, rest)
       PROVE  FALSE
  <2>1. n = Len(log)
    <3>1. Len(log) - n + 1 = 1
      BY <1>3, <1>10 DEF Synced
    <3> HIDE DEF log
    <3> QED BY <1>3, <3>1
  <2>2. Stored(rest) = r
    BY <1>3, <2>1 DEF Stored
  <2>3. r # None /\ r.owner.key = k
    BY <1>1, <1>10, <2>2 DEF Claims, Exists, Undisturbed
  <2> QED BY <1>8, <2>3 DEF Woken
<1>11. NothingNew(k, Rules(k), route, route')
  BY <1>6, <1>7, <1>10 DEF NothingNew
<1> QED BY <1>1, <1>8, <1>11 DEF Calm, Managed, Woken

\* The end of a pass calls its own key after an error and forgets no other.
LEMMA FinishCalls ==
  ASSUME TypeInv, NEW w \in Workers, worker[w].pc # "idle", NEW err, FinishReconcile(w, err),
         NEW k \in Keys
  PROVE  Calls(wq', k) <=> Calls(wq, k) \/ (err /\ k = worker[w].key)
<1> DEFINE j == worker[w].key
           q == IF err THEN Enqueue(wq, {j}) ELSE wq
<1>1. wq' = Done(q, j)
  BY DEF FinishReconcile
<1>2. wq \in Queues /\ j \in Keys
  BY BusyWorker DEF TypeInv, QueuesOK
<1>3. q \in Queues /\ (Calls(q, k) <=> Calls(wq, k) \/ (err /\ k = j))
  <2>1. CASE err
    <3>1. q = Enqueue(wq, {j}) /\ {j} \in SUBSET Keys
      BY <1>2, <2>1
    <3>2. q \in Queues
      BY <1>2, <3>1 DEF Enqueue, Queues
    <3> HIDE DEF q, j
    <3> QED BY <1>2, <2>1, <3>1, <3>2, CallsKept
  <2>2. CASE ~err
    BY <1>2, <2>2
  <2> QED BY <2>1, <2>2
<1> HIDE DEF q
<1> QED BY <1>1, <1>2, <1>3, CallsKept

\* So no step of a pass forgets a key.
LEMMA WorkerCalls ==
  ASSUME TypeInv, NEW w \in Workers, WorkerStep(w), NEW k \in Keys
  PROVE  Calls(wq, k) => Calls(wq', k)
<1>1. worker[w].pc # "idle"
  BY DEF WorkerStep, ReadIngress, ReconcileRule, ProbeIngress, UpdateStatus, GetLatest
<1>2. wq' = wq \/ \E err : FinishReconcile(w, err)
  <2>1. CASE ReadIngress(w)
    BY <2>1 DEF ReadIngress
  <2>2. CASE ReconcileRule(w)
    BY <2>2 DEF ReconcileRule, RuleDone, EndReconcileKind
  <2>3. CASE ProbeIngress(w)
    BY <2>3 DEF ProbeIngress, EndReconcileKind
  <2>4. CASE UpdateStatus(w)
    BY <2>4 DEF UpdateStatus
  <2>5. CASE GetLatest(w)
    BY <2>5 DEF GetLatest
  <2> QED BY <2>1, <2>2, <2>3, <2>4, <2>5 DEF WorkerStep
<1> QED BY <1>1, <1>2, FinishCalls

LEMMA CalmWorker ==
  ASSUME TypeInv, NEW w \in Workers, WorkerStep(w), NEW k \in Keys, Managed(k)', ~Woken(k)'
  PROVE  Calm(k)
<1>1. UNCHANGED <<cfg, resync>> /\ (Calls(wq, k) => Calls(wq', k))
  BY WorkerCalls DEF WorkerStep, ReadIngress, ReconcileRule, ProbeIngress, UpdateStatus, GetLatest
<1>2. CASE UNCHANGED <<ing, route>>
  BY <1>1, <1>2, CalmStill
<1>3. CASE ~UNCHANGED route
  <2>1. ReconcileRule(w) /\ UNCHANGED ing
    BY <1>3, ReadEffect, RuleEffect, ProbeEffect, StatusEffect DEF WorkerStep
  <2>2. PICK i \in DOMAIN worker[w].orig.spec.rules : \E x \in RouteObjects :
               LET h == RouteName(worker[w].orig.spec.rules, i)
               IN  h \in Hosts /\ WriteRoute(h, x)
    BY <1>3, <2>1, RuleWrites
  <2> DEFINE h == RouteName(worker[w].orig.spec.rules, i)
  <2>3. PICK x \in RouteObjects : h \in Hosts /\ WriteRoute(h, x)
    BY <2>2
  <2> HIDE DEF h
  <2> QED BY <1>1, <2>1, <2>3, CalmRouteWrite
<1>4. CASE ~UNCHANGED ing
  <2>1. (UpdateStatus(w) \/ GetLatest(w)) /\ UNCHANGED route
    BY <1>4, ReadEffect, RuleEffect, ProbeEffect, StatusEffect DEF WorkerStep
  <2>2. PICK x \in IngressObjects : WriteIngress(worker[w].key, x)
    BY <1>4, <2>1, StatusWrites
  <2>3. worker[w].key \in Keys
    BY <1>4, <2>1, StatusWrites
  <2> QED BY <1>1, <2>1, <2>2, <2>3, CalmIngressWrite
<1> QED BY <1>2, <1>3, <1>4

\* A resync calls every Ingress in the cache, and those not yet in it have an
\* event under way.
LEMMA CalmResync ==
  ASSUME TypeInv, GlobalResync, NEW k \in Keys, Managed(k)', ~Woken(k)'
  PROVE  Calm(k)
<1>1. /\ wq' = Enqueue(wq, {j \in Keys : Cached(ing[j]) # None})
      /\ UNCHANGED <<ing, route, cfg>>
  BY DEF GlobalResync
<1>2. Synced(ing[k]) /\ Stored(ing[k]) # None
  BY <1>1 DEF Woken, Managed, Exists
<1>3. Cached(ing[k]) # None
  BY <1>2, LogEnds DEF TypeInv, IngressesOK
<1>4. Calls(wq', k)
  BY <1>1, <1>3, CallsKept DEF TypeInv, QueuesOK
<1> QED BY <1>4 DEF Woken

\* A restart calls every Ingress of the class.
LEMMA RestartCalls ==
  ASSUME TypeInv, Restart, NEW k \in Keys, Managed(k)'
  PROVE  Woken(k)'
<1> DEFINE S == {j \in Keys : ClassFilter(Stored(ing[j]))}
           T == {Stored(route[h]).owner.key : h \in {g \in Hosts : Exists(route[g])}}
<1>1. wq' = Enqueue(EmptyQueue, S \cup T) /\ ing'[k] = <<Stored(ing[k])>>
  BY DEF Restart
<1>2. Stored(ing'[k]) = Stored(ing[k])
  BY <1>1, LogEnds, LogList DEF TypeInv, IngressesOK
<1>3. k \in S
  BY <1>2 DEF Managed, Exists, ClassFilter
<1> HIDE DEF S, T
<1>4. k \in wq'.waiting
  BY <1>1, <1>3 DEF Enqueue, EmptyQueue
<1> QED BY <1>4 DEF Woken, Calls

Takes(w, k) == ProcessNextWorkItem(w) /\ Head(wq.queue) = k

LEMMA CalmNext ==
  ASSUME TypeInv, OwnersInv, [Next]_vars, NEW k \in Keys, Managed(k)', ~Woken(k)'
  PROVE  Calm(k) \/ \E w \in Workers : Takes(w, k)
<1>1. CASE UNCHANGED vars
  BY <1>1, CalmStill DEF vars
<1>2. ASSUME NEW j \in Keys,
             \/ \E s \in Specs[j] : CreateIngress(j, s) \/ UpdateIngress(j, s)
             \/ DeleteIngress(j)
      PROVE  Calm(k)
  BY <1>2, UserWrites, CalmIngressWrite
<1>3. ASSUME NEW j \in Keys, RunConsumer(j) PROVE Calm(k)
  <2>1. UNCHANGED <<ing, route, cfg, resync>> /\ wq' = ConsumerAdd(wq, j)
    BY <1>3 DEF RunConsumer
  <2> QED BY <2>1, CallsKept, CalmStill DEF TypeInv, QueuesOK
<1>4. ASSUME NEW j \in Keys, ProbeSucceeds(j) PROVE Calm(k)
  <2>1. UNCHANGED <<ing, route, cfg, resync>> /\ wq' = Enqueue(wq, {j})
    BY <1>4 DEF ProbeSucceeds
  <2>2. {j} \in SUBSET Keys
    OBVIOUS
  <2> QED BY <2>1, <2>2, CallsKept, CalmStill DEF TypeInv, QueuesOK
<1>5. ASSUME NEW c \in Configs, ChangeConfig(c) PROVE FALSE
  BY <1>5 DEF ChangeConfig, Woken
<1>6. ASSUME NEW h \in Hosts,
             \/ GatewayAdmits(h) \/ GatewayRejects(h) \/ GatewayForgets(h)
             \/ CollectRoute(h) \/ DeleteRoute(h)
      PROVE  Calm(k)
  BY <1>6, ClusterKeepsOwner, CalmRouteWrite
<1>7. ASSUME NEW w \in Workers, ProcessNextWorkItem(w), ~Takes(w, k) PROVE Calm(k)
  <2>1. UNCHANGED <<ing, route, cfg, resync>> /\ CanGet(wq) /\ wq' = Get(wq)
    BY <1>7 DEF ProcessNextWorkItem
  <2>2. k # Head(wq.queue)
    BY <1>7 DEF Takes
  <2> QED BY <2>1, <2>2, CallsKept, CalmStill DEF TypeInv, QueuesOK
<1> QED BY <1>1, <1>2, <1>3, <1>4, <1>5, <1>6, <1>7, CalmIngressEvent, CalmRouteEvent,
           CalmRouteRelist, CalmWorker, CalmResync, RestartCalls DEF Next

-----------------------------------------------------------------------------
(* What a calm step leaves right. *)

\* An Ingress of the class has at least one rule.
LEMMA ManagedRules ==
  ASSUME TypeInv, NEW k \in Keys, Managed(k)
  PROVE  /\ Stored(ing[k]) \in IngressObjects /\ Stored(ing[k]).spec \in AllSpecs
         /\ Len(Rules(k)) \in Nat /\ Len(Rules(k)) \in DOMAIN Rules(k)
         /\ DOMAIN Rules(k) = 1 .. Len(Rules(k))
<1>1. Stored(ing[k]) \in IngressObjects
  BY LogEnds DEF TypeInv, IngressesOK, Managed, Exists
<1>2. Stored(ing[k]).spec \in AllSpecs
  BY <1>1 DEF IngressObjects
<1> QED BY <1>1, <1>2, RulesType DEF Rules

LEMMA CalmPass ==
  ASSUME TypeInv, NEW k \in Keys, Calm(k), fresh[k] => fresh'[k],
         NEW l, PassOK(k, l, fresh[k], Stored(ing[k]), cfg, route)
  PROVE  PassOK(k, l, fresh'[k], Stored(ing'[k]), cfg', route')
<1> DEFINE rules == Rules(k)
<1>1. Len(rules) \in DOMAIN rules
  BY ManagedRules DEF Calm
<1>2. /\ \A n, c : RoutesAs(k, rules, n, c, route) => RoutesAs(k, rules, n, c, route')
      /\ LastHeard(k, rules, route') => LastHeard(k, rules, route)
  BY <1>1, NothingNewKeeps DEF Calm
<1>3. Stored(ing'[k]) = Stored(ing[k]) /\ cfg' = cfg /\ rules = Stored(ing[k]).spec.rules
  BY DEF Calm, Rules
<1> HIDE DEF rules
<1> QED BY <1>2, <1>3 DEF PassOK

LEMMA CalmUpToDate ==
  ASSUME TypeInv, NEW k \in Keys, Calm(k), UpToDate(k, Stored(ing[k]), cfg, route)
  PROVE  UpToDate(k, Stored(ing'[k]), cfg', route')
<1> DEFINE rules == Rules(k)
<1>1. Len(rules) \in DOMAIN rules
  BY ManagedRules DEF Calm
<1>2. /\ \A n, c : RoutesAs(k, rules, n, c, route) => RoutesAs(k, rules, n, c, route')
      /\ LastHeard(k, rules, route') => LastHeard(k, rules, route)
  BY <1>1, NothingNewKeeps DEF Calm
<1>3. Stored(ing'[k]) = Stored(ing[k]) /\ cfg' = cfg /\ rules = Stored(ing[k]).spec.rules
  BY DEF Calm, Rules
<1> HIDE DEF rules
<1> QED BY <1>2, <1>3 DEF UpToDate

\* A step that is none of the business of k's thread.
Bystands(k) ==
  /\ \A w \in Workers : /\ Busy(w, k)' <=> Busy(w, k)
                        /\ Busy(w, k) => worker'[w] = worker[w]
  /\ fresh[k] => fresh'[k]
  /\ Unanswered(k) => Unanswered(k)'

LEMMA BystanderAttended ==
  ASSUME TypeInv, WakeInv, NEW k \in Keys, Calm(k), Bystands(k)
  PROVE  Attended(k)'
<1>1. Attended(k)
  BY DEF WakeInv, Calm
<1>2. ASSUME NEW w \in Workers, Busy(w, k)'
      PROVE  PassOK(k, worker'[w], fresh'[k], Stored(ing'[k]), cfg', route')
  <2>1. Busy(w, k) /\ worker'[w] = worker[w] /\ (fresh[k] => fresh'[k])
    BY <1>2 DEF Bystands
  <2>2. PassOK(k, worker[w], fresh[k], Stored(ing[k]), cfg, route)
    BY <1>1, <2>1 DEF Attended
  <2> QED BY <2>1, <2>2, CalmPass
<1>3. ASSUME \A w \in Workers : ~Busy(w, k)'
      PROVE  Unanswered(k)' \/ UpToDate(k, Stored(ing'[k]), cfg', route')
  <2>1. \A w \in Workers : ~Busy(w, k)
    BY <1>3 DEF Bystands
  <2>2. Unanswered(k) \/ UpToDate(k, Stored(ing[k]), cfg, route)
    BY <1>1, <2>1 DEF Attended
  <2> QED BY <2>2, CalmUpToDate DEF Bystands
<1> QED BY <1>2, <1>3 DEF Attended

-----------------------------------------------------------------------------
(* Steps that are none of the business of k's thread. *)

LEMMA StillBystands ==
  ASSUME UNCHANGED <<worker, fresh, prober>>, NEW k \in Keys
  PROVE  Bystands(k)
BY DEF Bystands, Busy, Unanswered

LEMMA UserBystands ==
  ASSUME TypeInv, NEW j \in Keys,
         \/ \E s \in Specs[j] : CreateIngress(j, s) \/ UpdateIngress(j, s)
         \/ DeleteIngress(j),
         NEW k \in Keys, Managed(k)', ~Woken(k)'
  PROVE  Bystands(k)
<1>1. PICK x \in {None} \cup IngressObjects : WriteIngress(j, x)
  BY UserWrites
<1>2. UNCHANGED <<route, cfg, resync, wq, worker, prober>>
  BY UserWrites
<1>3. j # k
  BY <1>1, <1>2, CalmIngressWrite
<1>4. fresh'[k] = fresh[k]
  BY <1>1, <1>3 DEF WriteIngress, TypeInv, IngressesOK
<1> QED BY <1>2, <1>4 DEF Bystands, Busy, Unanswered

LEMMA CallbackBystands ==
  ASSUME TypeInv, NEW j \in Keys, ProbeSucceeds(j), NEW k \in Keys, ~Woken(k)'
  PROVE  Bystands(k)
<1>1. /\ wq' = Enqueue(wq, {j}) /\ UNCHANGED <<worker, fresh>>
      /\ prober' = [prober EXCEPT ![j].ready = TRUE]
  BY DEF ProbeSucceeds
<1>2. {j} \in SUBSET Keys /\ wq \in Queues
  BY DEF TypeInv, QueuesOK
<1>3. j # k
  BY <1>1, <1>2, CallsKept DEF Woken
<1>4. prober'[k] = prober[k]
  BY <1>1, <1>3 DEF TypeInv, ProberOK
<1> QED BY <1>1, <1>4 DEF Bystands, Busy, Unanswered

\* A thread takes another key.
LEMMA TakingBystands ==
  ASSUME TypeInv, NEW w \in Workers, ProcessNextWorkItem(w), NEW k \in Keys, ~Takes(w, k)
  PROVE  Bystands(k)
<1> DEFINE j == Head(wq.queue)
           l == [IdleWorker EXCEPT !.pc = "read", !.key = j, !.cfg = cfg]
<1>1. worker[w].pc = "idle" /\ SetWorker(w, l) /\ UNCHANGED <<fresh, prober>> /\ j # k
  BY DEF ProcessNextWorkItem, Takes
<1> HIDE DEF j
<1>2. l.key = j
  BY DEF IdleWorker
<1> HIDE DEF l
<1>3. \A v \in Workers : worker'[v] = IF v = w THEN l ELSE worker[v]
  BY <1>1, WorkerAt
<1> QED BY <1>1, <1>2, <1>3 DEF Bystands, Busy, Unanswered

\* A pass over another Ingress.
LEMMA WorkerStays ==
  ASSUME TypeInv, NEW w \in Workers, WorkerStep(w)
  PROVE  /\ worker[w].pc # "idle" /\ worker[w].key \in Keys
         /\ \A v \in Workers : v # w => worker'[v] = worker[v]
         /\ worker'[w].pc = "idle" \/ worker'[w].key = worker[w].key
<1>1. worker[w].pc # "idle"
  BY DEF WorkerStep, ReadIngress, ReconcileRule, ProbeIngress, UpdateStatus, GetLatest
<1>2. WorkerEffect(w)
  BY ReadIngressType, ReconcileRuleType, ProbeIngressType, UpdateStatusType, GetLatestType
     DEF WorkerStep
<1>3. CASE StaysBusy(w)
  BY <1>1, <1>3, BusyWorker DEF StaysBusy, TypeInv, WorkersOK
<1>4. CASE Leaves(w)
  BY <1>1, <1>4, BusyWorker DEF Leaves, TypeInv, WorkersOK, IdleWorker
<1> QED BY <1>2, <1>3, <1>4 DEF WorkerEffect

LEMMA ElsewhereBystands ==
  ASSUME TypeInv, NEW w \in Workers, WorkerStep(w), NEW k \in Keys, worker[w].key # k
  PROVE  Bystands(k)
<1> DEFINE j == worker[w].key
<1>1. \A v \in Workers : /\ Busy(v, k)' <=> Busy(v, k)
                         /\ Busy(v, k) => worker'[v] = worker[v]
  BY WorkerStays DEF Busy
<1>2. \/ UNCHANGED fresh
      \/ \E b : fresh' = [fresh EXCEPT ![j] = b]
  <2>1. CASE ReadIngress(w)
    BY <2>1 DEF ReadIngress
  <2>2. CASE ReconcileRule(w)
    BY <2>2 DEF ReconcileRule
  <2>3. CASE ProbeIngress(w)
    BY <2>3 DEF ProbeIngress
  <2>4. CASE UpdateStatus(w)
    BY <2>4 DEF UpdateStatus, WriteIngress
  <2>5. CASE GetLatest(w)
    BY <2>5 DEF GetLatest
  <2> QED BY <2>1, <2>2, <2>3, <2>4, <2>5 DEF WorkerStep
<1>3. \/ UNCHANGED prober
      \/ \E b : prober' = [prober EXCEPT ![j] = b]
  BY DEF WorkerStep, ReadIngress, ReconcileRule, ProbeIngress, UpdateStatus, GetLatest
<1>4. fresh'[k] = fresh[k]
  BY <1>2 DEF TypeInv, IngressesOK
<1>5. prober'[k] = prober[k]
  BY <1>3 DEF TypeInv, ProberOK
<1> QED BY <1>1, <1>4, <1>5 DEF Bystands, Unanswered

-----------------------------------------------------------------------------
(* Steps of k's own thread. *)

\* No other thread works on k.
LEMMA OwnStep ==
  ASSUME FlightInv, NEW w \in Workers, NEW k \in Keys, Busy(w, k),
         \A v \in Workers : v # w => worker'[v] = worker[v],
         \/ /\ Busy(w, k)'
            /\ PassOK(k, worker'[w], fresh'[k], Stored(ing'[k]), cfg', route')
         \/ /\ worker'[w].pc = "idle"
            /\ Unanswered(k)' \/ UpToDate(k, Stored(ing'[k]), cfg', route')
  PROVE  Attended(k)'
<1>1. \A v \in Workers : v # w => ~Busy(v, k)'
  BY DEF FlightInv, SingleFlight, Busy
<1> QED BY <1>1 DEF Attended, Busy

\* A thread that takes k has done nothing yet, and sees the configuration.
LEMMA TakesAttended ==
  ASSUME TypeInv, FlightInv, NEW w \in Workers, NEW k \in Keys, Takes(w, k)
  PROVE  Attended(k)'
<1> DEFINE l == [IdleWorker EXCEPT !.pc = "read", !.key = k, !.cfg = cfg]
<1>1. /\ worker[w].pc = "idle" /\ SetWorker(w, l) /\ CanGet(wq) /\ k = Head(wq.queue)
      /\ cfg' = cfg
  BY DEF ProcessNextWorkItem, Takes
<1>2. l.key = k /\ l.pc = "read" /\ l.cfg = cfg
  BY DEF IdleWorker
<1> HIDE DEF l
<1>3. \A v \in Workers : worker'[v] = IF v = w THEN l ELSE worker[v]
  BY <1>1, WorkerAt
<1>4. wq \in QueueRecords(Keys)
  BY DEF TypeInv, QueuesOK, Queues, QueueRecords
<1>5. k \notin wq.processing
  BY <1>1, <1>4, GetOK DEF FlightInv
<1>6. \A v \in Workers : ~Busy(v, k)
  BY <1>5 DEF Busy, FlightInv, SingleFlight
<1>7. PassOK(k, worker'[w], fresh'[k], Stored(ing'[k]), cfg', route')
  BY <1>1, <1>2, <1>3 DEF PassOK, InPass
<1>8. \A v \in Workers : Busy(v, k)' => v = w
  BY <1>3, <1>6 DEF Busy
<1>9. Busy(w, k)'
  BY <1>2, <1>3 DEF Busy
<1> QED BY <1>7, <1>8, <1>9 DEF Attended

\* The pass reads what is stored, for no event is under way.
LEMMA ReadAttended ==
  ASSUME TypeInv, FlightInv, NEW w \in Workers, ReadIngress(w), NEW k \in Keys, Busy(w, k),
         Calm(k), ~Woken(k)',
         PassOK(k, worker[w], fresh[k], Stored(ing[k]), cfg, route)
  PROVE  Attended(k)'
<1> DEFINE obj == Cached(ing[k])
           status == PreProcess(obj)
           l == [worker[w] EXCEPT !.pc = "rules", !.orig = obj, !.rule = 1, !.status = status]
<1>1. worker[w].key = k /\ worker[w] \in WorkerStates
  BY BusyWorker DEF Busy, TypeInv
<1>2. UNCHANGED <<ing, route, cfg>>
  BY DEF ReadIngress
<1>3. Synced(ing[k]) /\ obj = Stored(ing[k])
  BY LogEnds DEF Calm, Woken, TypeInv, IngressesOK
<1>4. obj # None /\ obj.spec.class = "ours"
  BY <1>3 DEF Calm, Managed, Exists
<1>5. SetWorker(w, l) /\ fresh' = [fresh EXCEPT ![k] = Synced(ing[k])]
  BY <1>1, <1>4 DEF ReadIngress
<1>6. l.pc = "rules" /\ l.key = k /\ l.orig = obj /\ l.rule = 1 /\ l.cfg = worker[w].cfg
  <2> HIDE DEF obj, status
  <2> QED BY <1>1 DEF WorkerStates
<1> HIDE DEF l
<1>7. \A v \in Workers : worker'[v] = IF v = w THEN l ELSE worker[v]
  BY <1>5, WorkerAt
<1>8. fresh'[k] = TRUE
  BY <1>3, <1>5 DEF TypeInv, IngressesOK
<1>9. \A i \in DOMAIN Rules(k) : ~(i < 1)
  BY ManagedRules DEF Calm
<1>10. PassOK(k, l, fresh'[k], Stored(ing'[k]), cfg', route')
  <2>1. RoutesAs(k, Stored(ing[k]).spec.rules, 1, cfg, route)
    BY <1>9 DEF RoutesAs, Rules
  <2> HIDE DEF obj
  <2> QED BY <1>2, <1>3, <1>6, <1>8, <2>1 DEF PassOK
<1>11. Busy(w, k)'
  BY <1>6, <1>7 DEF Busy
<1> QED BY <1>7, <1>10, <1>11, OwnStep

\* After an error k's key is called, or will be once the status is written.
LEMMA ErrorAttended ==
  ASSUME TypeInv, FlightInv, NEW w \in Workers, NEW k \in Keys, Busy(w, k),
         worker[w].pc \in {"rules", "probe"},
         NEW status \in Statuses, EndReconcileKind(w, status, TRUE), UNCHANGED fresh,
         Calm(k), ~Woken(k)',
         PassOK(k, worker[w], fresh[k], Stored(ing[k]), cfg, route)
  PROVE  Attended(k)'
<1> DEFINE c == MarkUnknown(status.conditions, Happy)
           g == worker[w].orig.generation
           s == [[status EXCEPT !.conditions = c] EXCEPT !.observedGeneration = g]
           l == [worker[w] EXCEPT !.pc = "status", !.status = s, !.err = TRUE]
<1>1. FinishReconcile(w, TRUE) \/ SetWorker(w, l)
  BY DEF EndReconcileKind
<1>2. worker[w] \in WorkerStates /\ worker[w].key = k
  BY BusyWorker DEF TypeInv, Busy
<1>3. l.pc = "status" /\ l.key = k /\ l.orig = worker[w].orig /\ l.cfg = worker[w].cfg
  <2> HIDE DEF s
  <2> QED BY <1>2 DEF WorkerStates
<1> HIDE DEF l
<1>4. CASE FinishReconcile(w, TRUE)
  <2>1. Calls(wq', k)
    BY <1>2, <1>4, FinishCalls
  <2> QED BY <2>1 DEF Woken
<1>5. CASE SetWorker(w, l)
  <2>1. \A v \in Workers : worker'[v] = IF v = w THEN l ELSE worker[v]
    BY <1>5, WorkerAt
  <2>2. Busy(w, k)'
    BY <1>3, <2>1 DEF Busy
  <2>3. PassOK(k, l, fresh'[k], Stored(ing'[k]), cfg', route')
    BY <1>3 DEF PassOK, InPass, Calm
  <2> QED BY <2>1, <2>2, <2>3, OwnStep
<1> QED BY <1>1, <1>4, <1>5

\* What MarkTrue does to its own condition and to Ready.
LEMMA MarkTrueMarks ==
  ASSUME NEW c \in Conditions
  PROVE  /\ MarkTrue(c, "NetworkConfigured") \in Conditions
         /\ MarkTrue(c, "NetworkConfigured")["NetworkConfigured"] = "True"
         /\ c["NetworkConfigured"] = "True" => MarkTrue(c, "LoadBalancerReady")[Happy] = "True"
<1>1. ASSUME NEW d \in Conditions, NEW t \in ConditionTypes, NEW s \in ConditionStatuses
      PROVE  SetCondition(d, t, s) \in Conditions /\ SetCondition(d, t, s)[t] = s
             /\ \A u \in ConditionTypes : u # t => SetCondition(d, t, s)[u] = d[u]
  BY DEF SetCondition, Conditions
<1>2. ASSUME NEW d \in Conditions, d["NetworkConfigured"] = "True"
      PROVE  \A t \in Dependents : RecomputeHappiness(d, t)["NetworkConfigured"] = "True"
  BY <1>1, <1>2 DEF RecomputeHappiness, ConditionTypes, ConditionStatuses, Dependents, Happy,
     UnhappyStatus
<1>3. MarkTrue(c, "NetworkConfigured")["NetworkConfigured"] = "True"
  <2>1. SetCondition(c, "NetworkConfigured", "True") \in Conditions
        /\ SetCondition(c, "NetworkConfigured", "True")["NetworkConfigured"] = "True"
    BY <1>1 DEF ConditionTypes, ConditionStatuses, Dependents
  <2> QED BY <1>2, <2>1 DEF MarkTrue, Dependents
<1>4. ASSUME c["NetworkConfigured"] = "True"
      PROVE  MarkTrue(c, "LoadBalancerReady")[Happy] = "True"
  <2> DEFINE d == SetCondition(c, "LoadBalancerReady", "True")
  <2>1. d \in Conditions /\ \A u \in Dependents : d[u] = "True"
    BY <1>1, <1>4 DEF ConditionTypes, ConditionStatuses, Dependents, Happy
  <2>2. UnhappyStatus(d) = "True"
    BY <2>1 DEF UnhappyStatus
  <2>3. MarkTrue(c, "LoadBalancerReady") = SetCondition(d, Happy, "True")
    BY <2>2 DEF MarkTrue, RecomputeHappiness, Happy
  <2> HIDE DEF d
  <2> QED BY <1>1, <2>1, <2>3 DEF ConditionTypes, ConditionStatuses
<1>5. MarkTrue(c, "NetworkConfigured") \in Conditions
  BY MarksType DEF Dependents, ConditionTypes
<1> QED BY <1>3, <1>4, <1>5

\* A rule adds its route: as wanted already, or just written and its event
\* under way.
LEMMA RuleAttended ==
  ASSUME TypeInv, FlightInv, NEW w \in Workers, ReconcileRule(w), NEW k \in Keys, Busy(w, k),
         Calm(k), ~Woken(k)',
         PassOK(k, worker[w], fresh[k], Stored(ing[k]), cfg, route)
  PROVE  Attended(k)'
<1> DEFINE l == worker[w]
           rules == l.orig.spec.rules
           h == RouteName(rules, l.rule)
           spec == MakeHTTPRouteSpec(rules, l.rule, l.cfg)
           old == Cached(route[h])
           last == l.rule = Len(rules)
           new == IF old = None
                    THEN [owner |-> [key |-> l.key, uid |-> l.orig.uid],
                          spec |-> spec, status |-> None, from |-> Stamp(l)]
                    ELSE [old EXCEPT !.spec = spec, !.from = Stamp(l)]
<1>1. /\ l.pc = "rules" /\ UNCHANGED <<ing, fresh, cfg>>
      /\ \/ old # None /\ old.spec = spec /\ RuleDone(w, old) /\ UNCHANGED route
         \/ WriteRoute(h, new) /\ RuleDone(w, new)
         \/ EndReconcileKind(w, l.status, TRUE)
  BY DEF ReconcileRule, Stamp
<1>2. /\ l \in WorkerStates /\ l.key = k /\ l.status \in Statuses
      /\ l.status.conditions \in Conditions
      /\ l.rule \in 1 .. Len(rules) /\ l.orig.spec \in AllSpecs
  BY <1>1, BusyWorker DEF TypeInv, Busy
<1>3. /\ fresh[k] /\ l.orig = Stored(ing[k]) /\ rules = Rules(k)
      /\ RoutesAs(k, rules, l.rule, cfg, route)
      /\ l.cfg = cfg
  BY <1>1 DEF PassOK, InPass, Rules
<1>4. /\ Len(rules) \in Nat /\ DOMAIN rules = 1 .. Len(rules)
      /\ h \in Hosts /\ l.rule \in DOMAIN rules /\ Len(rules) \in DOMAIN rules
  BY <1>2, RulesType, RouteNameType
<1>5. RoutesAs(k, rules, l.rule, cfg, route')
  BY <1>3, <1>4, NothingNewKeeps DEF Calm
<1>6. CASE EndReconcileKind(w, l.status, TRUE)
  BY <1>1, <1>2, <1>6, ErrorAttended
<1> HIDE DEF new, spec, old
<1>7. ASSUME NEW r, RuleDone(w, r),
             RouteAs(k, route'[h], spec),
             Claims(k, route'[h]) /\ Synced(route'[h]) => Stored(route'[h]) = r
      PROVE  Attended(k)'
  <2> DEFINE marked == IF IsHTTPRouteReady(r) THEN MarkTrue(l.status.conditions, "NetworkConfigured")
                       ELSE MarkUnknown(l.status.conditions, Happy)
             pc == IF last THEN "probe" ELSE "rules"
             status == [l.status EXCEPT !.conditions = marked]
             rule == l.rule + 1
             m == [l EXCEPT !.pc = pc, !.rule = rule, !.status = status]
  <2>1. SetWorker(w, m)
    BY <1>7 DEF RuleDone
  <2>2. /\ m.pc = pc /\ m.rule = rule /\ m.status = status
        /\ m.key = k /\ m.orig = l.orig /\ m.cfg = l.cfg
    <3> HIDE DEF pc, rule, status
    <3> QED BY <1>2 DEF WorkerStates
  <2>3. status.conditions = marked
    <3> HIDE DEF marked
    <3> QED BY <1>2 DEF Statuses
  <2>4. pc \in {"rules", "probe"} /\ (pc = "probe" <=> last)
    OBVIOUS
  <2>5. IsHTTPRouteReady(r) => marked["NetworkConfigured"] = "True"
    BY <1>2, MarkTrueMarks
  <2> HIDE DEF m, status, marked, pc
  <2>6. \A v \in Workers : worker'[v] = IF v = w THEN m ELSE worker[v]
    BY <2>1, WorkerAt
  <2>7. Busy(w, k)'
    BY <2>2, <2>4, <2>6 DEF Busy
  <2>8. RoutesAs(k, rules, rule, cfg, route')
    <3> SUFFICES ASSUME NEW i \in DOMAIN rules, i < rule
                 PROVE  RouteAs(k, route'[RouteName(rules, i)], MakeHTTPRouteSpec(rules, i, cfg))
      BY DEF RoutesAs
    <3>1. CASE i = l.rule
      BY <1>3, <1>7, <3>1 DEF spec
    <3>2. CASE i # l.rule
      <4>1. i < l.rule
        BY <1>2, <1>4, <3>2
      <4> QED BY <1>5, <4>1 DEF RoutesAs
    <3> QED BY <3>1, <3>2
  <2>9. last => (LastHeard(k, rules, route') => m.status.conditions["NetworkConfigured"] = "True")
    BY <1>7, <2>2, <2>3, <2>5 DEF LastHeard
  <2>10. last => rule = Len(rules) + 1
    BY <1>4
  <2>11. PassOK(k, m, fresh'[k], Stored(ing'[k]), cfg', route')
    <3> HIDE DEF last, rule
    <3>1. m.orig = Stored(ing[k]) /\ rules = Stored(ing[k]).spec.rules /\ m.cfg = cfg
      BY <1>3, <2>2
    <3>2. last => RoutesAs(k, rules, Len(rules) + 1, cfg, route')
      BY <2>8, <2>10
    <3> HIDE DEF rules, l
    <3> QED BY <1>1, <1>3, <2>2, <2>4, <2>8, <2>9, <3>1, <3>2 DEF PassOK
  <2> QED BY <2>6, <2>7, <2>11, OwnStep
<1>8. CASE old # None /\ old.spec = spec /\ RuleDone(w, old) /\ UNCHANGED route
  <2>1. Synced(route[h]) => Stored(route[h]) = old
    BY <1>4, LogEnds DEF TypeInv, RoutesOK, old
  <2>2. RouteAs(k, route'[h], spec)
    BY <1>8, <2>1 DEF RouteAs, Exists
  <2> QED BY <1>7, <1>8, <2>1, <2>2
<1>9. CASE WriteRoute(h, new) /\ RuleDone(w, new)
  <2>1. ~Synced(route'[h])
    <3>1. route' = [route EXCEPT ![h] = Append(route[h], new)]
      BY <1>9 DEF WriteRoute
    <3>2. new \in RouteObjects
      <4> DEFINE owner == [key |-> l.key, uid |-> l.orig.uid]
                 from == Stamp(l)
      <4>1. /\ l.cfg \in Configs /\ l.key \in Keys
            /\ l.orig.uid \in Nat /\ l.orig.generation \in Nat
        BY <1>1, BusyWorker DEF TypeInv
      <4>2. spec \in RouteSpecs
        BY <1>2, <4>1, RouteSpecType DEF spec
      <4>3. owner \in [key : Keys, uid : Nat] /\ from \in [key : Keys, uid : Nat, generation : Nat]
        BY <4>1 DEF Stamp
      <4>4. old \in {None} \cup RouteObjects
        BY <1>4, LogEnds DEF TypeInv, RoutesOK, old
      <4>5. new = IF old = None THEN [owner |-> owner, spec |-> spec, status |-> None, from |-> from]
                  ELSE [old EXCEPT !.spec = spec, !.from = from]
        BY DEF new
      <4> HIDE DEF owner, from
      <4> QED BY <4>2, <4>3, <4>4, <4>5 DEF RouteObjects
    <3>3. route'[h] = Append(route[h], new)
      BY <1>4, <3>1 DEF TypeInv, RoutesOK
    <3> QED BY <1>4, <3>2, <3>3, WrittenLog DEF TypeInv, RoutesOK
  <2> QED BY <1>7, <1>9, <2>1 DEF RouteAs
<1> QED BY <1>1, <1>6, <1>8, <1>9

\* The prober answers, or will.
LEMMA ProbeAttended ==
  ASSUME TypeInv, FlightInv, NEW w \in Workers, ProbeIngress(w), NEW k \in Keys, Busy(w, k),
         Calm(k), ~Woken(k)',
         PassOK(k, worker[w], fresh[k], Stored(ing[k]), cfg, route)
  PROVE  Attended(k)'
<1> DEFINE l == worker[w]
           o == Stored(ing[k])
           rules == o.spec.rules
           hash == ComputeHash(l.orig.spec.rules)
           known == prober[k] # None /\ prober[k].hash = hash
           lb == <<LookupService(l.cfg, "ExternalIP"), LookupService(l.cfg, "ClusterLocal")>>
           up == MarkTrue(l.status.conditions, "LoadBalancerReady")
           unknown == MarkUnknown(l.status.conditions, "LoadBalancerReady")
           status == IF IsReady(k, hash) THEN [l.status EXCEPT !.lb = lb, !.conditions = up]
                     ELSE [l.status EXCEPT !.conditions = unknown]
           state == [hash |-> hash, ready |-> FALSE]
<1>1. l \in WorkerStates /\ l.key = k /\ l.pc = "probe"
  BY BusyWorker DEF TypeInv, Busy, ProbeIngress
<1>2. /\ UNCHANGED <<ing, route, fresh, cfg>>
      /\ \/ /\ prober' = IF known THEN prober ELSE [prober EXCEPT ![k] = state]
            /\ EndReconcileKind(w, status, FALSE)
         \/ EndReconcileKind(w, l.status, TRUE)
  BY <1>1 DEF ProbeIngress
<1>3. /\ l.status \in Statuses /\ l.status.conditions \in Conditions
      /\ l.orig.generation \in Nat /\ l.cfg \in Configs
  BY <1>1, BusyWorker DEF TypeInv
<1>4. /\ fresh[k] /\ l.orig = o /\ l.cfg = cfg
      /\ RoutesAs(k, rules, Len(rules) + 1, cfg, route)
      /\ LastHeard(k, rules, route) => l.status.conditions["NetworkConfigured"] = "True"
  BY <1>1 DEF PassOK, InPass
<1>5. CASE EndReconcileKind(w, l.status, TRUE)
  BY <1>1, <1>2, <1>3, <1>5, ErrorAttended
<1>6. CASE /\ prober' = IF known THEN prober ELSE [prober EXCEPT ![k] = state]
           /\ EndReconcileKind(w, status, FALSE)
  <2> DEFINE g == l.orig.generation
             s == [status EXCEPT !.observedGeneration = g]
             m == [l EXCEPT !.pc = "status", !.status = s, !.err = FALSE]
  <2>1. \/ s = l.orig.status /\ FinishReconcile(w, FALSE)
        \/ SetWorker(w, m)
    BY <1>6 DEF EndReconcileKind
  <2>2. CASE SetWorker(w, m)
    <3>1. m.pc = "status" /\ m.key = k /\ m.orig = l.orig /\ m.cfg = l.cfg
      <4> HIDE DEF s
      <4> QED BY <1>1 DEF WorkerStates
    <3> HIDE DEF m
    <3>2. \A v \in Workers : worker'[v] = IF v = w THEN m ELSE worker[v]
      BY <2>2, WorkerAt
    <3>3. Busy(w, k)'
      BY <3>1, <3>2 DEF Busy
    <3>4. PassOK(k, m, fresh'[k], Stored(ing'[k]), cfg', route')
      BY <1>2, <1>4, <3>1 DEF PassOK
    <3> QED BY <3>2, <3>3, <3>4, OwnStep
  <2>3. CASE s = l.orig.status /\ FinishReconcile(w, FALSE)
    <3>1. \A v \in Workers : worker'[v] = IF v = w THEN IdleWorker ELSE worker[v]
      BY <2>3, FinishRetires DEF Retires
    <3>2. worker'[w].pc = "idle"
      BY <3>1 DEF IdleWorker
    <3>3. ASSUME ~IsReady(k, hash) PROVE Unanswered(k)'
      <4>1. CASE known
        BY <1>6, <3>3, <4>1 DEF IsReady, Unanswered
      <4>2. CASE ~known
        <5>1. prober'[k] = state
          <6> HIDE DEF state
          <6> QED BY <1>6, <4>2 DEF TypeInv, ProberOK
        <5>2. state \in ProbeStates
          <6>1. l.orig.spec \in AllSpecs
            BY <1>1, BusyWorker DEF TypeInv
          <6>2. hash \in Hashes
            BY <6>1 DEF Hashes
          <6> HIDE DEF hash
          <6> QED BY <6>2 DEF ProbeStates
        <5>3. state.ready = FALSE
          OBVIOUS
        <5>4. state # None
          BY <5>2, ProbeStatesAssumption
        <5> HIDE DEF state
        <5> QED BY <5>1, <5>3, <5>4 DEF Unanswered
      <4> QED BY <4>1, <4>2
    <3>4. ASSUME IsReady(k, hash) PROVE UpToDate(k, o, cfg, route)
      <4>1. up \in Conditions /\ lb \in Services \X Services
        <5>1. lb \in Services \X Services
          BY <1>3 DEF LookupService, Services, Visibilities
        <5>2. up \in Conditions
          BY <1>3, MarksType DEF ConditionTypes, Dependents
        <5> QED BY <5>1, <5>2
      <4>2. status = [l.status EXCEPT !.lb = lb, !.conditions = up]
        BY <3>4
      <4>3. s.observedGeneration = g /\ s.lb = lb /\ s.conditions = up
        <5> HIDE DEF lb, up, status
        <5> QED BY <1>3, <4>2 DEF Statuses
      <4>4. LastHeard(k, rules, route) => up[Happy] = "True"
        BY <1>3, <1>4, MarkTrueMarks
      <4>5. o.status = s /\ g = o.generation
        BY <1>4, <2>3
      <4>6. lb = <<LookupService(cfg, "ExternalIP"), LookupService(cfg, "ClusterLocal")>>
        BY <1>4
      <4> HIDE DEF lb, up, s
      <4> QED BY <1>4, <4>3, <4>4, <4>5, <4>6 DEF UpToDate
    <3>5. Unanswered(k)' \/ UpToDate(k, Stored(ing'[k]), cfg', route')
      BY <1>2, <3>3, <3>4
    <3> QED BY <3>1, <3>2, <3>5, OwnStep
  <2> QED BY <2>1, <2>2, <2>3
<1> QED BY <1>2, <1>5, <1>6

\* A conflict or an error calls k's key, and so does the status once written.
LEMMA StatusAttended ==
  ASSUME TypeInv, NEW w \in Workers, UpdateStatus(w) \/ GetLatest(w), NEW k \in Keys, Busy(w, k),
         Managed(k)', ~Woken(k)', Calm(k),
         PassOK(k, worker[w], fresh[k], Stored(ing[k]), cfg, route)
  PROVE  FALSE
<1>1. worker[w].key = k
  BY DEF Busy
<1>2. CASE GetLatest(w)
  BY <1>2 DEF GetLatest, PassOK
<1>3. CASE UpdateStatus(w)
  <2>1. worker[w].pc = "status" /\ fresh[k]
    BY <1>3 DEF UpdateStatus, PassOK, InPass
  <2>2. ~UNCHANGED ing \/ FinishReconcile(w, TRUE)
    <3>1. \/ WriteIngress(k, [Stored(ing[k]) EXCEPT !.status = worker[w].status])
          \/ FinishReconcile(w, TRUE)
      BY <1>1, <1>3, <2>1 DEF UpdateStatus
    <3>2. ASSUME NEW x, WriteIngress(k, x), UNCHANGED ing PROVE FALSE
      <4>1. ing[k] \in Logs(IngressObjects) /\ ing[k] = Append(ing[k], x)
        BY <3>2 DEF WriteIngress, TypeInv, IngressesOK
      <4>2. ing[k] \in Seq({None} \cup IngressObjects \cup {x}) /\ Len(ing[k]) \in Nat
        BY <4>1 DEF Logs
      <4> QED BY <4>1, <4>2
    <3> QED BY <3>1, <3>2
  <2>3. CASE FinishReconcile(w, TRUE)
    <3>1. Calls(wq', k)
      BY <1>1, <2>1, <2>3, FinishCalls
    <3> QED BY <3>1 DEF Woken
  <2>4. CASE ~UNCHANGED ing
    <3>1. PICK x \in IngressObjects : WriteIngress(k, x)
      BY <1>1, <1>3, <2>4, StatusWrites
    <3>2. UNCHANGED <<route, cfg, resync>>
      BY <1>3 DEF UpdateStatus
    <3>3. Calls(wq, k) => Calls(wq', k)
      BY <1>3, WorkerCalls DEF WorkerStep
    <3> QED BY <3>1, <3>2, <3>3, CalmIngressWrite
  <2> QED BY <2>2, <2>3, <2>4
<1> QED BY <1>2, <1>3

-----------------------------------------------------------------------------
(* The invariant holds throughout. *)

LEMMA InitWake == Init => WakeInv
<1> SUFFICES ASSUME Init, NEW k \in Keys, Managed(k) PROVE FALSE
  BY DEF WakeInv
<1>1. ing[k] = <<None>>
  BY DEF Init
<1>2. Stored(ing[k]) = None
  BY <1>1 DEF Stored
<1> QED BY <1>2 DEF Managed, Exists

LEMMA NextWake ==
  TypeInv /\ FlightInv /\ OwnersInv /\ WakeInv /\ [Next]_vars => WakeInv'
<1> SUFFICES ASSUME TypeInv, FlightInv, OwnersInv, WakeInv, [Next]_vars,
                    NEW k \in Keys, Managed(k)', ~Woken(k)'
             PROVE  Attended(k)'
  BY DEF WakeInv
<1>1. ASSUME NEW w \in Workers, Takes(w, k) PROVE Attended(k)'
  BY <1>1, TakesAttended
<1>2. CASE Calm(k)
  <2>1. Bystands(k) => Attended(k)'
    BY <1>2, BystanderAttended
  <2>2. UNCHANGED <<worker, fresh, prober>> => Bystands(k)
    BY StillBystands
  <2>3. ASSUME NEW w \in Workers, WorkerStep(w) PROVE Attended(k)'
    <3>1. CASE worker[w].key # k
      BY <2>1, <2>3, <3>1, ElsewhereBystands
    <3>2. CASE worker[w].key = k
      <4>1. Busy(w, k)
        BY <2>3, <3>2, WorkerStays DEF Busy
      <4>2. PassOK(k, worker[w], fresh[k], Stored(ing[k]), cfg, route)
        BY <1>2, <4>1 DEF WakeInv, Calm, Attended
      <4> QED BY <1>2, <2>3, <4>1, <4>2, ReadAttended, RuleAttended, ProbeAttended,
                 StatusAttended DEF WorkerStep
    <3> QED BY <3>1, <3>2
  <2>4. ASSUME NEW j \in Keys,
               \/ \E s \in Specs[j] : CreateIngress(j, s) \/ UpdateIngress(j, s)
               \/ DeleteIngress(j)
        PROVE  Bystands(k)
    BY <2>4, UserBystands
  <2>5. ASSUME NEW j \in Keys, ProbeSucceeds(j) PROVE Bystands(k)
    BY <2>5, CallbackBystands
  <2>6. ASSUME NEW w \in Workers, ProcessNextWorkItem(w) PROVE Attended(k)'
    BY <1>1, <2>1, <2>6, TakingBystands
  <2>7. ASSUME NEW j \in Keys,
               \/ IngressEvent(j) \/ \E n \in 2 .. Len(ing[j]) : IngressRelist(j, n)
               \/ RunConsumer(j)
        PROVE  Bystands(k)
    BY <2>2, <2>7 DEF IngressEvent, IngressRelist, RunConsumer
  <2>8. ASSUME NEW h \in Hosts,
               \/ GatewayAdmits(h) \/ GatewayRejects(h) \/ GatewayForgets(h)
               \/ CollectRoute(h) \/ DeleteRoute(h)
        PROVE  Bystands(k)
    BY <2>2, <2>8, ClusterKeepsOwner
  <2>9. ASSUME NEW h \in Hosts,
               RouteEvent(h) \/ \E n \in 2 .. Len(route[h]) : RouteRelist(h, n)
        PROVE  Bystands(k)
    BY <2>2, <2>9 DEF RouteEvent, RouteRelist
  <2>10. CASE (\E c \in Configs : ChangeConfig(c)) \/ GlobalResync
    BY <2>2, <2>1, <2>10 DEF ChangeConfig, GlobalResync
  <2>11. ~Restart
    BY RestartCalls
  <2>12. CASE UNCHANGED vars
    BY <2>1, <2>2, <2>12 DEF vars
  <2> QED BY <2>1, <2>3, <2>4, <2>5, <2>6, <2>7, <2>8, <2>9, <2>10, <2>11, <2>12 DEF Next
<1> QED BY <1>1, <1>2, CalmNext

LEMMA WakeInvariant == Spec => []WakeInv
BY InitWake, NextWake, TypeInvariant, FlightInvariant, OwnersInvariant, PTL DEF Spec

-----------------------------------------------------------------------------
(* What it means at rest. *)

\* At rest nobody works and nobody is called.
LEMMA RestAttended ==
  ASSUME FlightInv, WakeInv, Quiet, NEW k \in Keys, Managed(k)
  PROVE  UpToDate(k, Stored(ing[k]), cfg, route)
<1>1. ~Woken(k)
  BY DEF Quiet, AtRest, Idle, Woken, Calls
<1>2. \A w \in Workers : ~Busy(w, k)
  BY DEF Quiet, AtRest, Idle, FlightInv, SingleFlight, Busy
<1>3. ~Unanswered(k)
  BY DEF Quiet, Unanswered
<1> QED BY <1>1, <1>2, <1>3 DEF WakeInv, Attended

\* An Ingress that claims all its routes has converged.
LEMMA ClaimantConverged ==
  ASSUME TypeInv, FlightInv, WakeInv, Quiet, NEW k \in Keys,
         Managed(k) => \A i \in DOMAIN Rules(k) : Claims(k, route[RouteName(Rules(k), i)])
  PROVE  Converged(k)
<1> SUFFICES ASSUME Managed(k)
             PROVE  LET o == Stored(ing[k]) IN
                    /\ \A i \in DOMAIN Rules(k) :
                         LET r == Stored(route[RouteName(Rules(k), i)])
                         IN  r # None /\ r.spec = MakeHTTPRouteSpec(Rules(k), i, cfg)
                    /\ IsIngressReady(o)
                    /\ o.status.lb = <<LookupService(cfg, "ExternalIP"),
                                       LookupService(cfg, "ClusterLocal")>>
  BY DEF Converged, Managed
<1> DEFINE rules == Rules(k)
<1>1. UpToDate(k, Stored(ing[k]), cfg, route) /\ rules = Stored(ing[k]).spec.rules
  BY RestAttended DEF Rules
<1>2. /\ Stored(ing[k]).spec \in AllSpecs
      /\ Len(rules) \in Nat /\ Len(rules) \in DOMAIN rules
      /\ DOMAIN rules = 1 .. Len(rules)
  BY ManagedRules
<1>3. \A i \in DOMAIN rules : RouteName(rules, i) \in Hosts /\ i < Len(rules) + 1
  BY <1>1, <1>2, RouteNameType
<1>4. ASSUME NEW i \in DOMAIN rules
      PROVE  LET log == route[RouteName(rules, i)]
             IN  /\ Claims(k, log) /\ Synced(log) /\ Exists(log)
                 /\ Stored(log).spec = MakeHTTPRouteSpec(rules, i, cfg)
  <2> DEFINE log == route[RouteName(rules, i)]
  <2>1. RouteAs(k, log, MakeHTTPRouteSpec(rules, i, cfg))
    BY <1>1, <1>3 DEF UpToDate, RoutesAs
  <2>2. Claims(k, log) /\ Synced(log)
    BY <1>3 DEF Quiet, AtRest
  <2> HIDE DEF log
  <2> QED BY <2>1, <2>2 DEF RouteAs, log
<1>5. LastHeard(k, rules, route)
  <2> DEFINE h == RouteName(rules, Len(rules))
             a == [gateway |-> Stored(route[h]).spec.gateway, admitted |-> TRUE]
  <2>1. h \in Hosts /\ Claims(k, route[h]) /\ Synced(route[h]) /\ Exists(route[h])
    BY <1>2, <1>3, <1>4
  <2>2. Stored(route[h]).status = {a}
    BY <2>1 DEF Quiet, Admission
  <2>3. a \in [gateway : Gateways, admitted : BOOLEAN] /\ a.admitted
    <3>1. Stored(route[h]) \in RouteObjects
      BY <2>1, LogEnds DEF TypeInv, RoutesOK, Exists
    <3> QED BY <3>1, RouteGateway
  <2> HIDE DEF a, h
  <2>4. {a} # None
    BY <2>3, AnswersAssumption
  <2>5. IsHTTPRouteReady(Stored(route[h]))
    BY <2>2, <2>3, <2>4 DEF IsHTTPRouteReady
  <2> QED BY <2>1, <2>5 DEF LastHeard, h
<1> QED BY <1>1, <1>4, <1>5 DEF UpToDate, IsIngressReady, Exists

\* Whatever its rivals do, an Ingress that owns all its routes converges: the
\* events of a route it owns wake it after every write of a rival, so once
\* everything is quiet its last pass found all its routes as it wants them.
THEOREM OwnersConverge == Spec => []OwnerConverges
<1>1. TypeInv /\ FlightInv /\ WakeInv => OwnerConverges
  <2> SUFFICES ASSUME TypeInv, FlightInv, WakeInv, Quiet, NEW k \in Keys, Exists(ing[k]),
                      \A i \in DOMAIN Rules(k) : Owns(k, RouteName(Rules(k), i))
               PROVE  Converged(k)
    BY DEF OwnerConverges
  <2>1. \A i \in DOMAIN Rules(k) : Claims(k, route[RouteName(Rules(k), i)])
    BY DEF Owns, Claims, Exists
  <2> QED BY <2>1, ClaimantConverged
<1> QED BY <1>1, TypeInvariant, FlightInvariant, WakeInvariant, PTL

\* Where Ingresses share no route name and watches do not break, no wake-up is
\* lost at all: neither edits of Ingresses and configuration, nor failed calls,
\* deleted routes and restarts leave an Ingress behind once everything is quiet.
\* Both conditions are needed: the runs missed_delete and shared_host show what
\* happens without them.
THEOREM NoWakeUpIsLost ==
  ASSUME ~WatchesBreak, HostsNotShared
  PROVE  Spec => []QuietMeansConverged
<1>1. TypeInv /\ FlightInv /\ WakeInv => QuietMeansConverged
  BY ClaimantConverged DEF QuietMeansConverged, Claims, Undisturbed
<1> QED BY <1>1, TypeInvariant, FlightInvariant, WakeInvariant, PTL

=============================================================================
