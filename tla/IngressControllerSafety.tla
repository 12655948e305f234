---------------------- MODULE IngressControllerSafety ----------------------
(***************************************************************************)
(* The safety of the Ingress controller beyond its types, for every        *)
(* instance: what a status may claim, and that neither routes nor statuses *)
(* go back in time although they are computed from cached copies.          *)
(*                                                                         *)
(* The invariants here speak of the set of versions in a log and of which  *)
(* comes before which, not of their places: a watch event or a list only   *)
(* takes versions away, and a write puts one after all others.             *)
(***************************************************************************)
EXTENDS IngressControllerProofs

-----------------------------------------------------------------------------
(* The versions of an object between the cache and the API server. *)

Versions(log) == {log[i] : i \in 1 .. Len(log)} \ {None}

Before(log, a, b) ==
  \E i, j \in 1 .. Len(log) : i < j /\ log[i] = a /\ log[j] = b

\* The cache catches up: versions go, the stored one stays.
Loses(log, next) ==
  /\ Versions(next) \subseteq Versions(log)
  /\ Stored(next) = Stored(log)
  /\ \A a, b \in Versions(next) : Before(next, a, b) => Before(log, a, b)

\* The API server accepts a write.
Gains(log, next, x) ==
  /\ Versions(next) \subseteq Versions(log) \cup {x}
  /\ Stored(next) = x
  /\ \A a, b \in Versions(next) :
       Before(next, a, b) => Before(log, a, b) \/ (a \in Versions(log) /\ b = x)

\* Versions are objects, and both ends of a log are among them unless deleted.
LEMMA VersionsType ==
  ASSUME NEW S, NEW log \in Logs(S)
  PROVE  /\ Versions(log) \subseteq S
         /\ Exists(log) => Stored(log) \in Versions(log)
         /\ Cached(log) # None => Cached(log) \in Versions(log)
<1>1. log \in Seq({None} \cup S) /\ Len(log) \in Nat \ {0}
  BY LogEnds DEF Logs
<1>2. Cached(log) = log[1] /\ 1 \in 1 .. Len(log) /\ Len(log) \in 1 .. Len(log)
  BY <1>1 DEF Cached
<1> QED BY <1>1, <1>2 DEF Versions, Stored, Exists

\* The cached version comes before all others, the stored one after them.
LEMMA VersionsOrder ==
  ASSUME NEW S, NEW log \in Logs(S), NEW o \in Versions(log)
  PROVE  /\ o = Cached(log) \/ Before(log, Cached(log), o)
         /\ o = Stored(log) \/ Before(log, o, Stored(log))
<1>1. log \in Seq({None} \cup S) /\ Len(log) \in Nat \ {0}
  BY LogEnds DEF Logs
<1>2. PICK i \in 1 .. Len(log) : o = log[i]
  BY DEF Versions
<1>3. Cached(log) = log[1] /\ 1 \in 1 .. Len(log) /\ Len(log) \in 1 .. Len(log)
  BY <1>1 DEF Cached
<1>4. i = 1 \/ 1 < i
  BY <1>1
<1>5. i = Len(log) \/ i < Len(log)
  BY <1>1
<1> QED BY <1>2, <1>3, <1>4, <1>5 DEF Before, Stored

\* Of two versions in order, both are versions.
LEMMA BeforeVersions ==
  ASSUME NEW log, NEW a, NEW b, Before(log, a, b)
  PROVE  /\ a # None => a \in Versions(log)
         /\ b # None => b \in Versions(log)
BY DEF Before, Versions

\* A write adds one version, the last.
LEMMA VersionsWrite ==
  ASSUME NEW S, NEW log \in Logs(S), NEW x \in {None} \cup S
  PROVE  Gains(log, Append(log, x), x)
<1>1. log \in Seq({None} \cup S) /\ Len(log) \in Nat
  BY DEF Logs
<1>2. /\ Len(Append(log, x)) = Len(log) + 1
      /\ \A i \in 1 .. Len(log) + 1 :
           Append(log, x)[i] = IF i = Len(log) + 1 THEN x ELSE log[i]
  BY <1>1
<1>3. Versions(Append(log, x)) \subseteq Versions(log) \cup {x}
  <2> SUFFICES ASSUME NEW i \in 1 .. Len(log) + 1, Append(log, x)[i] # None
               PROVE  Append(log, x)[i] \in Versions(log) \cup {x}
    BY <1>2 DEF Versions
  <2>1. CASE i = Len(log) + 1
    BY <1>2, <2>1
  <2>2. CASE i # Len(log) + 1
    <3>1. i \in 1 .. Len(log)
      BY <1>1, <2>2
    <3> QED BY <1>2, <2>2, <3>1 DEF Versions
  <2> QED BY <2>1, <2>2
<1>4. ASSUME NEW a \in Versions(Append(log, x)), NEW b, Before(Append(log, x), a, b)
      PROVE  Before(log, a, b) \/ (a \in Versions(log) /\ b = x)
  <2>1. PICK i, j \in 1 .. Len(log) + 1 :
               i < j /\ Append(log, x)[i] = a /\ Append(log, x)[j] = b
    BY <1>2, <1>4 DEF Before
  <2>2. i \in 1 .. Len(log) /\ i # Len(log) + 1
    BY <1>1, <2>1
  <2>3. log[i] = a /\ a # None
    BY <1>2, <1>4, <2>1, <2>2 DEF Versions
  <2>4. CASE j = Len(log) + 1
    BY <1>2, <2>1, <2>2, <2>3, <2>4 DEF Versions
  <2>5. CASE j # Len(log) + 1
    <3>1. j \in 1 .. Len(log)
      BY <1>1, <2>5
    <3> QED BY <1>2, <2>1, <2>2, <2>3, <2>5, <3>1 DEF Before
  <2> QED BY <2>4, <2>5
<1> QED BY <1>3, <1>4, LogWrite DEF Gains

\* A watch event takes versions away.
LEMMA VersionsEvent ==
  ASSUME NEW S, NEW log \in Logs(S), ~Synced(log)
  PROVE  Loses(log, Tail(log))
<1>1. log \in Seq({None} \cup S) /\ Len(log) \in Nat /\ Len(log) >= 2
  BY LogEvent DEF Logs
<1>2. /\ Len(Tail(log)) = Len(log) - 1
      /\ \A i \in 1 .. Len(log) - 1 : Tail(log)[i] = log[i + 1] /\ i + 1 \in 1 .. Len(log)
  BY <1>1
<1>3. Versions(Tail(log)) \subseteq Versions(log)
  BY <1>2 DEF Versions
<1>4. \A a, b : Before(Tail(log), a, b) => Before(log, a, b)
  <2> SUFFICES ASSUME NEW i \in 1 .. Len(log) - 1, NEW j \in 1 .. Len(log) - 1, i < j
               PROVE  Before(log, Tail(log)[i], Tail(log)[j])
    BY <1>2 DEF Before
  <2>1. i + 1 < j + 1
    BY <1>1
  <2> QED BY <1>2, <2>1 DEF Before
<1> QED BY <1>3, <1>4, LogEvent DEF Loses

\* So does a list after a broken watch ...
LEMMA VersionsRelist ==
  ASSUME NEW S, NEW log \in Logs(S), NEW n \in 2 .. Len(log)
  PROVE  Loses(log, SubSeq(log, n, Len(log)))
<1> DEFINE rest == SubSeq(log, n, Len(log))
<1>1. Len(log) \in Nat /\ n \in Nat /\ 2 <= n /\ n <= Len(log)
  BY LogEnds
<1>2. /\ Stored(rest) = Stored(log)
      /\ Len(rest) = Len(log) - n + 1
      /\ \A i \in 1 .. Len(log) - n + 1 : rest[i] = log[i + n - 1]
  BY LogRelist
<1> HIDE DEF rest
<1>3. \A i \in 1 .. Len(rest) : rest[i] = log[i + n - 1] /\ i + n - 1 \in 1 .. Len(log)
  BY <1>1, <1>2
<1>4. Versions(rest) \subseteq Versions(log)
  BY <1>3 DEF Versions
<1>5. \A a, b : Before(rest, a, b) => Before(log, a, b)
  <2> SUFFICES ASSUME NEW i \in 1 .. Len(rest), NEW j \in 1 .. Len(rest), i < j
               PROVE  Before(log, rest[i], rest[j])
    BY DEF Before
  <2>1. i + n - 1 < j + n - 1
    BY <1>1, <1>2
  <2> QED BY <1>3, <2>1 DEF Before
<1> QED BY <1>2, <1>4, <1>5 DEF Loses, rest

\* ... and one after a restart.
LEMMA VersionsList ==
  ASSUME NEW S, NEW log \in Logs(S)
  PROVE  Loses(log, <<Stored(log)>>)
<1> DEFINE x == Stored(log)
<1>1. x # None => x \in Versions(log)
  BY VersionsType DEF Exists
<1> HIDE DEF x
<1>2. Len(<<x>>) = 1 /\ <<x>>[1] = x
  OBVIOUS
<1>3. Versions(<<x>>) \subseteq {x} \ {None}
  BY <1>2 DEF Versions
<1>4. Stored(<<x>>) = x
  BY <1>2 DEF Stored
<1>5. ~\E a, b : Before(<<x>>, a, b)
  BY <1>2 DEF Before
<1> QED BY <1>1, <1>3, <1>4, <1>5 DEF Loses, x

-----------------------------------------------------------------------------
(* What steps do to logs and threads. *)

\* A thread between reading its Ingress and the end of Reconcile holds a copy.
InPass(l) == l.pc \in {"rules", "probe", "status", "get"}

IngressesKept == \A k \in Keys : Loses(ing[k], ing'[k])
RoutesKept == \A h \in Hosts : Loses(route[h], route'[h])

IngressGains(k, x) ==
  \A j \in Keys : IF j = k THEN Gains(ing[k], ing'[k], x) ELSE ing'[j] = ing[j]

RouteGains(h, x) ==
  \A g \in Hosts : IF g = h THEN Gains(route[h], route'[h], x) ELSE route'[g] = route[g]

\* No thread starts or continues a pass other than by standing still.
NobodyMoves == \A w \in Workers : worker'[w] = worker[w] \/ ~InPass(worker'[w])

\* One thread goes on with the Ingress it has read ...
Moves(w) ==
  /\ InPass(worker[w]) /\ InPass(worker'[w])
  /\ worker'[w].key = worker[w].key
  /\ worker'[w].orig = worker[w].orig
  /\ \A v \in Workers : v # w => worker'[v] = worker[v]

\* ... or is done with it.
Retires(w) == \A v \in Workers : worker'[v] = IF v = w THEN IdleWorker ELSE worker[v]

\* A log that stays loses nothing.
LEMMA KeptStill ==
  /\ UNCHANGED ing => IngressesKept
  /\ UNCHANGED route => RoutesKept
BY DEF IngressesKept, RoutesKept, Loses

\* A write to an Ingress.
LEMMA WriteIngressGains ==
  ASSUME TypeInv, NEW k \in Keys, NEW x \in {None} \cup IngressObjects, WriteIngress(k, x)
  PROVE  IngressGains(k, x)
<1>1. ing \in [Keys -> Logs(IngressObjects)] /\ ing' = [ing EXCEPT ![k] = Append(ing[k], x)]
  BY DEF TypeInv, IngressesOK, WriteIngress
<1>2. \A j \in Keys : ing'[j] = IF j = k THEN Append(ing[k], x) ELSE ing[j]
  BY <1>1
<1>3. Gains(ing[k], Append(ing[k], x), x)
  BY <1>1, VersionsWrite
<1> QED BY <1>2, <1>3 DEF IngressGains

\* A write to a route.
LEMMA WriteRouteGains ==
  ASSUME TypeInv, NEW h \in Hosts, NEW x \in {None} \cup RouteObjects, WriteRoute(h, x)
  PROVE  RouteGains(h, x)
<1>1. route \in [Hosts -> Logs(RouteObjects)] /\ route' = [route EXCEPT ![h] = Append(route[h], x)]
  BY DEF TypeInv, RoutesOK, WriteRoute
<1>2. \A g \in Hosts : route'[g] = IF g = h THEN Append(route[h], x) ELSE route[g]
  BY <1>1
<1>3. Gains(route[h], Append(route[h], x), x)
  BY <1>1, VersionsWrite
<1> QED BY <1>2, <1>3 DEF RouteGains

\* An event, a list or a restart.
LEMMA IngressesCatchUp ==
  ASSUME TypeInv,
         \/ \E k \in Keys : IngressEvent(k) \/ \E n \in 2 .. Len(ing[k]) : IngressRelist(k, n)
         \/ Restart
  PROVE  IngressesKept
<1> SUFFICES ASSUME NEW j \in Keys PROVE Loses(ing[j], ing'[j])
  BY DEF IngressesKept
<1>1. ing \in [Keys -> Logs(IngressObjects)] /\ ing[j] \in Logs(IngressObjects)
  BY DEF TypeInv, IngressesOK
<1>2. Loses(ing[j], ing[j])
  BY DEF Loses
<1>3. CASE Restart
  BY <1>1, <1>3, VersionsList DEF Restart
<1>4. ASSUME NEW k \in Keys, IngressEvent(k) PROVE Loses(ing[j], ing'[j])
  <2>1. ~Synced(ing[k]) /\ ing' = [ing EXCEPT ![k] = Tail(ing[k])]
    BY <1>4 DEF IngressEvent
  <2>2. ing'[j] = IF j = k THEN Tail(ing[k]) ELSE ing[j]
    BY <1>1, <2>1
  <2> QED BY <1>1, <1>2, <2>1, <2>2, VersionsEvent
<1>5. ASSUME NEW k \in Keys, NEW n \in 2 .. Len(ing[k]), IngressRelist(k, n)
      PROVE  Loses(ing[j], ing'[j])
  <2>1. ing' = [ing EXCEPT ![k] = SubSeq(ing[k], n, Len(ing[k]))]
    BY <1>5 DEF IngressRelist
  <2>2. ing'[j] = IF j = k THEN SubSeq(ing[k], n, Len(ing[k])) ELSE ing[j]
    BY <1>1, <2>1
  <2> QED BY <1>1, <1>2, <2>2, VersionsRelist
<1> QED BY <1>3, <1>4, <1>5

LEMMA RoutesCatchUp ==
  ASSUME TypeInv,
         \/ \E h \in Hosts : RouteEvent(h) \/ \E n \in 2 .. Len(route[h]) : RouteRelist(h, n)
         \/ Restart
  PROVE  RoutesKept
<1> SUFFICES ASSUME NEW g \in Hosts PROVE Loses(route[g], route'[g])
  BY DEF RoutesKept
<1>1. route \in [Hosts -> Logs(RouteObjects)] /\ route[g] \in Logs(RouteObjects)
  BY DEF TypeInv, RoutesOK
<1>2. Loses(route[g], route[g])
  BY DEF Loses
<1>3. CASE Restart
  BY <1>1, <1>3, VersionsList DEF Restart
<1>4. ASSUME NEW h \in Hosts, RouteEvent(h) PROVE Loses(route[g], route'[g])
  <2>1. ~Synced(route[h]) /\ route' = [route EXCEPT ![h] = Tail(route[h])]
    BY <1>4 DEF RouteEvent
  <2>2. route'[g] = IF g = h THEN Tail(route[h]) ELSE route[g]
    BY <1>1, <2>1
  <2> QED BY <1>1, <1>2, <2>1, <2>2, VersionsEvent
<1>5. ASSUME NEW h \in Hosts, NEW n \in 2 .. Len(route[h]), RouteRelist(h, n)
      PROVE  Loses(route[g], route'[g])
  <2>1. route' = [route EXCEPT ![h] = SubSeq(route[h], n, Len(route[h]))]
    BY <1>5 DEF RouteRelist
  <2>2. route'[g] = IF g = h THEN SubSeq(route[h], n, Len(route[h])) ELSE route[g]
    BY <1>1, <2>1
  <2> QED BY <1>1, <1>2, <2>2, VersionsRelist
<1> QED BY <1>3, <1>4, <1>5

\* The steps outside the passes that write nothing: logs only lose versions.
LEMMA Catching ==
  ASSUME TypeInv,
         \/ UNCHANGED vars
         \/ \E k \in Keys : \/ IngressEvent(k)
                            \/ \E n \in 2 .. Len(ing[k]) : IngressRelist(k, n)
                            \/ RunConsumer(k)
                            \/ ProbeSucceeds(k)
         \/ \E c \in Configs : ChangeConfig(c)
         \/ GlobalResync
         \/ \E h \in Hosts : \/ RouteEvent(h)
                             \/ \E n \in 2 .. Len(route[h]) : RouteRelist(h, n)
         \/ \E w \in Workers : ProcessNextWorkItem(w)
         \/ Restart
  PROVE  IngressesKept /\ RoutesKept /\ NobodyMoves /\ UNCHANGED created
<1>1. UNCHANGED worker => NobodyMoves
  BY DEF NobodyMoves
<1>2. CASE UNCHANGED vars
  BY <1>1, <1>2, KeptStill DEF vars
<1>3. ASSUME NEW k \in Keys,
             IngressEvent(k) \/ \E n \in 2 .. Len(ing[k]) : IngressRelist(k, n)
      PROVE  IngressesKept /\ RoutesKept /\ NobodyMoves /\ UNCHANGED created
  <2>1. UNCHANGED <<route, worker, created>>
    BY <1>3 DEF IngressEvent, IngressRelist
  <2> QED BY <1>1, <1>3, <2>1, KeptStill, IngressesCatchUp
<1>4. ASSUME NEW h \in Hosts,
             RouteEvent(h) \/ \E n \in 2 .. Len(route[h]) : RouteRelist(h, n)
      PROVE  IngressesKept /\ RoutesKept /\ NobodyMoves /\ UNCHANGED created
  <2>1. UNCHANGED <<ing, worker, created>>
    BY <1>4 DEF RouteEvent, RouteRelist
  <2> QED BY <1>1, <1>4, <2>1, KeptStill, RoutesCatchUp
<1>5. CASE \/ \E k \in Keys : RunConsumer(k) \/ ProbeSucceeds(k)
           \/ \E c \in Configs : ChangeConfig(c)
           \/ GlobalResync
  <2>1. UNCHANGED <<ing, route, worker, created>>
    BY <1>5 DEF RunConsumer, ProbeSucceeds, ChangeConfig, GlobalResync
  <2> QED BY <1>1, <2>1, KeptStill
<1>6. ASSUME NEW w \in Workers, ProcessNextWorkItem(w)
      PROVE  IngressesKept /\ RoutesKept /\ NobodyMoves /\ UNCHANGED created
  <2> DEFINE l == [IdleWorker EXCEPT !.pc = "read", !.key = Head(wq.queue), !.cfg = cfg]
  <2>1. UNCHANGED <<ing, route, created>> /\ worker' = [worker EXCEPT ![w] = l]
    BY <1>6 DEF ProcessNextWorkItem, SetWorker
  <2>2. ~InPass(l)
    BY DEF InPass, IdleWorker
  <2> HIDE DEF l
  <2>3. NobodyMoves
    BY <2>1, <2>2 DEF NobodyMoves, TypeInv, WorkersOK
  <2> QED BY <2>1, <2>3, KeptStill
<1>7. CASE Restart
  <2>1. \A w \in Workers : worker'[w] = IdleWorker
    BY <1>7 DEF Restart
  <2>2. NobodyMoves
    BY <2>1 DEF NobodyMoves, InPass, IdleWorker
  <2>3. UNCHANGED created
    BY <1>7 DEF Restart
  <2> QED BY <1>7, <2>2, <2>3, IngressesCatchUp, RoutesCatchUp
<1> QED BY <1>2, <1>3, <1>4, <1>5, <1>6, <1>7

\* The cluster's own writes to routes: a route goes, or keeps its stamp.
LEMMA ClusterWrites ==
  ASSUME TypeInv, NEW h \in Hosts,
         \/ GatewayAdmits(h) \/ GatewayRejects(h) \/ GatewayForgets(h)
         \/ CollectRoute(h) \/ DeleteRoute(h)
  PROVE  /\ UNCHANGED <<ing, created, worker, prober, probed>>
         /\ Exists(route[h])
         /\ \E x \in {None} \cup RouteObjects :
              RouteGains(h, x) /\ (x # None => x.from = Stored(route[h]).from)
<1>1. /\ UNCHANGED <<ing, created, worker, prober, probed>>
      /\ Exists(route[h])
  BY DEF GatewayAdmits, GatewayRejects, GatewayForgets, CollectRoute, DeleteRoute,
     SetRouteStatus, RemoveRoute
<1>2. route[h] \in Logs(RouteObjects)
  BY DEF TypeInv, RoutesOK
<1>3. Stored(route[h]) \in RouteObjects
  BY <1>1, <1>2, LogEnds DEF Exists
<1>4. CASE RemoveRoute(h)
  BY <1>1, <1>4, WriteRouteGains DEF RemoveRoute
<1>5. ASSUME NEW s, SetRouteStatus(h, s), s \in SUBSET [gateway : Gateways, admitted : BOOLEAN]
      PROVE  \E x \in {None} \cup RouteObjects :
               RouteGains(h, x) /\ (x # None => x.from = Stored(route[h]).from)
  <2> DEFINE x == [Stored(route[h]) EXCEPT !.status = s]
  <2>1. WriteRoute(h, x)
    BY <1>5 DEF SetRouteStatus
  <2>2. x \in RouteObjects /\ x.from = Stored(route[h]).from
    BY <1>3, <1>5 DEF RouteObjects
  <2> HIDE DEF x
  <2> QED BY <2>1, <2>2, WriteRouteGains
<1>6. \A ok \in BOOLEAN : Admission(h, ok) \in SUBSET [gateway : Gateways, admitted : BOOLEAN]
  <2>1. Stored(route[h]).spec.gateway \in Gateways
    BY <1>3, RouteGateway
  <2> QED BY <2>1 DEF Admission
<1>7. \/ RemoveRoute(h)
      \/ \E ok \in BOOLEAN : SetRouteStatus(h, Admission(h, ok))
      \/ SetRouteStatus(h, {})
  BY DEF GatewayAdmits, GatewayRejects, GatewayForgets, CollectRoute, DeleteRoute
<1> QED BY <1>1, <1>4, <1>5, <1>6, <1>7

\* A thread's record is what SetWorker puts there.
LEMMA WorkerAt ==
  ASSUME TypeInv, NEW w \in Workers, NEW l, SetWorker(w, l)
  PROVE  \A v \in Workers : worker'[v] = IF v = w THEN l ELSE worker[v]
BY DEF SetWorker, TypeInv, WorkersOK

LEMMA FinishRetires ==
  ASSUME TypeInv, NEW w \in Workers, NEW err, FinishReconcile(w, err)
  PROVE  Retires(w)
BY WorkerAt DEF FinishReconcile, Retires

\* The end of ReconcileKind: the status to be written carries the generation
\* that was read and, after an error, is not Ready.
EndsWith(w, status, err) ==
  /\ worker'[w].pc = "status"
  /\ worker'[w].status.observedGeneration = worker[w].orig.generation
  /\ worker'[w].status.lb = status.lb
  /\ worker'[w].status.conditions =
       IF err THEN MarkUnknown(status.conditions, Happy) ELSE status.conditions

LEMMA EndReconcileKindEffect ==
  ASSUME TypeInv, NEW w \in Workers, worker[w].pc \in {"rules", "probe"},
         NEW status \in Statuses, NEW err \in BOOLEAN, EndReconcileKind(w, status, err)
  PROVE  Retires(w) \/ (Moves(w) /\ EndsWith(w, status, err))
<1> DEFINE c == MarkUnknown(status.conditions, Happy)
           s1 == IF err THEN [status EXCEPT !.conditions = c] ELSE status
           g == worker[w].orig.generation
           s2 == [s1 EXCEPT !.observedGeneration = g]
           l == [worker[w] EXCEPT !.pc = "status", !.status = s2, !.err = err]
<1>1. \/ FinishReconcile(w, err)
      \/ SetWorker(w, l)
  BY DEF EndReconcileKind
<1>2. worker[w] \in WorkerStates
  BY DEF TypeInv, WorkersOK
<1>3. /\ s2.observedGeneration = g
      /\ s2.lb = status.lb
      /\ s2.conditions = IF err THEN c ELSE status.conditions
  <2> HIDE DEF c, g
  <2>1. CASE err
    BY <2>1 DEF Statuses
  <2>2. CASE ~err
    BY <2>2 DEF Statuses
  <2> QED BY <2>1, <2>2
<1>4. /\ l.pc = "status" /\ l.status = s2
      /\ l.key = worker[w].key /\ l.orig = worker[w].orig
  <2> HIDE DEF s2
  <2> QED BY <1>2 DEF WorkerStates
<1> HIDE DEF s2, l
<1>5. CASE SetWorker(w, l)
  <2>1. worker'[w] = l /\ \A v \in Workers : v # w => worker'[v] = worker[v]
    BY <1>5, WorkerAt
  <2> QED BY <1>3, <1>4, <2>1 DEF Moves, InPass, EndsWith
<1> QED BY <1>1, <1>5, FinishRetires

\* One more rule: only NetworkConfigured is raised.
RuleMarks(w) ==
  /\ worker'[w].pc \in {"rules", "probe"}
  /\ worker'[w].status.lb = worker[w].status.lb
  /\ \/ worker'[w].status.conditions = MarkTrue(worker[w].status.conditions, "NetworkConfigured")
     \/ worker'[w].status.conditions = MarkUnknown(worker[w].status.conditions, Happy)

LEMMA RuleDoneEffect ==
  ASSUME TypeInv, NEW w \in Workers, worker[w].pc = "rules", NEW r, RuleDone(w, r)
  PROVE  Moves(w) /\ RuleMarks(w)
<1> DEFINE o == worker[w]
           marked == IF IsHTTPRouteReady(r)
                       THEN MarkTrue(o.status.conditions, "NetworkConfigured")
                       ELSE MarkUnknown(o.status.conditions, Happy)
           pc == IF o.rule = Len(o.orig.spec.rules) THEN "probe" ELSE "rules"
           status == [o.status EXCEPT !.conditions = marked]
           rule == o.rule + 1
           l == [o EXCEPT !.pc = pc, !.rule = rule, !.status = status]
<1>1. SetWorker(w, l)
  BY DEF RuleDone
<1>2. o \in WorkerStates /\ o.status \in Statuses
  BY BusyWorker DEF TypeInv
<1>3. status.lb = o.status.lb /\ status.conditions = marked
  <2> HIDE DEF marked
  <2> QED BY <1>2 DEF Statuses
<1>4. l.pc = pc /\ l.status = status /\ l.key = o.key /\ l.orig = o.orig
  <2> HIDE DEF pc, rule, status
  <2> QED BY <1>2 DEF WorkerStates
<1>5. pc \in {"rules", "probe"}
  OBVIOUS
<1>6. worker'[w] = l /\ \A v \in Workers : v # w => worker'[v] = worker[v]
  <2> HIDE DEF l
  <2> QED BY <1>1, WorkerAt
<1>7. \/ marked = MarkTrue(worker[w].status.conditions, "NetworkConfigured")
      \/ marked = MarkUnknown(worker[w].status.conditions, Happy)
  OBVIOUS
<1> HIDE DEF l, pc, status, marked
<1> QED BY <1>3, <1>4, <1>5, <1>6, <1>7 DEF Moves, InPass, RuleMarks

\* Reconcile reads a version that is in the log, or is done at once.
ReadsVersion(w) ==
  LET k == worker[w].key IN
  /\ worker'[w].pc = "rules"
  /\ worker'[w].key = k /\ k \in Keys
  /\ worker'[w].orig = Cached(ing[k]) /\ worker'[w].orig \in Versions(ing[k])
  /\ worker'[w].status = PreProcess(worker'[w].orig)
  /\ \A v \in Workers : v # w => worker'[v] = worker[v]

LEMMA ReadEffect ==
  ASSUME TypeInv, NEW w \in Workers, ReadIngress(w)
  PROVE  /\ UNCHANGED <<ing, route, created, prober, probed>>
         /\ worker[w].pc = "read"
         /\ Retires(w) \/ ReadsVersion(w)
<1> DEFINE k == worker[w].key
           obj == Cached(ing[k])
           status == PreProcess(obj)
           l == [worker[w] EXCEPT !.pc = "rules", !.orig = obj, !.rule = 1, !.status = status]
<1>1. /\ UNCHANGED <<ing, route, created, prober, probed>>
      /\ worker[w].pc = "read"
      /\ FinishReconcile(w, FALSE) \/ (obj # None /\ SetWorker(w, l))
  BY DEF ReadIngress
<1>2. worker[w] \in WorkerStates /\ k \in Keys
  BY <1>1, BusyWorker DEF TypeInv
<1>3. obj # None => obj \in Versions(ing[k])
  <2>1. ing[k] \in Logs(IngressObjects)
    BY <1>2 DEF TypeInv, IngressesOK
  <2> QED BY <2>1, VersionsType
<1>4. l.pc = "rules" /\ l.key = k /\ l.orig = obj /\ l.status = status
  <2> HIDE DEF obj, status
  <2> QED BY <1>2 DEF WorkerStates
<1> HIDE DEF l, obj
<1>5. CASE obj # None /\ SetWorker(w, l)
  <2>1. worker'[w] = l /\ \A v \in Workers : v # w => worker'[v] = worker[v]
    BY <1>5, WorkerAt
  <2> QED BY <1>1, <1>2, <1>3, <1>4, <1>5, <2>1 DEF ReadsVersion, obj
<1> QED BY <1>1, <1>5, FinishRetires

\* A route the controller writes carries the stamp of the copy it was made from.
Stamp(l) == [key |-> l.key, uid |-> l.orig.uid, generation |-> l.orig.generation]

LEMMA RuleEffect ==
  ASSUME TypeInv, NEW w \in Workers, ReconcileRule(w)
  PROVE  /\ UNCHANGED <<ing, created, prober, probed>>
         /\ worker[w].pc = "rules"
         /\ \/ UNCHANGED route
            \/ \E h \in Hosts, x \in RouteObjects : RouteGains(h, x) /\ x.from = Stamp(worker[w])
         /\ \/ Retires(w)
            \/ Moves(w) /\ EndsWith(w, worker[w].status, TRUE)
            \/ Moves(w) /\ RuleMarks(w)
<1> DEFINE l == worker[w]
           rules == l.orig.spec.rules
           h == RouteName(rules, l.rule)
           spec == MakeHTTPRouteSpec(rules, l.rule, l.cfg)
           old == Cached(route[h])
           from == Stamp(l)
           new == IF old = None
                    THEN [owner |-> [key |-> l.key, uid |-> l.orig.uid],
                          spec |-> spec, status |-> None, from |-> from]
                    ELSE [old EXCEPT !.spec = spec, !.from = from]
<1>1. /\ l.pc = "rules"
      /\ UNCHANGED <<ing, created, prober, probed>>
      /\ \/ RuleDone(w, old) /\ UNCHANGED route
         \/ WriteRoute(h, new) /\ RuleDone(w, new)
         \/ EndReconcileKind(w, l.status, TRUE) /\ UNCHANGED route
  BY DEF ReconcileRule, Stamp
<1>2. /\ l.orig.spec \in AllSpecs /\ l.rule \in 1 .. Len(rules)
      /\ l.key \in Keys /\ l.cfg \in Configs /\ l.status \in Statuses
      /\ l.orig.uid \in Nat /\ l.orig.generation \in Nat
  BY <1>1, BusyWorker DEF TypeInv
<1>3. \/ Retires(w)
      \/ Moves(w) /\ EndsWith(w, worker[w].status, TRUE)
      \/ Moves(w) /\ RuleMarks(w)
  <2>1. \A r : RuleDone(w, r) => Moves(w) /\ RuleMarks(w)
    BY <1>1, RuleDoneEffect
  <2>2. EndReconcileKind(w, l.status, TRUE) => Retires(w) \/ (Moves(w) /\ EndsWith(w, l.status, TRUE))
    BY <1>1, <1>2, EndReconcileKindEffect
  <2> QED BY <1>1, <2>1, <2>2
<1>4. h \in Hosts /\ spec \in RouteSpecs
  BY <1>2, RouteNameType, RouteSpecType
<1>5. old \in {None} \cup RouteObjects
  <2>1. route[h] \in Logs(RouteObjects)
    BY <1>4 DEF TypeInv, RoutesOK
  <2> QED BY <2>1, LogEnds
<1>6. /\ from \in [key : Keys, uid : Nat, generation : Nat]
      /\ [key |-> l.key, uid |-> l.orig.uid] \in [key : Keys, uid : Nat]
  BY <1>2 DEF Stamp
<1>7. new \in RouteObjects /\ new.from = from
  <2> HIDE DEF spec, from, old
  <2> QED BY <1>4, <1>5, <1>6 DEF RouteObjects
<1> HIDE DEF new, h
<1>8. WriteRoute(h, new) => RouteGains(h, new)
  BY <1>4, <1>7, WriteRouteGains
<1> QED BY <1>1, <1>3, <1>4, <1>7, <1>8

\* Only an answer of the prober raises LoadBalancerReady, and addresses come with it.
ProbeMarks(w) ==
  LET l == worker[w]
      s == worker'[w].status
  IN
  /\ worker'[w].pc = "status"
  /\ s.observedGeneration = l.orig.generation
  /\ \/ /\ IsReady(l.key, ComputeHash(l.orig.spec.rules))
        /\ s.conditions = MarkTrue(l.status.conditions, "LoadBalancerReady")
        /\ s.lb \in Services \X Services
     \/ /\ s.conditions = MarkUnknown(l.status.conditions, "LoadBalancerReady")
        /\ s.lb = l.status.lb
     \/ /\ s.conditions = MarkUnknown(l.status.conditions, Happy)
        /\ s.lb = l.status.lb

LEMMA ProbeEffect ==
  ASSUME TypeInv, NEW w \in Workers, ProbeIngress(w)
  PROVE  /\ UNCHANGED <<ing, route, created, probed>>
         /\ worker[w].pc = "probe"
         /\ \A k \in Keys : \/ prober'[k] = prober[k] \/ prober'[k] = None
                            \/ prober'[k].ready = FALSE
         /\ Retires(w) \/ (Moves(w) /\ ProbeMarks(w))
<1> DEFINE l == worker[w]
           k == l.key
           hash == ComputeHash(l.orig.spec.rules)
           lb == <<LookupService(l.cfg, "ExternalIP"), LookupService(l.cfg, "ClusterLocal")>>
           up == MarkTrue(l.status.conditions, "LoadBalancerReady")
           unknown == MarkUnknown(l.status.conditions, "LoadBalancerReady")
           yes == [l.status EXCEPT !.lb = lb, !.conditions = up]
           no == [l.status EXCEPT !.conditions = unknown]
           state == [hash |-> hash, ready |-> FALSE]
<1>1. /\ l.pc = "probe"
      /\ UNCHANGED <<ing, route, created, probed>>
      /\ \/ prober' = prober \/ prober' = [prober EXCEPT ![k] = state]
         \/ prober' = [prober EXCEPT ![k] = None]
      /\ \/ IsReady(k, hash) /\ EndReconcileKind(w, yes, FALSE)
         \/ EndReconcileKind(w, no, FALSE)
         \/ EndReconcileKind(w, l.status, TRUE)
  BY DEF ProbeIngress
<1>2. /\ l.orig.spec \in AllSpecs /\ k \in Keys /\ l.cfg \in Configs
      /\ l.status \in Statuses /\ l.status.conditions \in Conditions
  BY <1>1, BusyWorker DEF TypeInv
<1>3. \A j \in Keys : \/ prober'[j] = prober[j] \/ prober'[j] = None
                      \/ prober'[j].ready = FALSE
  <2>1. state.ready = FALSE
    OBVIOUS
  <2> HIDE DEF state
  <2> QED BY <1>1, <2>1 DEF TypeInv, ProberOK
<1>4. lb \in Services \X Services
  BY <1>2 DEF LookupService, Services, Visibilities
<1>5. up \in Conditions /\ unknown \in Conditions
  BY <1>2, MarksType DEF ConditionTypes, Dependents
<1>6. /\ yes \in Statuses /\ yes.lb = lb /\ yes.conditions = up
      /\ no \in Statuses /\ no.lb = l.status.lb /\ no.conditions = unknown
  <2> HIDE DEF lb, up, unknown
  <2> QED BY <1>2, <1>4, <1>5 DEF Statuses
<1> HIDE DEF yes, no, lb
<1>7. CASE IsReady(k, hash) /\ EndReconcileKind(w, yes, FALSE)
  <2>1. Retires(w) \/ (Moves(w) /\ EndsWith(w, yes, FALSE))
    BY <1>1, <1>6, <1>7, EndReconcileKindEffect
  <2>2. EndsWith(w, yes, FALSE) => ProbeMarks(w)
    BY <1>4, <1>6, <1>7 DEF EndsWith, ProbeMarks
  <2> QED BY <1>1, <1>3, <2>1, <2>2
<1>8. CASE EndReconcileKind(w, no, FALSE)
  <2>1. Retires(w) \/ (Moves(w) /\ EndsWith(w, no, FALSE))
    BY <1>1, <1>6, <1>8, EndReconcileKindEffect
  <2>2. EndsWith(w, no, FALSE) => ProbeMarks(w)
    BY <1>6 DEF EndsWith, ProbeMarks
  <2> QED BY <1>1, <1>3, <2>1, <2>2
<1>9. CASE EndReconcileKind(w, l.status, TRUE)
  <2>1. Retires(w) \/ (Moves(w) /\ EndsWith(w, l.status, TRUE))
    BY <1>1, <1>2, <1>9, EndReconcileKindEffect
  <2>2. EndsWith(w, l.status, TRUE) => ProbeMarks(w)
    BY DEF EndsWith, ProbeMarks
  <2> QED BY <1>1, <1>3, <2>1, <2>2
<1> QED BY <1>1, <1>7, <1>8, <1>9

\* A status write that goes through puts the computed status on the stored
\* version; a later attempt only moves between fetching and writing.
StatusWritten(w) ==
  LET k == worker[w].key IN
  /\ Retires(w)
  /\ Exists(ing[k])
  /\ \E x \in IngressObjects :
       /\ IngressGains(k, x)
       /\ x.uid = Stored(ing[k]).uid /\ x.generation = Stored(ing[k]).generation
       /\ x.spec = Stored(ing[k]).spec /\ x.status = worker[w].status

Retrying(w) ==
  /\ Moves(w)
  /\ worker[w].pc \in {"status", "get"} /\ worker'[w].pc \in {"status", "get"}
  /\ worker'[w].status = worker[w].status

LEMMA StatusEffect ==
  ASSUME TypeInv, NEW w \in Workers, UpdateStatus(w) \/ GetLatest(w)
  PROVE  /\ UNCHANGED <<route, created, prober, probed>>
         /\ worker[w].pc \in {"status", "get"}
         /\ \/ UNCHANGED ing /\ Retires(w)
            \/ UNCHANGED ing /\ Retrying(w)
            \/ StatusWritten(w)
<1> DEFINE l == worker[w]
           k == l.key
           x == [Stored(ing[k]) EXCEPT !.status = l.status]
           again == [l EXCEPT !.pc = "get", !.attempt = l.attempt + 1]
           got == [l EXCEPT !.pc = "status"]
<1>1. /\ UNCHANGED <<route, created, prober, probed>>
      /\ l.pc \in {"status", "get"}
      /\ \/ UNCHANGED ing /\ \E err : FinishReconcile(w, err)
         \/ UNCHANGED ing /\ (SetWorker(w, again) \/ SetWorker(w, got))
         \/ fresh[k] /\ WriteIngress(k, x) /\ FinishReconcile(w, l.err)
  <2>1. CASE UpdateStatus(w)
    BY <2>1 DEF UpdateStatus
  <2>2. CASE GetLatest(w)
    BY <2>2 DEF GetLatest
  <2> QED BY <2>1, <2>2
<1>2. l \in WorkerStates /\ k \in Keys /\ l.status \in Statuses
  BY <1>1, BusyWorker DEF TypeInv
<1>3. \A n \in {again, got} : /\ n.pc \in {"status", "get"} /\ n.status = l.status
                              /\ n.key = l.key /\ n.orig = l.orig
  BY <1>2 DEF WorkerStates
<1>4. ASSUME NEW n \in {again, got}, SetWorker(w, n) PROVE Retrying(w)
  <2>1. worker'[w] = n /\ \A v \in Workers : v # w => worker'[v] = worker[v]
    <3> HIDE DEF again, got
    <3> QED BY <1>4, WorkerAt
  <2> HIDE DEF again, got
  <2> QED BY <1>1, <1>3, <2>1 DEF Retrying, Moves, InPass
<1>5. CASE fresh[k] /\ WriteIngress(k, x) /\ FinishReconcile(w, l.err)
  <2>1. ing[k] \in Logs(IngressObjects) /\ Exists(ing[k])
    BY <1>2, <1>5 DEF TypeInv, IngressesOK, FreshExists
  <2>2. Stored(ing[k]) \in IngressObjects
    BY <2>1, LogEnds DEF Exists
  <2>3. /\ x \in IngressObjects /\ x.status = l.status /\ x.spec = Stored(ing[k]).spec
        /\ x.uid = Stored(ing[k]).uid /\ x.generation = Stored(ing[k]).generation
    BY <1>2, <2>2 DEF IngressObjects
  <2> HIDE DEF x
  <2>4. IngressGains(k, x)
    BY <1>2, <1>5, <2>3, WriteIngressGains
  <2>5. Retires(w)
    BY <1>5, FinishRetires
  <2> QED BY <1>1, <2>1, <2>3, <2>4, <2>5 DEF StatusWritten
<1> HIDE DEF again, got, x
<1> QED BY <1>1, <1>4, <1>5, FinishRetires

\* What users do to an Ingress: the first version of an incarnation, a version
\* after the stored one, or a deletion.
Creates(k, x) ==
  /\ ~Exists(ing[k])
  /\ created' = [created EXCEPT ![k] = created[k] + 1]
  /\ x \in IngressObjects
  /\ x.uid = created[k] + 1 /\ x.generation = 1 /\ x.status = NoStatus

Updates(k, x) ==
  /\ Exists(ing[k])
  /\ UNCHANGED created
  /\ x \in IngressObjects
  /\ x.uid = Stored(ing[k]).uid /\ x.status = Stored(ing[k]).status
  /\ \/ /\ x.generation = Stored(ing[k]).generation
        /\ x.spec.rules = Stored(ing[k]).spec.rules
     \/ x.generation = Stored(ing[k]).generation + 1

LEMMA UserEffect ==
  ASSUME TypeInv, NEW k \in Keys,
         \/ \E s \in Specs[k] : CreateIngress(k, s) \/ UpdateIngress(k, s)
         \/ DeleteIngress(k)
  PROVE  /\ UNCHANGED <<route, worker, prober, probed>>
         /\ \E x \in {None} \cup IngressObjects :
              /\ IngressGains(k, x)
              /\ Creates(k, x) \/ Updates(k, x) \/ (x = None /\ UNCHANGED created)
<1>1. UNCHANGED <<route, worker, prober, probed>>
  BY DEF CreateIngress, UpdateIngress, DeleteIngress
<1>2. ing[k] \in Logs(IngressObjects) /\ created[k] \in Nat
  BY DEF TypeInv, IngressesOK, CountersOK
<1>3. CASE DeleteIngress(k)
  <2>1. WriteIngress(k, None) /\ UNCHANGED created
    BY <1>3 DEF DeleteIngress
  <2> QED BY <1>1, <2>1, WriteIngressGains
<1>4. ASSUME NEW s \in Specs[k], CreateIngress(k, s)
      PROVE  \E x \in {None} \cup IngressObjects : IngressGains(k, x) /\ Creates(k, x)
  <2> DEFINE x == [uid |-> created[k] + 1, generation |-> 1, spec |-> s, status |-> NoStatus]
  <2>1. /\ ~Exists(ing[k]) /\ WriteIngress(k, x)
        /\ created' = [created EXCEPT ![k] = created[k] + 1]
    BY <1>4 DEF CreateIngress
  <2>2. NoStatus \in Statuses
    BY DEF NoStatus, NoConditions, Statuses, Conditions, ConditionStatuses
  <2>3. x \in IngressObjects
    BY <1>2, <2>2 DEF IngressObjects, AllSpecs
  <2>4. x.uid = created[k] + 1 /\ x.generation = 1 /\ x.status = NoStatus
    OBVIOUS
  <2> HIDE DEF x
  <2> QED BY <2>1, <2>3, <2>4, WriteIngressGains DEF Creates
<1>5. ASSUME NEW s \in Specs[k], UpdateIngress(k, s)
      PROVE  \E x \in {None} \cup IngressObjects : IngressGains(k, x) /\ Updates(k, x)
  <2> DEFINE old == Stored(ing[k])
             g == IF s.rules = old.spec.rules THEN old.generation ELSE old.generation + 1
             x == [old EXCEPT !.spec = s, !.generation = g]
  <2>1. Exists(ing[k]) /\ WriteIngress(k, x) /\ UNCHANGED created
    BY <1>5 DEF UpdateIngress
  <2>2. old \in IngressObjects
    BY <1>2, <2>1, LogEnds DEF Exists
  <2>3. g \in Nat
    BY <2>2 DEF IngressObjects
  <2>4. \/ g = old.generation /\ s.rules = old.spec.rules
        \/ g = old.generation + 1
    OBVIOUS
  <2>5. /\ x \in IngressObjects
        /\ x.uid = old.uid /\ x.status = old.status /\ x.spec = s /\ x.generation = g
    <3> HIDE DEF g, old
    <3> QED BY <2>2, <2>3 DEF IngressObjects, AllSpecs
  <2> HIDE DEF x
  <2>6. Updates(k, x)
    BY <2>1, <2>4, <2>5 DEF Updates
  <2> QED BY <2>1, <2>5, <2>6, WriteIngressGains
<1> QED BY <1>1, <1>3, <1>4, <1>5

-----------------------------------------------------------------------------
(* Ready comes with both dependents and with addresses.                    *)

GoodStatus(s) ==
  /\ HappyImpliesDependents(s.conditions)
  /\ s.conditions["LoadBalancerReady"] = "True" => s.lb # None

\* In every version on its way to the cache, and in every status a thread
\* computes: a cached copy is where the next status starts from.
StatusInv ==
  /\ \A k \in Keys : \A o \in Versions(ing[k]) : GoodStatus(o.status)
  /\ \A w \in Workers : InPass(worker[w]) => GoodStatus(worker[w].status)

\* MarkTrue raises the happy condition only when all dependents are True.
LEMMA MarkTrueHappy ==
  ASSUME NEW c \in Conditions, NEW t \in Dependents
  PROVE  /\ HappyImpliesDependents(MarkTrue(c, t))
         /\ \A d \in Dependents : d # t => MarkTrue(c, t)[d] = c[d]
BY DEF MarkTrue, RecomputeHappiness, SetCondition, UnhappyStatus, HappyImpliesDependents,
   Conditions, ConditionTypes, ConditionStatuses, Dependents, Happy

\* MarkUnknown leaves an Ingress that is not Ready.
LEMMA MarkUnknownHappy ==
  ASSUME NEW c \in Conditions, NEW t \in ConditionTypes
  PROVE  /\ MarkUnknown(c, t)[Happy] # "True"
         /\ MarkUnknown(c, t)[t] # "True"
         /\ \A d \in Dependents : d # t => MarkUnknown(c, t)[d] = c[d]
BY DEF MarkUnknown, MarkFalse, SetCondition, Conditions, ConditionTypes, ConditionStatuses,
   Dependents, Happy

\* InitializeConditions copies True only into what already was.
LEMMA InitializeHappy ==
  ASSUME NEW c \in Conditions, HappyImpliesDependents(c)
  PROVE  /\ HappyImpliesDependents(InitializeConditions(c))
         /\ InitializeConditions(c)["LoadBalancerReady"] = "True" => c["LoadBalancerReady"] = "True"
BY DEF InitializeConditions, HappyImpliesDependents, Conditions, ConditionTypes,
   ConditionStatuses, Dependents, Happy

\* Every status the reconciler computes from a good one is good.
LEMMA PreProcessGood ==
  ASSUME NEW o \in IngressObjects, GoodStatus(o.status)
  PROVE  GoodStatus(PreProcess(o))
<1> DEFINE c0 == InitializeConditions(o.status.conditions)
           c == IF o.status.observedGeneration # o.generation THEN MarkUnknown(c0, Happy) ELSE c0
<1>1. o.status \in Statuses /\ o.status.conditions \in Conditions
  BY DEF IngressObjects, Statuses
<1>2. /\ c0 \in Conditions /\ HappyImpliesDependents(c0)
      /\ c0["LoadBalancerReady"] = "True" => o.status.conditions["LoadBalancerReady"] = "True"
  BY <1>1, InitializeConditionsType, InitializeHappy DEF GoodStatus
<1> HIDE DEF c0
<1>3. /\ HappyImpliesDependents(c)
      /\ c["LoadBalancerReady"] = "True" => c0["LoadBalancerReady"] = "True"
  <2>1. MarkUnknown(c0, Happy)[Happy] # "True"
        /\ MarkUnknown(c0, Happy)["LoadBalancerReady"] = c0["LoadBalancerReady"]
    BY <1>2, MarkUnknownHappy DEF ConditionTypes, Dependents, Happy
  <2> QED BY <1>2, <2>1 DEF HappyImpliesDependents
<1>4. PreProcess(o) = [o.status EXCEPT !.conditions = c]
  BY DEF PreProcess, c0
<1> HIDE DEF c
<1>5. PreProcess(o).conditions = c /\ PreProcess(o).lb = o.status.lb
  BY <1>1, <1>4 DEF Statuses
<1> QED BY <1>2, <1>3, <1>5 DEF GoodStatus

\* A mark of a good status with the addresses kept.
LEMMA MarksGood ==
  ASSUME NEW s \in Statuses, GoodStatus(s), NEW r, r.lb = s.lb,
         \/ r.conditions = MarkTrue(s.conditions, "NetworkConfigured")
         \/ \E t \in {Happy, "LoadBalancerReady"} : r.conditions = MarkUnknown(s.conditions, t)
  PROVE  GoodStatus(r)
<1>1. s.conditions \in Conditions
  BY DEF Statuses
<1>2. CASE r.conditions = MarkTrue(s.conditions, "NetworkConfigured")
  <2>1. /\ HappyImpliesDependents(r.conditions)
        /\ r.conditions["LoadBalancerReady"] = s.conditions["LoadBalancerReady"]
    BY <1>1, <1>2, MarkTrueHappy DEF Dependents
  <2> QED BY <2>1 DEF GoodStatus
<1>3. ASSUME NEW t \in {Happy, "LoadBalancerReady"}, r.conditions = MarkUnknown(s.conditions, t)
      PROVE  GoodStatus(r)
  <2>1. t \in ConditionTypes /\ "LoadBalancerReady" \in Dependents
    BY DEF ConditionTypes, Dependents
  <2>2. /\ r.conditions[Happy] # "True"
        /\ \/ r.conditions["LoadBalancerReady"] # "True"
           \/ r.conditions["LoadBalancerReady"] = s.conditions["LoadBalancerReady"]
    BY <1>1, <1>3, <2>1, MarkUnknownHappy
  <2> QED BY <2>2 DEF GoodStatus, HappyImpliesDependents
<1> QED BY <1>2, <1>3

\* What has to be shown of a step.
LEMMA StatusFrame ==
  ASSUME StatusInv,
         \A k \in Keys : \A o \in Versions(ing'[k]) : o \in Versions(ing[k]) \/ GoodStatus(o.status),
         \A w \in Workers : \/ worker'[w] = worker[w] \/ ~InPass(worker'[w])
                            \/ GoodStatus(worker'[w].status)
  PROVE  StatusInv'
BY DEF StatusInv, GoodStatus, Versions, InPass

\* The steps of the threads.
LEMMA WorkerStatus ==
  ASSUME TypeInv, StatusInv, NEW w \in Workers, WorkerStep(w)
  PROVE  StatusInv'
<1>1. ~InPass(IdleWorker)
  BY DEF InPass, IdleWorker
<1>2. ASSUME UNCHANGED ing, Retires(w) PROVE StatusInv'
  BY <1>1, <1>2, StatusFrame DEF Retires
<1>3. ASSUME UNCHANGED ing, Moves(w), GoodStatus(worker'[w].status) PROVE StatusInv'
  BY <1>3, StatusFrame DEF Moves
<1>4. ASSUME InPass(worker[w])
      PROVE  /\ worker[w].status \in Statuses /\ GoodStatus(worker[w].status)
             /\ worker[w].key \in Keys /\ worker[w].status.conditions \in Conditions
  BY <1>4, BusyWorker DEF InPass, TypeInv, StatusInv
<1>5. CASE ReadIngress(w)
  <2>1. CASE ReadsVersion(w)
    <3> DEFINE k == worker[w].key
               o == worker'[w].orig
    <3>1. /\ o \in Versions(ing[k]) /\ worker'[w].status = PreProcess(o) /\ k \in Keys
          /\ \A v \in Workers : v # w => worker'[v] = worker[v]
      BY <2>1 DEF ReadsVersion
    <3>2. ing[k] \in Logs(IngressObjects)
      BY <3>1 DEF TypeInv, IngressesOK
    <3>3. o \in IngressObjects /\ GoodStatus(o.status)
      BY <3>1, <3>2, VersionsType DEF StatusInv
    <3>4. GoodStatus(worker'[w].status)
      BY <3>1, <3>3, PreProcessGood
    <3>5. UNCHANGED ing
      BY <1>5, ReadEffect
    <3> QED BY <3>1, <3>4, <3>5, StatusFrame
  <2> QED BY <1>2, <1>5, <2>1, ReadEffect
<1>6. CASE ReconcileRule(w)
  <2>1. worker[w].pc = "rules" /\ UNCHANGED ing
    BY <1>6, RuleEffect
  <2>2. worker[w].status \in Statuses /\ GoodStatus(worker[w].status)
    BY <1>4, <2>1 DEF InPass
  <2>3. EndsWith(w, worker[w].status, TRUE) => GoodStatus(worker'[w].status)
    BY <2>2, MarksGood DEF EndsWith
  <2>4. RuleMarks(w) => GoodStatus(worker'[w].status)
    BY <2>2, MarksGood DEF RuleMarks
  <2> QED BY <1>2, <1>3, <1>6, <2>1, <2>3, <2>4, RuleEffect
<1>7. CASE ProbeIngress(w)
  <2>1. worker[w].pc = "probe" /\ UNCHANGED ing
    BY <1>7, ProbeEffect
  <2>2. /\ worker[w].status \in Statuses /\ GoodStatus(worker[w].status)
        /\ worker[w].status.conditions \in Conditions
    BY <1>4, <2>1 DEF InPass
  <2>3. ASSUME ProbeMarks(w) PROVE GoodStatus(worker'[w].status)
    <3> DEFINE s == worker'[w].status
               c == worker[w].status.conditions
    <3>1. CASE s.conditions = MarkTrue(c, "LoadBalancerReady") /\ s.lb \in Services \X Services
      <4>1. HappyImpliesDependents(s.conditions)
        BY <2>2, <3>1, MarkTrueHappy DEF Dependents
      <4>2. s.lb # None
        BY <3>1, LoadBalancersAssumption
      <4> QED BY <4>1, <4>2 DEF GoodStatus
    <3>2. CASE /\ s.lb = worker[w].status.lb
               /\ \E t \in {Happy, "LoadBalancerReady"} : s.conditions = MarkUnknown(c, t)
      BY <2>2, <3>2, MarksGood
    <3> QED BY <2>3, <3>1, <3>2 DEF ProbeMarks
  <2> QED BY <1>2, <1>3, <1>7, <2>1, <2>3, ProbeEffect
<1>8. CASE UpdateStatus(w) \/ GetLatest(w)
  <2>1. /\ worker[w].pc \in {"status", "get"}
        /\ \/ UNCHANGED ing /\ Retires(w)
           \/ UNCHANGED ing /\ Retrying(w)
           \/ StatusWritten(w)
    BY <1>8, StatusEffect
  <2>2. GoodStatus(worker[w].status) /\ worker[w].key \in Keys
    BY <1>4, <2>1 DEF InPass
  <2>3. CASE UNCHANGED ing /\ Retrying(w)
    BY <1>3, <2>2, <2>3 DEF Retrying
  <2>4. CASE StatusWritten(w)
    <3>1. PICK x : IngressGains(worker[w].key, x) /\ x.status = worker[w].status
      BY <2>4 DEF StatusWritten
    <3>2. \A k \in Keys : \A o \in Versions(ing'[k]) :
            o \in Versions(ing[k]) \/ GoodStatus(o.status)
      BY <2>2, <3>1 DEF IngressGains, Gains
    <3> QED BY <1>1, <2>4, <3>2, StatusFrame DEF StatusWritten, Retires
  <2> QED BY <1>2, <2>1, <2>3, <2>4
<1> QED BY <1>5, <1>6, <1>7, <1>8 DEF WorkerStep

\* Every step keeps the invariant.
LEMMA NextStatus == TypeInv /\ StatusInv /\ [Next]_vars => StatusInv'
<1> SUFFICES ASSUME TypeInv, StatusInv, [Next]_vars PROVE StatusInv'
  OBVIOUS
<1>1. ASSUME IngressesKept, NobodyMoves PROVE StatusInv'
  BY <1>1, StatusFrame DEF IngressesKept, Loses, NobodyMoves
<1>2. ASSUME NEW k \in Keys,
             \/ \E s \in Specs[k] : CreateIngress(k, s) \/ UpdateIngress(k, s)
             \/ DeleteIngress(k)
      PROVE  StatusInv'
  <2>1. PICK x \in {None} \cup IngressObjects :
          /\ IngressGains(k, x)
          /\ Creates(k, x) \/ Updates(k, x) \/ x = None
    BY <1>2, UserEffect
  <2>2. UNCHANGED worker
    BY <1>2, UserEffect
  <2>3. x # None => GoodStatus(x.status)
    <3>1. GoodStatus(NoStatus)
      BY DEF GoodStatus, NoStatus, NoConditions, HappyImpliesDependents, ConditionTypes,
         Dependents, Happy
    <3>2. CASE Updates(k, x)
      <4>1. ing[k] \in Logs(IngressObjects)
        BY DEF TypeInv, IngressesOK
      <4>2. Stored(ing[k]) \in Versions(ing[k]) /\ x.status = Stored(ing[k]).status
        BY <3>2, <4>1, VersionsType DEF Updates
      <4> QED BY <4>2 DEF StatusInv
    <3> QED BY <2>1, <3>1, <3>2 DEF Creates
  <2>4. \A j \in Keys : \A o \in Versions(ing'[j]) : o \in Versions(ing[j]) \/ GoodStatus(o.status)
    <3>1. \A j \in Keys : None \notin Versions(ing'[j])
      BY DEF Versions
    <3> QED BY <2>1, <2>3, <3>1 DEF IngressGains, Gains
  <2> QED BY <2>2, <2>4, StatusFrame
<1>3. ASSUME NEW h \in Hosts,
             \/ GatewayAdmits(h) \/ GatewayRejects(h) \/ GatewayForgets(h)
             \/ CollectRoute(h) \/ DeleteRoute(h)
      PROVE  StatusInv'
  BY <1>1, <1>3, ClusterWrites, KeptStill DEF NobodyMoves
<1>4. ASSUME NEW w \in Workers, WorkerStep(w) PROVE StatusInv'
  BY <1>4, WorkerStatus
<1> QED BY <1>1, <1>2, <1>3, <1>4, Catching DEF Next

\* Whatever a status was computed from, a stored Ingress is Ready only with both
\* dependents True and LoadBalancerReady only with addresses: the promise of
\* ingress_types.go, through conflicts, retries, stale copies and restarts.
THEOREM ReadyComesWithLoadBalancer == Spec => []ReadyHasLoadBalancer
<1>1. Init => StatusInv
  <2> SUFFICES ASSUME Init PROVE StatusInv
    OBVIOUS
  <2>1. \A k \in Keys : Versions(ing[k]) = {}
    BY DEF Init, Versions
  <2> QED BY <2>1 DEF Init, StatusInv, InPass, IdleWorker
<1>2. TypeInv /\ StatusInv => ReadyHasLoadBalancer
  <2> SUFFICES ASSUME TypeInv, StatusInv, NEW k \in Keys, Exists(ing[k])
               PROVE  GoodStatus(Stored(ing[k]).status)
    BY DEF ReadyHasLoadBalancer, GoodStatus
  <2>1. ing[k] \in Logs(IngressObjects)
    BY DEF TypeInv, IngressesOK
  <2> QED BY <2>1, VersionsType DEF StatusInv
<1> QED BY <1>1, <1>2, NextStatus, TypeInvariant, PTL DEF Spec

-----------------------------------------------------------------------------
(* No route and no copy is ahead of its Ingress.  Within one incarnation   *)
(* generations only grow, so what was made from an earlier version is      *)
(* never later than any version still on its way, and single flight keeps  *)
(* the passes over one key in the order of the versions they read.         *)

NotAfter(a, b) == a.uid = b.uid => a.generation <= b.generation

\* The versions of an incarnation are in order.
LogsInv ==
  \A k \in Keys :
    /\ \A o \in Versions(ing[k]) : o.uid \in 1 .. created[k]
    /\ \A a, b \in Versions(ing[k]) : Before(ing[k], a, b) => NotAfter(a, b)

\* A thread's copy is no later than what its cache is about to see.
CopiesInv ==
  \A w \in Workers : InPass(worker[w]) =>
    LET l == worker[w] IN
      /\ l.orig.uid \in 1 .. created[l.key]
      /\ \A o \in Versions(ing[l.key]) : NotAfter(l.orig, o)

\* Nor is any version of a route, and none is later than the copy of the thread
\* that reconciles its Ingress now.
StampsInv ==
  \A h \in Hosts : \A r \in Versions(route[h]) :
    /\ r.from.uid <= created[r.from.key]
    /\ \A o \in Versions(ing[r.from.key]) : NotAfter(r.from, o)
    /\ \A w \in Workers :
         InPass(worker[w]) /\ worker[w].key = r.from.key => NotAfter(r.from, worker[w].orig)

GenerationInv == LogsInv /\ CopiesInv /\ StampsInv

\* The types of what is compared.
LEMMA StampTypes ==
  ASSUME TypeInv
  PROVE  /\ \A k \in Keys : /\ created[k] \in Nat
                            /\ ing[k] \in Logs(IngressObjects)
                            /\ Versions(ing[k]) \subseteq IngressObjects
                            /\ \A o \in Versions(ing[k]) : o.uid \in Nat /\ o.generation \in Nat
                            /\ Exists(ing[k]) => Stored(ing[k]) \in Versions(ing[k])
         /\ \A w \in Workers : InPass(worker[w]) =>
              /\ worker[w].key \in Keys /\ worker[w].orig \in IngressObjects
              /\ worker[w].orig.uid \in Nat /\ worker[w].orig.generation \in Nat
         /\ \A h \in Hosts : /\ route[h] \in Logs(RouteObjects)
                             /\ \A r \in Versions(route[h]) :
                                  /\ r.from.key \in Keys /\ r.from.uid \in Nat
                                  /\ r.from.generation \in Nat
                             /\ Exists(route[h]) => Stored(route[h]) \in Versions(route[h])
<1>1. ASSUME NEW o \in IngressObjects PROVE o.uid \in Nat /\ o.generation \in Nat
  BY DEF IngressObjects
<1>2. ASSUME NEW r \in RouteObjects
      PROVE  r.from.key \in Keys /\ r.from.uid \in Nat /\ r.from.generation \in Nat
  BY DEF RouteObjects
<1>3. ASSUME NEW k \in Keys
      PROVE  /\ created[k] \in Nat
             /\ ing[k] \in Logs(IngressObjects)
             /\ Versions(ing[k]) \subseteq IngressObjects
             /\ Exists(ing[k]) => Stored(ing[k]) \in Versions(ing[k])
  <2>1. created[k] \in Nat /\ ing[k] \in Logs(IngressObjects)
    BY DEF TypeInv, CountersOK, IngressesOK
  <2> QED BY <2>1, VersionsType
<1>4. ASSUME NEW h \in Hosts
      PROVE  /\ route[h] \in Logs(RouteObjects)
             /\ Versions(route[h]) \subseteq RouteObjects
             /\ Exists(route[h]) => Stored(route[h]) \in Versions(route[h])
  <2>1. route[h] \in Logs(RouteObjects)
    BY DEF TypeInv, RoutesOK
  <2> QED BY <2>1, VersionsType
<1>5. ASSUME NEW w \in Workers, InPass(worker[w])
      PROVE  worker[w].key \in Keys /\ worker[w].orig \in IngressObjects
  BY <1>5, BusyWorker DEF TypeInv, InPass
<1> QED BY <1>1, <1>2, <1>3, <1>4, <1>5

\* In a log in order the cached version is the earliest, the stored one the latest.
LEMMA EndsInOrder ==
  ASSUME TypeInv, LogsInv, NEW k \in Keys, NEW o \in Versions(ing[k])
  PROVE  /\ Exists(ing[k]) => NotAfter(o, Stored(ing[k]))
         /\ Cached(ing[k]) # None => NotAfter(Cached(ing[k]), o)
<1>1. ing[k] \in Logs(IngressObjects) /\ o.generation \in Nat
  BY StampTypes
<1>2. NotAfter(o, o)
  BY <1>1 DEF NotAfter
<1> QED BY <1>1, <1>2, VersionsOrder, VersionsType DEF LogsInv

\* Logs that only lose versions and threads that only stop keep it.
LEMMA KeptGenerations ==
  ASSUME TypeInv, GenerationInv, IngressesKept, RoutesKept, NobodyMoves, UNCHANGED created
  PROVE  GenerationInv'
<1>1. \A k \in Keys :
        /\ Versions(ing'[k]) \subseteq Versions(ing[k])
        /\ \A a, b \in Versions(ing'[k]) : Before(ing'[k], a, b) => Before(ing[k], a, b)
  BY DEF IngressesKept, Loses
<1>2. \A h \in Hosts : Versions(route'[h]) \subseteq Versions(route[h])
  BY DEF RoutesKept, Loses
<1>3. \A w \in Workers : InPass(worker'[w]) => worker'[w] = worker[w]
  BY DEF NobodyMoves
<1>4. LogsInv'
  BY <1>1 DEF GenerationInv, LogsInv
<1>5. CopiesInv'
  BY <1>1, <1>3, StampTypes DEF GenerationInv, CopiesInv
<1>6. StampsInv'
  BY <1>1, <1>2, <1>3, StampTypes DEF GenerationInv, StampsInv
<1> QED BY <1>4, <1>5, <1>6 DEF GenerationInv

\* The next version of an Ingress: of a new incarnation, or no earlier than the
\* stored one.
Follows(k, x) ==
  /\ Exists(ing[k]) /\ UNCHANGED created
  /\ x \in IngressObjects
  /\ x.uid = Stored(ing[k]).uid /\ Stored(ing[k]).generation <= x.generation

LEMMA GainedGenerations ==
  ASSUME TypeInv, GenerationInv, NEW k \in Keys, NEW x, IngressGains(k, x),
         UNCHANGED route, NobodyMoves,
         (x = None /\ UNCHANGED created) \/ Creates(k, x) \/ Follows(k, x)
  PROVE  GenerationInv'
<1>1. \A j \in Keys : /\ Versions(ing'[j]) \subseteq Versions(ing[j]) \cup {x}
                      /\ j # k => ing'[j] = ing[j]
                      /\ created[j] <= created'[j] /\ created'[j] \in Nat
  <2>1. \A j \in Keys : created[j] <= created'[j] /\ created'[j] \in Nat
    BY StampTypes DEF Creates, Follows, TypeInv, CountersOK
  <2> QED BY <2>1 DEF IngressGains, Gains
<1>2. None \notin Versions(ing'[k]) /\ Stored(ing'[k]) = x
  BY DEF IngressGains, Gains, Versions
<1>3. x # None => x.uid \in 1 .. created'[k] /\ x.generation \in Nat
  <2>1. CASE Creates(k, x)
    <3>1. created'[k] = created[k] + 1 /\ created[k] \in Nat
      BY <2>1, StampTypes DEF Creates, TypeInv, CountersOK
    <3> QED BY <2>1, <3>1 DEF Creates
  <2>2. CASE Follows(k, x)
    BY <2>2, StampTypes DEF Follows, IngressObjects, GenerationInv, LogsInv
  <2> QED BY <2>1, <2>2
<1>4. ASSUME NEW a, a.uid \in Nat, a.generation \in Nat, a.uid <= created[k],
             \A o \in Versions(ing[k]) : NotAfter(a, o), x # None
      PROVE  NotAfter(a, x)
  <2>1. CASE Creates(k, x)
    BY <1>4, <2>1, StampTypes DEF Creates, NotAfter
  <2>2. CASE Follows(k, x)
    BY <1>3, <1>4, <2>2, StampTypes DEF Follows, NotAfter
  <2> QED BY <1>4, <2>1, <2>2
<1>5. \A w \in Workers : InPass(worker'[w]) => worker'[w] = worker[w]
  BY DEF NobodyMoves
<1>6. LogsInv'
  <2>1. ASSUME NEW j \in Keys, NEW o \in Versions(ing'[j]) PROVE o.uid \in 1 .. created'[j]
    <3>1. CASE o \in Versions(ing[j])
      BY <1>1, <3>1, StampTypes DEF GenerationInv, LogsInv
    <3>2. CASE j = k /\ o = x
      BY <1>2, <1>3, <3>2, <2>1
    <3> QED BY <1>1, <2>1, <3>1, <3>2
  <2>2. ASSUME NEW j \in Keys, NEW a \in Versions(ing'[j]), NEW b \in Versions(ing'[j]),
               Before(ing'[j], a, b)
        PROVE  NotAfter(a, b)
    <3>1. CASE j # k
      BY <1>1, <2>2, <3>1 DEF GenerationInv, LogsInv
    <3>2. CASE j = k /\ Before(ing[k], a, b)
      <4>1. a \in Versions(ing[k]) /\ b \in Versions(ing[k])
        BY <1>2, <2>2, <3>2, BeforeVersions
      <4> QED BY <3>2, <4>1 DEF GenerationInv, LogsInv
    <3>3. CASE j = k /\ a \in Versions(ing[k]) /\ b = x
      <4>1. x # None
        BY <1>2, <2>2, <3>3
      <4>2. a.uid \in 1 .. created[k] /\ a.uid \in Nat /\ a.generation \in Nat
        BY <3>3, StampTypes DEF GenerationInv, LogsInv
      <4>3. CASE Creates(k, x)
        BY <3>3, <4>2, <4>3, StampTypes DEF Creates, NotAfter
      <4>4. CASE Follows(k, x)
        <5>1. NotAfter(a, Stored(ing[k])) /\ Stored(ing[k]).generation \in Nat
          BY <3>3, <4>4, EndsInOrder, StampTypes DEF GenerationInv, Follows
        <5> QED BY <1>3, <3>3, <4>1, <4>2, <4>4, <5>1 DEF Follows, NotAfter
      <4> QED BY <4>1, <4>3, <4>4
    <3> QED BY <2>2, <3>1, <3>2, <3>3 DEF IngressGains, Gains
  <2> QED BY <2>1, <2>2 DEF LogsInv
<1>7. CopiesInv'
  <2> SUFFICES ASSUME NEW w \in Workers, InPass(worker'[w])
               PROVE  /\ worker'[w].orig.uid \in 1 .. created'[worker'[w].key]
                      /\ \A o \in Versions(ing'[worker'[w].key]) : NotAfter(worker'[w].orig, o)
    BY DEF CopiesInv
  <2> DEFINE l == worker[w]
  <2>1. worker'[w] = l /\ InPass(l)
    BY <1>5
  <2>2. /\ l.key \in Keys /\ l.orig.uid \in 1 .. created[l.key] /\ l.orig.uid \in Nat
        /\ l.orig.generation \in Nat
        /\ \A o \in Versions(ing[l.key]) : NotAfter(l.orig, o)
    BY <2>1, StampTypes DEF GenerationInv, CopiesInv
  <2>3. created[l.key] \in Nat /\ l.orig.uid <= created[l.key]
    BY <2>2, StampTypes
  <2> HIDE DEF l
  <2>4. l.orig.uid \in 1 .. created'[l.key]
    BY <1>1, <2>2, <2>3
  <2>5. ASSUME NEW o \in Versions(ing'[l.key]) PROVE NotAfter(l.orig, o)
    <3>1. CASE o \in Versions(ing[l.key])
      BY <2>2, <3>1
    <3>2. CASE l.key = k /\ o = x
      BY <1>2, <1>4, <2>2, <2>3, <2>5, <3>2
    <3> QED BY <1>1, <2>2, <2>5, <3>1, <3>2
  <2> QED BY <2>1, <2>4, <2>5
<1>8. StampsInv'
  <2> SUFFICES ASSUME NEW h \in Hosts, NEW r \in Versions(route[h])
               PROVE  /\ r.from.uid <= created'[r.from.key]
                      /\ \A o \in Versions(ing'[r.from.key]) : NotAfter(r.from, o)
                      /\ \A w \in Workers : InPass(worker'[w]) /\ worker'[w].key = r.from.key
                                              => NotAfter(r.from, worker'[w].orig)
    BY DEF StampsInv
  <2> DEFINE f == r.from
  <2>1. /\ f.key \in Keys /\ f.uid \in Nat /\ f.generation \in Nat
        /\ f.uid <= created[f.key] /\ created[f.key] \in Nat
        /\ \A o \in Versions(ing[f.key]) : NotAfter(f, o)
        /\ \A w \in Workers : InPass(worker[w]) /\ worker[w].key = f.key
                                => NotAfter(f, worker[w].orig)
    BY StampTypes DEF GenerationInv, StampsInv
  <2> HIDE DEF f
  <2>2. f.uid <= created'[f.key]
    BY <1>1, <2>1
  <2>3. ASSUME NEW o \in Versions(ing'[f.key]) PROVE NotAfter(f, o)
    <3>1. CASE o \in Versions(ing[f.key])
      BY <2>1, <3>1
    <3>2. CASE f.key = k /\ o = x
      BY <1>2, <1>4, <2>1, <2>3, <3>2
    <3> QED BY <1>1, <2>1, <2>3, <3>1, <3>2
  <2> QED BY <1>5, <2>1, <2>2, <2>3 DEF f
<1> QED BY <1>6, <1>7, <1>8 DEF GenerationInv

\* A write of the cluster to a route keeps its stamp.
LEMMA RouteGenerations ==
  ASSUME TypeInv, GenerationInv, NEW h \in Hosts, NEW x, RouteGains(h, x), Exists(route[h]),
         x # None => x.from = Stored(route[h]).from, UNCHANGED <<ing, created, worker>>
  PROVE  GenerationInv'
<1>1. LogsInv' /\ CopiesInv'
  BY DEF GenerationInv, LogsInv, CopiesInv
<1>2. ASSUME NEW g \in Hosts, NEW r \in Versions(route'[g])
      PROVE  \E q \in Versions(route[g]) : r.from = q.from
  <2>1. r \in Versions(route[g]) \/ (g = h /\ r = x)
    BY <1>2 DEF RouteGains, Gains
  <2>2. None \notin Versions(route'[g])
    BY DEF Versions
  <2> QED BY <2>1, <2>2, StampTypes
<1>3. StampsInv'
  <2> SUFFICES ASSUME NEW g \in Hosts, NEW r \in Versions(route'[g])
               PROVE  /\ r.from.uid <= created[r.from.key]
                      /\ \A o \in Versions(ing[r.from.key]) : NotAfter(r.from, o)
                      /\ \A w \in Workers : InPass(worker[w]) /\ worker[w].key = r.from.key
                                              => NotAfter(r.from, worker[w].orig)
    BY DEF StampsInv
  <2>1. PICK q \in Versions(route[g]) : r.from = q.from
    BY <1>2
  <2> QED BY <2>1 DEF GenerationInv, StampsInv
<1> QED BY <1>1, <1>3 DEF GenerationInv

\* A thread reads the head of the log, the earliest version in it.
LEMMA ReadGenerations ==
  ASSUME TypeInv, GenerationInv, NEW w \in Workers, ReadsVersion(w),
         UNCHANGED <<ing, route, created>>
  PROVE  GenerationInv'
<1> DEFINE k == worker[w].key
<1>1. PICK c \in Versions(ing[k]) : c = Cached(ing[k]) /\ worker'[w].orig = c
  BY DEF ReadsVersion
<1>2. /\ k \in Keys /\ worker'[w].key = k
      /\ \A v \in Workers : v # w => worker'[v] = worker[v]
  BY DEF ReadsVersion
<1>3. LogsInv'
  BY DEF GenerationInv, LogsInv
<1>4. c.uid \in 1 .. created[k] /\ \A o \in Versions(ing[k]) : NotAfter(c, o)
  <2>1. c # None
    BY <1>1 DEF Versions
  <2> QED BY <1>1, <1>2, <2>1, EndsInOrder DEF GenerationInv, LogsInv
<1>5. CopiesInv'
  BY <1>1, <1>2, <1>4 DEF GenerationInv, CopiesInv
<1>6. StampsInv'
  <2>1. \A h \in Hosts : \A r \in Versions(route[h]) :
          /\ r.from.uid <= created[r.from.key]
          /\ \A o \in Versions(ing[r.from.key]) : NotAfter(r.from, o)
          /\ r.from.key = k => NotAfter(r.from, c)
    BY <1>1 DEF GenerationInv, StampsInv
  <2> QED BY <1>1, <1>2, <2>1 DEF GenerationInv, StampsInv
<1> QED BY <1>3, <1>5, <1>6 DEF GenerationInv

\* A thread goes on with its copy, and may write a route with its stamp.
LEMMA MovedGenerations ==
  ASSUME TypeInv, GenerationInv, SingleFlight, NEW w \in Workers, InPass(worker[w]),
         Moves(w) \/ Retires(w), UNCHANGED <<ing, created>>,
         \/ UNCHANGED route
         \/ \E h \in Hosts, x \in RouteObjects : RouteGains(h, x) /\ x.from = Stamp(worker[w])
  PROVE  GenerationInv'
<1> DEFINE l == worker[w]
<1>1. LogsInv'
  BY DEF GenerationInv, LogsInv
<1>2. \A v \in Workers : InPass(worker'[v]) =>
        InPass(worker[v]) /\ worker'[v].key = worker[v].key /\ worker'[v].orig = worker[v].orig
  BY DEF Moves, Retires, InPass, IdleWorker
<1>3. CopiesInv'
  BY <1>2 DEF GenerationInv, CopiesInv
<1>4. /\ l.key \in Keys /\ l.orig.uid \in 1 .. created[l.key]
      /\ l.orig.generation \in Nat /\ l.orig.uid \in Nat /\ created[l.key] \in Nat
      /\ \A o \in Versions(ing[l.key]) : NotAfter(l.orig, o)
  BY StampTypes DEF GenerationInv, CopiesInv
<1>5. ASSUME NEW f, f = Stamp(l)
      PROVE  /\ f.uid <= created[f.key]
             /\ \A o \in Versions(ing[f.key]) : NotAfter(f, o)
             /\ \A v \in Workers : InPass(worker[v]) /\ worker[v].key = f.key
                                     => NotAfter(f, worker[v].orig)
  <2>1. f.key = l.key /\ f.uid = l.orig.uid /\ f.generation = l.orig.generation
    BY <1>5 DEF Stamp
  <2>2. \A v \in Workers : InPass(worker[v]) /\ worker[v].key = l.key => v = w
    BY DEF SingleFlight, InPass
  <2> QED BY <1>4, <2>1, <2>2 DEF NotAfter
<1>6. ASSUME NEW g \in Hosts, NEW r \in Versions(route'[g])
      PROVE  r \in Versions(route[g]) \/ r.from = Stamp(l)
  BY <1>6 DEF RouteGains, Gains
<1>7. StampsInv'
  <2> SUFFICES ASSUME NEW g \in Hosts, NEW r \in Versions(route'[g])
               PROVE  /\ r.from.uid <= created[r.from.key]
                      /\ \A o \in Versions(ing[r.from.key]) : NotAfter(r.from, o)
                      /\ \A v \in Workers : InPass(worker'[v]) /\ worker'[v].key = r.from.key
                                              => NotAfter(r.from, worker'[v].orig)
    BY DEF StampsInv
  <2>1. /\ r.from.uid <= created[r.from.key]
        /\ \A o \in Versions(ing[r.from.key]) : NotAfter(r.from, o)
        /\ \A v \in Workers : InPass(worker[v]) /\ worker[v].key = r.from.key
                                => NotAfter(r.from, worker[v].orig)
    <3>1. CASE r \in Versions(route[g])
      BY <3>1 DEF GenerationInv, StampsInv
    <3>2. CASE r.from = Stamp(l)
      BY <1>5, <3>2
    <3> QED BY <1>6, <3>1, <3>2
  <2> QED BY <1>2, <2>1
<1> QED BY <1>1, <1>3, <1>7 DEF GenerationInv

\* Every step keeps the invariant.
LEMMA NextGenerations ==
  TypeInv /\ FlightInv /\ GenerationInv /\ [Next]_vars => GenerationInv'
<1> SUFFICES ASSUME TypeInv, FlightInv, GenerationInv, [Next]_vars PROVE GenerationInv'
  OBVIOUS
<1>1. SingleFlight
  BY DEF FlightInv
<1>2. ASSUME NEW k \in Keys,
             \/ \E s \in Specs[k] : CreateIngress(k, s) \/ UpdateIngress(k, s)
             \/ DeleteIngress(k)
      PROVE  GenerationInv'
  <2>1. PICK x : /\ IngressGains(k, x)
                 /\ Creates(k, x) \/ Updates(k, x) \/ (x = None /\ UNCHANGED created)
    BY <1>2, UserEffect
  <2>2. UNCHANGED <<route, worker>> /\ NobodyMoves
    BY <1>2, UserEffect DEF NobodyMoves
  <2>3. Updates(k, x) => Follows(k, x)
    BY StampTypes DEF Updates, Follows
  <2> QED BY <2>1, <2>2, <2>3, GainedGenerations
<1>3. ASSUME NEW h \in Hosts,
             \/ GatewayAdmits(h) \/ GatewayRejects(h) \/ GatewayForgets(h)
             \/ CollectRoute(h) \/ DeleteRoute(h)
      PROVE  GenerationInv'
  BY <1>3, ClusterWrites, RouteGenerations
<1>4. ASSUME NEW w \in Workers, WorkerStep(w) PROVE GenerationInv'
  <2>1. CASE ReadIngress(w)
    <3>1. Retires(w) => NobodyMoves
      BY DEF Retires, NobodyMoves, InPass, IdleWorker
    <3> QED BY <2>1, <3>1, ReadEffect, ReadGenerations, KeptGenerations, KeptStill
  <2>2. CASE ReconcileRule(w)
    <3>1. InPass(worker[w])
      BY <2>2, RuleEffect DEF InPass
    <3> QED BY <1>1, <2>2, <3>1, RuleEffect, MovedGenerations
  <2>3. CASE ProbeIngress(w)
    <3>1. InPass(worker[w])
      BY <2>3, ProbeEffect DEF InPass
    <3> QED BY <1>1, <2>3, <3>1, ProbeEffect, MovedGenerations
  <2>4. CASE UpdateStatus(w) \/ GetLatest(w)
    <3>1. InPass(worker[w])
      BY <2>4, StatusEffect DEF InPass
    <3>2. CASE UNCHANGED ing /\ (Retires(w) \/ Retrying(w))
      BY <1>1, <2>4, <3>1, <3>2, StatusEffect, MovedGenerations DEF Retrying
    <3>3. CASE StatusWritten(w)
      <4> DEFINE k == worker[w].key
      <4>1. k \in Keys /\ UNCHANGED <<route, created>>
        BY <2>4, <3>1, StampTypes, StatusEffect
      <4>2. PICK x \in IngressObjects :
              /\ IngressGains(k, x)
              /\ x.uid = Stored(ing[k]).uid /\ x.generation = Stored(ing[k]).generation
        BY <3>3 DEF StatusWritten
      <4>3. Follows(k, x)
        BY <3>3, <4>1, <4>2, StampTypes DEF Follows, StatusWritten
      <4>4. NobodyMoves
        BY <3>3 DEF StatusWritten, Retires, NobodyMoves, InPass, IdleWorker
      <4> QED BY <4>1, <4>2, <4>3, <4>4, GainedGenerations
    <3> QED BY <2>4, <3>2, <3>3, StatusEffect
  <2> QED BY <1>4, <2>1, <2>2, <2>3, <2>4 DEF WorkerStep
<1> QED BY <1>2, <1>3, <1>4, Catching, KeptGenerations DEF Next

LEMMA GenerationInvariant == Spec => []GenerationInv
<1>1. Init => GenerationInv
  <2> SUFFICES ASSUME Init PROVE GenerationInv
    OBVIOUS
  <2>1. (\A k \in Keys : Versions(ing[k]) = {}) /\ (\A h \in Hosts : Versions(route[h]) = {})
    BY DEF Init, Versions
  <2>2. \A w \in Workers : ~InPass(worker[w])
    BY DEF Init, InPass, IdleWorker
  <2> QED BY <2>1, <2>2 DEF GenerationInv, LogsInv, CopiesInv, StampsInv
<1> QED BY <1>1, NextGenerations, TypeInvariant, FlightInvariant, PTL DEF Spec

\* A route never goes back to an older generation of the same incarnation of an
\* Ingress: whatever cached copies threads work from, in whatever order writes,
\* conflicts, events and restarts come, for any number of threads and hosts.
THEOREM RoutesMoveForward == Spec => RouteNeverRegresses
<1> DEFINE Forward ==
      \A h \in Hosts :
        LET old == Stored(route[h])
            new == Stored(route'[h])
        IN  old # None /\ new # None /\ old.from.key = new.from.key
              /\ old.from.uid = new.from.uid
            => old.from.generation <= new.from.generation
<1>1. TypeInv /\ GenerationInv /\ [Next]_vars => [Forward]_vars
  <2> SUFFICES ASSUME TypeInv, GenerationInv, [Next]_vars, NEW g \in Hosts,
                      Stored(route[g]) # None, Stored(route'[g]) # None,
                      Stored(route[g]).from.key = Stored(route'[g]).from.key,
                      Stored(route[g]).from.uid = Stored(route'[g]).from.uid
               PROVE  Stored(route[g]).from.generation <= Stored(route'[g]).from.generation
    OBVIOUS
  <2> DEFINE old == Stored(route[g])
             new == Stored(route'[g])
  <2>1. old \in Versions(route[g]) /\ old.from.generation \in Nat
    BY StampTypes DEF Exists
  <2>2. ASSUME new.from = old.from PROVE old.from.generation <= new.from.generation
    BY <2>1, <2>2
  <2>3. CASE RoutesKept
    BY <2>2, <2>3 DEF RoutesKept, Loses
  <2>4. ASSUME NEW h \in Hosts,
               \/ GatewayAdmits(h) \/ GatewayRejects(h) \/ GatewayForgets(h)
               \/ CollectRoute(h) \/ DeleteRoute(h)
        PROVE  old.from.generation <= new.from.generation
    <3>1. PICK x : RouteGains(h, x) /\ (x # None => x.from = Stored(route[h]).from)
      BY <2>4, ClusterWrites
    <3>2. new.from = old.from
      BY <3>1 DEF RouteGains, Gains
    <3> QED BY <2>2, <3>2
  <2>5. ASSUME NEW w \in Workers, ReconcileRule(w)
        PROVE  old.from.generation <= new.from.generation
    <3>1. CASE UNCHANGED route
      BY <2>2, <3>1
    <3>2. ASSUME NEW h \in Hosts, NEW x \in RouteObjects, RouteGains(h, x),
                 x.from = Stamp(worker[w])
          PROVE  old.from.generation <= new.from.generation
      <4>1. CASE g # h
        BY <2>2, <3>2, <4>1 DEF RouteGains
      <4>2. CASE g = h
        <5>1. new.from = Stamp(worker[w])
          BY <3>2, <4>2 DEF RouteGains, Gains
        <5>2. /\ new.from.key = worker[w].key /\ new.from.uid = worker[w].orig.uid
              /\ new.from.generation = worker[w].orig.generation
          BY <5>1 DEF Stamp
        <5>3. InPass(worker[w])
          BY <2>5, RuleEffect DEF InPass
        <5>4. NotAfter(old.from, worker[w].orig)
          BY <2>1, <5>2, <5>3 DEF GenerationInv, StampsInv
        <5> QED BY <5>2, <5>4 DEF NotAfter
      <4> QED BY <4>1, <4>2
    <3> QED BY <2>5, <3>1, <3>2, RuleEffect
  <2>6. ASSUME NEW w \in Workers, WorkerStep(w), ~ReconcileRule(w) PROVE RoutesKept
    BY <2>6, ReadEffect, ProbeEffect, StatusEffect, KeptStill DEF WorkerStep
  <2>7. ASSUME NEW k \in Keys,
               \/ \E s \in Specs[k] : CreateIngress(k, s) \/ UpdateIngress(k, s)
               \/ DeleteIngress(k)
        PROVE  RoutesKept
    BY <2>7, UserEffect, KeptStill
  <2> QED BY <2>3, <2>4, <2>5, <2>6, <2>7, Catching DEF Next
<1> QED BY <1>1, TypeInvariant, GenerationInvariant, PTL DEF Spec, RouteNeverRegresses

-----------------------------------------------------------------------------
(* Ready means probed.  A status claims something about a generation, and  *)
(* a generation stands for one set of rules within an incarnation.         *)

SameRules(a, b) ==
  a.uid = b.uid /\ a.generation = b.generation => a.spec.rules = b.spec.rules

RulesInv ==
  /\ \A k \in Keys : \A a, b \in Versions(ing[k]) : SameRules(a, b)
  /\ \A w \in Workers : InPass(worker[w]) =>
       \A o \in Versions(ing[worker[w].key]) : SameRules(worker[w].orig, o)

\* The next version shares its generation only with versions of the same rules.
LEMMA NextVersionRules ==
  ASSUME TypeInv, GenerationInv, NEW k \in Keys, NEW x \in IngressObjects,
         \/ Creates(k, x) \/ Updates(k, x)
         \/ /\ Exists(ing[k])
            /\ x.uid = Stored(ing[k]).uid /\ x.generation = Stored(ing[k]).generation
            /\ x.spec = Stored(ing[k]).spec,
         NEW a, a.uid \in Nat, a.generation \in Nat, a.uid <= created[k],
         Exists(ing[k]) => NotAfter(a, Stored(ing[k])) /\ SameRules(a, Stored(ing[k]))
  PROVE  SameRules(a, x) /\ SameRules(x, a)
<1>1. CASE Creates(k, x)
  BY <1>1, StampTypes DEF Creates, SameRules
<1>2. CASE Updates(k, x)
  <2>1. /\ NotAfter(a, Stored(ing[k])) /\ SameRules(a, Stored(ing[k]))
        /\ Stored(ing[k]).generation \in Nat
    BY <1>2, StampTypes DEF Updates
  <2> QED BY <1>2, <2>1 DEF Updates, SameRules, NotAfter
<1>3. CASE /\ Exists(ing[k])
           /\ x.uid = Stored(ing[k]).uid /\ x.generation = Stored(ing[k]).generation
           /\ x.spec = Stored(ing[k]).spec
  BY <1>3 DEF SameRules
<1> QED BY <1>1, <1>2, <1>3

\* What has to be shown of a step.
LEMMA RulesFrame ==
  ASSUME RulesInv,
         \A k \in Keys : \A a, b \in Versions(ing'[k]) :
           (a \in Versions(ing[k]) /\ b \in Versions(ing[k])) \/ SameRules(a, b),
         \A w \in Workers : InPass(worker'[w]) =>
           \A o \in Versions(ing'[worker'[w].key]) :
             \/ SameRules(worker'[w].orig, o)
             \/ /\ InPass(worker[w]) /\ worker'[w].key = worker[w].key
                /\ worker'[w].orig = worker[w].orig /\ o \in Versions(ing[worker[w].key])
  PROVE  RulesInv'
BY DEF RulesInv, SameRules, InPass

LEMMA GainedRules ==
  ASSUME TypeInv, GenerationInv, RulesInv, NEW k \in Keys, NEW x, IngressGains(k, x), NobodyMoves,
         \/ x = None
         \/ Creates(k, x) \/ Updates(k, x)
         \/ /\ Exists(ing[k])
            /\ x.uid = Stored(ing[k]).uid /\ x.generation = Stored(ing[k]).generation
            /\ x.spec = Stored(ing[k]).spec /\ x \in IngressObjects
  PROVE  RulesInv'
<1>1. x # None => x \in IngressObjects
  BY DEF Creates, Updates
<1>2. \A j \in Keys : /\ \A o \in Versions(ing'[j]) : o # None
                      /\ Versions(ing'[j]) \subseteq Versions(ing[j]) \cup {x}
                      /\ j # k => ing'[j] = ing[j]
  BY DEF IngressGains, Gains, Versions
<1>3. ASSUME x # None, NEW a \in Versions(ing[k]) PROVE SameRules(a, x) /\ SameRules(x, a)
  <2>1. a.uid \in Nat /\ a.generation \in Nat /\ a.uid <= created[k]
    BY StampTypes DEF GenerationInv, LogsInv
  <2>2. Exists(ing[k]) => NotAfter(a, Stored(ing[k])) /\ SameRules(a, Stored(ing[k]))
    BY EndsInOrder, StampTypes DEF GenerationInv, RulesInv
  <2> QED BY <1>1, <1>3, <2>1, <2>2, NextVersionRules
<1>4. ASSUME x # None, NEW w \in Workers, InPass(worker[w]), worker[w].key = k
      PROVE  SameRules(worker[w].orig, x)
  <2> DEFINE a == worker[w].orig
  <2>1. a.uid \in Nat /\ a.generation \in Nat /\ a.uid <= created[k]
    BY <1>4, StampTypes DEF GenerationInv, CopiesInv
  <2>2. Exists(ing[k]) => NotAfter(a, Stored(ing[k])) /\ SameRules(a, Stored(ing[k]))
    BY <1>4, StampTypes DEF GenerationInv, CopiesInv, RulesInv
  <2> HIDE DEF a
  <2>3. SameRules(a, x)
    BY <1>1, <1>4, <2>1, <2>2, NextVersionRules
  <2> QED BY <2>3 DEF a
<1>5. \A j \in Keys : \A a, b \in Versions(ing'[j]) :
        (a \in Versions(ing[j]) /\ b \in Versions(ing[j])) \/ SameRules(a, b)
  <2>1. SameRules(x, x)
    BY DEF SameRules
  <2> QED BY <1>2, <1>3, <2>1
<1>6. ASSUME NEW w \in Workers, InPass(worker'[w]), NEW o \in Versions(ing'[worker'[w].key])
      PROVE  \/ SameRules(worker'[w].orig, o)
             \/ /\ InPass(worker[w]) /\ worker'[w].key = worker[w].key
                /\ worker'[w].orig = worker[w].orig /\ o \in Versions(ing[worker[w].key])
  <2>1. worker'[w] = worker[w] /\ InPass(worker[w]) /\ worker[w].key \in Keys
    BY <1>6, StampTypes DEF NobodyMoves
  <2> QED BY <1>2, <1>4, <1>6, <2>1
<1> QED BY <1>5, <1>6, RulesFrame

\* Every step keeps the invariant.
LEMMA NextRules ==
  TypeInv /\ GenerationInv /\ RulesInv /\ [Next]_vars => RulesInv'
<1> SUFFICES ASSUME TypeInv, GenerationInv, RulesInv, [Next]_vars PROVE RulesInv'
  OBVIOUS
<1>1. ASSUME IngressesKept, NobodyMoves PROVE RulesInv'
  <2>1. \A w \in Workers : InPass(worker'[w]) => worker'[w] = worker[w] /\ worker[w].key \in Keys
    BY <1>1, StampTypes DEF NobodyMoves
  <2> QED BY <1>1, <2>1, RulesFrame DEF IngressesKept, Loses
<1>2. ASSUME NEW w \in Workers, UNCHANGED ing, Moves(w) \/ Retires(w) PROVE RulesInv'
  BY <1>2, RulesFrame DEF Moves, Retires, InPass, IdleWorker
<1>3. ASSUME NEW k \in Keys,
             \/ \E s \in Specs[k] : CreateIngress(k, s) \/ UpdateIngress(k, s)
             \/ DeleteIngress(k)
      PROVE  RulesInv'
  <2>1. PICK x : IngressGains(k, x) /\ (Creates(k, x) \/ Updates(k, x) \/ x = None)
    BY <1>3, UserEffect
  <2>2. NobodyMoves
    BY <1>3, UserEffect DEF NobodyMoves
  <2> QED BY <2>1, <2>2, GainedRules
<1>4. ASSUME NEW h \in Hosts,
             \/ GatewayAdmits(h) \/ GatewayRejects(h) \/ GatewayForgets(h)
             \/ CollectRoute(h) \/ DeleteRoute(h)
      PROVE  RulesInv'
  BY <1>1, <1>4, ClusterWrites, KeptStill DEF NobodyMoves
<1>5. ASSUME NEW w \in Workers, WorkerStep(w) PROVE RulesInv'
  <2>1. CASE ReadIngress(w)
    <3>1. UNCHANGED ing /\ (Retires(w) \/ ReadsVersion(w))
      BY <2>1, ReadEffect
    <3>2. CASE ReadsVersion(w)
      BY <3>1, <3>2, RulesFrame DEF ReadsVersion, RulesInv
    <3> QED BY <1>2, <3>1, <3>2
  <2>2. CASE ReconcileRule(w) \/ ProbeIngress(w)
    BY <1>2, <2>2, RuleEffect, ProbeEffect
  <2>3. CASE UpdateStatus(w) \/ GetLatest(w)
    <3>1. CASE StatusWritten(w)
      <4>1. worker[w].key \in Keys
        BY <2>3, StatusEffect, StampTypes DEF InPass
      <4>2. NobodyMoves
        BY <3>1 DEF StatusWritten, Retires, NobodyMoves, InPass, IdleWorker
      <4> QED BY <3>1, <4>1, <4>2, GainedRules DEF StatusWritten
    <3> QED BY <1>2, <2>3, <3>1, StatusEffect DEF Retrying
  <2> QED BY <1>5, <2>1, <2>2, <2>3 DEF WorkerStep
<1> QED BY <1>1, <1>3, <1>4, <1>5, Catching DEF Next

Probed(k, o) == <<k, ComputeHash(o.spec.rules)>> \in probed

\* The prober is ready for what has been probed.
ProberInv == \A k \in Keys :
  prober[k] # None /\ prober[k].ready => <<k, prober[k].hash>> \in probed

\* A status about to be written is about the generation that was read, and Ready
\* only if the rules that were read have been probed.
PendingInv == \A w \in Workers : worker[w].pc \in {"status", "get"} =>
  /\ worker[w].status.observedGeneration = worker[w].orig.generation
  /\ worker[w].status.conditions[Happy] = "True" => Probed(worker[w].key, worker[w].orig)

\* While a name has had one incarnation, what any version of it claims to have
\* observed is no later than any version in the log and any copy of it, and
\* every version that is Ready has been probed.
ClaimsOK(k) == \A o \in Versions(ing[k]) :
  /\ IsIngressReady(o) => Probed(k, o)
  /\ \A p \in Versions(ing[k]) : o.status.observedGeneration <= p.generation
  /\ \A w \in Workers : InPass(worker[w]) /\ worker[w].key = k =>
       o.status.observedGeneration <= worker[w].orig.generation

ClaimsInv == \A k \in Keys : created[k] <= 1 => ClaimsOK(k)

ProbedInv == ProberInv /\ PendingInv /\ ClaimsInv

\* What has been probed stays probed, and only the callback makes the prober ready.
LEMMA NextProber ==
  ASSUME TypeInv, ProberInv, [Next]_vars
  PROVE  ProberInv' /\ probed \subseteq probed'
<1>1. ASSUME UNCHANGED probed,
             \A k \in Keys : \/ prober'[k] = prober[k] \/ prober'[k] = None
                             \/ prober'[k].ready = FALSE
      PROVE  ProberInv' /\ probed \subseteq probed'
  BY <1>1 DEF ProberInv
<1>2. ASSUME NEW k \in Keys, ProbeSucceeds(k) PROVE ProberInv' /\ probed \subseteq probed'
  <2>1. /\ prober[k] # None /\ prober' = [prober EXCEPT ![k].ready = TRUE]
        /\ probed' = probed \cup {<<k, prober[k].hash>>}
    BY <1>2 DEF ProbeSucceeds
  <2>2. prober[k] \in ProbeStates /\ prober \in [Keys -> {None} \cup ProbeStates]
    BY <2>1 DEF TypeInv, ProberOK
  <2>3. \A j \in Keys : IF j = k THEN prober'[j].hash = prober[j].hash ELSE prober'[j] = prober[j]
    BY <2>1, <2>2 DEF ProbeStates
  <2> QED BY <2>1, <2>3 DEF ProberInv
<1>3. CASE Restart
  BY <1>1, <1>3 DEF Restart
<1>4. ASSUME NEW w \in Workers, WorkerStep(w) PROVE ProberInv' /\ probed \subseteq probed'
  <2>1. CASE ProbeIngress(w)
    BY <1>1, <2>1, ProbeEffect
  <2>2. CASE ~ProbeIngress(w)
    <3>1. UNCHANGED <<prober, probed>>
      BY <1>4, <2>2, ReadEffect, RuleEffect, StatusEffect DEF WorkerStep
    <3> QED BY <1>1, <3>1
  <2> QED BY <2>1, <2>2
<1>5. ASSUME NEW k \in Keys,
             \/ \E s \in Specs[k] : CreateIngress(k, s) \/ UpdateIngress(k, s)
             \/ DeleteIngress(k)
      PROVE  ProberInv' /\ probed \subseteq probed'
  BY <1>1, <1>5, UserEffect
<1>6. ASSUME NEW h \in Hosts,
             \/ GatewayAdmits(h) \/ GatewayRejects(h) \/ GatewayForgets(h)
             \/ CollectRoute(h) \/ DeleteRoute(h)
      PROVE  ProberInv' /\ probed \subseteq probed'
  BY <1>1, <1>6, ClusterWrites
<1>7. CASE \/ UNCHANGED vars
           \/ \E k \in Keys : \/ IngressEvent(k)
                              \/ \E n \in 2 .. Len(ing[k]) : IngressRelist(k, n)
                              \/ RunConsumer(k)
           \/ \E c \in Configs : ChangeConfig(c)
           \/ GlobalResync
           \/ \E h \in Hosts : \/ RouteEvent(h)
                               \/ \E n \in 2 .. Len(route[h]) : RouteRelist(h, n)
           \/ \E w \in Workers : ProcessNextWorkItem(w)
  <2>1. UNCHANGED <<prober, probed>>
    BY <1>7 DEF vars, IngressEvent, IngressRelist, RunConsumer, ChangeConfig, GlobalResync,
       RouteEvent, RouteRelist, ProcessNextWorkItem
  <2> QED BY <1>1, <2>1
<1> QED BY <1>2, <1>3, <1>4, <1>5, <1>6, <1>7 DEF Next

\* What has to be shown of a step, with what has been probed only growing.
LEMMA PendingFrame ==
  ASSUME PendingInv, probed \subseteq probed',
         \A w \in Workers : worker'[w].pc \in {"status", "get"} =>
           \/ worker'[w] = worker[w]
           \/ /\ worker'[w].status.observedGeneration = worker'[w].orig.generation
              /\ worker'[w].status.conditions[Happy] = "True" =>
                   Probed(worker'[w].key, worker'[w].orig)
  PROVE  PendingInv'
BY DEF PendingInv, Probed

LEMMA NextPending ==
  ASSUME TypeInv, ProberInv, PendingInv, [Next]_vars
  PROVE  PendingInv'
<1>1. probed \subseteq probed'
  BY NextProber
<1>2. ASSUME NobodyMoves PROVE PendingInv'
  BY <1>1, <1>2, PendingFrame DEF NobodyMoves, InPass
<1>3. ASSUME NEW k \in Keys,
             \/ \E s \in Specs[k] : CreateIngress(k, s) \/ UpdateIngress(k, s)
             \/ DeleteIngress(k)
      PROVE  NobodyMoves
  BY <1>3, UserEffect DEF NobodyMoves
<1>4. ASSUME NEW h \in Hosts,
             \/ GatewayAdmits(h) \/ GatewayRejects(h) \/ GatewayForgets(h)
             \/ CollectRoute(h) \/ DeleteRoute(h)
      PROVE  NobodyMoves
  BY <1>4, ClusterWrites DEF NobodyMoves
<1>5. ASSUME NEW w \in Workers, WorkerStep(w) PROVE PendingInv'
  <2>1. Retires(w) => NobodyMoves
    BY DEF Retires, NobodyMoves, InPass, IdleWorker
  <2>2. ASSUME \A v \in Workers : v # w => worker'[v] = worker[v],
               worker'[w].pc \notin {"status", "get"}
        PROVE  PendingInv'
    BY <1>1, <2>2, PendingFrame
  <2>3. ASSUME Moves(w), worker'[w].status.observedGeneration = worker[w].orig.generation,
               worker'[w].status.conditions[Happy] = "True" =>
                 Probed(worker[w].key, worker[w].orig)
        PROVE  PendingInv'
    BY <1>1, <2>3, PendingFrame DEF Moves
  <2>4. InPass(worker[w]) => worker[w].status.conditions \in Conditions /\ worker[w].key \in Keys
    BY BusyWorker DEF TypeInv, InPass
  <2>5. Happy \in ConditionTypes /\ "LoadBalancerReady" \in ConditionTypes
    BY DEF ConditionTypes, Dependents
  <2>6. CASE ReadIngress(w)
    BY <1>2, <2>1, <2>2, <2>6, ReadEffect DEF ReadsVersion
  <2>7. CASE ReconcileRule(w)
    <3>1. worker[w].status.conditions \in Conditions
      BY <2>4, <2>7, RuleEffect DEF InPass
    <3>2. CASE Moves(w) /\ EndsWith(w, worker[w].status, TRUE)
      <4>1. worker'[w].status.conditions[Happy] # "True"
        BY <2>5, <3>1, <3>2, MarkUnknownHappy DEF EndsWith
      <4> QED BY <2>3, <3>2, <4>1 DEF EndsWith
    <3>3. CASE Moves(w) /\ RuleMarks(w)
      BY <2>2, <3>3 DEF Moves, RuleMarks
    <3> QED BY <1>2, <2>1, <2>7, <3>2, <3>3, RuleEffect
  <2>8. CASE ProbeIngress(w)
    <3>1. worker[w].status.conditions \in Conditions /\ worker[w].key \in Keys
      BY <2>4, <2>8, ProbeEffect DEF InPass
    <3>2. CASE Moves(w) /\ ProbeMarks(w)
      <4> DEFINE k == worker[w].key
                 hash == ComputeHash(worker[w].orig.spec.rules)
      <4>1. \/ IsReady(k, hash)
            \/ worker'[w].status.conditions[Happy] # "True"
        BY <2>5, <3>1, <3>2, MarkUnknownHappy DEF ProbeMarks
      <4>2. IsReady(k, hash) => Probed(k, worker[w].orig)
        BY <3>1 DEF IsReady, ProberInv, Probed
      <4> QED BY <2>3, <3>2, <4>1, <4>2 DEF ProbeMarks
    <3> QED BY <1>2, <2>1, <2>8, <3>2, ProbeEffect
  <2>9. CASE UpdateStatus(w) \/ GetLatest(w)
    <3>1. CASE Retrying(w)
      <4>1. /\ worker[w].status.observedGeneration = worker[w].orig.generation
            /\ worker[w].status.conditions[Happy] = "True" => Probed(worker[w].key, worker[w].orig)
        BY <3>1 DEF Retrying, PendingInv
      <4> QED BY <2>3, <3>1, <4>1 DEF Retrying
    <3> QED BY <1>2, <2>1, <2>9, <3>1, StatusEffect DEF StatusWritten
  <2> QED BY <1>5, <2>6, <2>7, <2>8, <2>9 DEF WorkerStep
<1> QED BY <1>2, <1>3, <1>4, <1>5, Catching DEF Next

\* With one incarnation all versions and copies of a name have the same UID.
LEMMA OneUid ==
  ASSUME TypeInv, GenerationInv, NEW k \in Keys, created[k] <= 1
  PROVE  /\ \A o \in Versions(ing[k]) : o.uid = 1 /\ created[k] = 1
         /\ \A w \in Workers : InPass(worker[w]) /\ worker[w].key = k => worker[w].orig.uid = 1
<1>1. created[k] \in Nat
  BY StampTypes
<1>2. \A u \in 1 .. created[k] : u = 1 /\ created[k] = 1
  BY <1>1
<1> QED BY <1>2 DEF GenerationInv, LogsInv, CopiesInv

\* Where nothing is written and no copy is read, claims stay.
LEMMA KeptClaims ==
  ASSUME TypeInv, NEW k \in Keys, ClaimsOK(k), probed \subseteq probed',
         Versions(ing'[k]) \subseteq Versions(ing[k]),
         \A w \in Workers : InPass(worker'[w]) /\ worker'[w].key = k =>
           /\ InPass(worker[w]) /\ worker[w].key = k
           /\ worker'[w].orig = worker[w].orig
  PROVE  ClaimsOK(k)'
BY DEF ClaimsOK, Probed

\* A user's version keeps the claim of the stored one; a changed spec outdates it.
LEMMA UserClaims ==
  ASSUME TypeInv, GenerationInv, NEW k \in Keys, ClaimsOK(k), UNCHANGED <<worker, probed>>,
         created[k] <= 1, NEW x, IngressGains(k, x), Updates(k, x) \/ x = None
  PROVE  ClaimsOK(k)'
<1>1. CASE x = None
  <2>1. Versions(ing'[k]) \subseteq Versions(ing[k])
    BY <1>1 DEF IngressGains, Gains, Versions
  <2> QED BY <2>1, KeptClaims
<1>2. CASE Updates(k, x)
  <2> DEFINE s == Stored(ing[k])
  <2>1. /\ Versions(ing'[k]) \subseteq Versions(ing[k]) \cup {x}
        /\ s \in Versions(ing[k]) /\ s.generation \in Nat
        /\ x.generation \in Nat /\ x.status = s.status
        /\ s.status.observedGeneration \in Nat
        /\ \/ x.generation = s.generation /\ x.spec.rules = s.spec.rules
           \/ x.generation = s.generation + 1
    <3>1. s \in Versions(ing[k]) /\ s \in IngressObjects /\ s.generation \in Nat
      BY <1>2, StampTypes DEF Updates
    <3>2. s.status.observedGeneration \in Nat
      BY <3>1 DEF IngressObjects, Statuses
    <3> QED BY <1>2, <3>1, <3>2 DEF Updates, IngressGains, Gains, IngressObjects
  <2> HIDE DEF s
  <2>2. /\ IsIngressReady(s) => Probed(k, s)
        /\ \A p \in Versions(ing[k]) : s.status.observedGeneration <= p.generation
        /\ s.status.observedGeneration <= s.generation
    BY <2>1 DEF ClaimsOK
  <2>3. IsIngressReady(x) => Probed(k, x)
    BY <2>1, <2>2 DEF IsIngressReady, Probed
  <2>4. ASSUME NEW o \in Versions(ing[k]) PROVE o.status.observedGeneration <= x.generation
    <3>1. o.status.observedGeneration <= s.generation
      BY <2>1 DEF ClaimsOK
    <3>2. o.status.observedGeneration \in Nat
      BY StampTypes DEF IngressObjects, Statuses
    <3> QED BY <2>1, <3>1, <3>2
  <2>5. x.status.observedGeneration <= x.generation
    BY <2>1, <2>2
  <2>6. ASSUME NEW w \in Workers, InPass(worker[w]), worker[w].key = k
        PROVE  x.status.observedGeneration <= worker[w].orig.generation
    BY <2>1, <2>6 DEF ClaimsOK
  <2> QED BY <2>1, <2>2, <2>3, <2>4, <2>5, <2>6 DEF ClaimsOK, Probed
<1> QED BY <1>1, <1>2

\* The first version claims nothing.
LEMMA CreateClaims ==
  ASSUME TypeInv, GenerationInv, NEW k \in Keys, UNCHANGED worker, created'[k] <= 1, NEW x,
         IngressGains(k, x), Creates(k, x)
  PROVE  ClaimsOK(k)'
<1>1. created[k] \in Nat /\ created'[k] = created[k] + 1
  BY StampTypes DEF Creates, TypeInv, CountersOK
<1>2. created[k] = 0
  BY <1>1
<1>3. Versions(ing[k]) = {} /\ \A w \in Workers : InPass(worker[w]) => worker[w].key # k
  <2>1. 1 .. created[k] = {}
    BY <1>2
  <2> QED BY <2>1 DEF GenerationInv, LogsInv, CopiesInv
<1>4. Versions(ing'[k]) \subseteq {x}
  BY <1>3 DEF IngressGains, Gains
<1>5. x.status.conditions[Happy] # "True" /\ x.status.observedGeneration = 0 /\ x.generation = 1
  BY DEF Creates, NoStatus, NoConditions, ConditionTypes, Happy
<1> QED BY <1>3, <1>4, <1>5 DEF ClaimsOK, IsIngressReady

\* A status written over a version of another generation claims nothing about it.
LEMMA WriteClaims ==
  ASSUME TypeInv, FlightInv, GenerationInv, RulesInv, ProbedInv, NEW w \in Workers,
         worker[w].pc \in {"status", "get"}, StatusWritten(w),
         NEW k \in Keys, k = worker[w].key, created[k] <= 1, probed \subseteq probed'
  PROVE  ClaimsOK(k)'
<1> DEFINE c == worker[w].orig
           s == Stored(ing[k])
<1>1. PICK x : /\ Versions(ing'[k]) \subseteq Versions(ing[k]) \cup {x}
               /\ x.generation = s.generation /\ x.spec = s.spec /\ x.status = worker[w].status
  BY DEF StatusWritten, IngressGains, Gains
<1>2. /\ s \in Versions(ing[k]) /\ s.generation \in Nat /\ InPass(worker[w])
      /\ c.generation \in Nat
  BY StampTypes DEF StatusWritten, InPass
<1>3. /\ s.uid = c.uid
      /\ \A p \in Versions(ing[k]) : c.generation <= p.generation
      /\ c.generation = s.generation => c.spec.rules = s.spec.rules
  <2>1. \A p \in Versions(ing[k]) : p.uid = c.uid
    BY <1>2, OneUid
  <2> QED BY <1>2, <2>1 DEF GenerationInv, CopiesInv, NotAfter, RulesInv, SameRules
<1>4. /\ x.status.observedGeneration = c.generation
      /\ x.status.conditions[Happy] = "True" => Probed(k, c)
  BY <1>1 DEF ProbedInv, PendingInv
<1>5. \A v \in Workers : InPass(worker'[v]) => worker'[v] = worker[v] /\ worker[v].key # k
  <2>1. ASSUME NEW v \in Workers, InPass(worker'[v]) PROVE v # w /\ worker'[v] = worker[v]
    BY <2>1 DEF StatusWritten, Retires, InPass, IdleWorker
  <2>2. ASSUME NEW v \in Workers, v # w, InPass(worker[v]) PROVE worker[v].key # k
    BY <2>2 DEF FlightInv, SingleFlight, InPass
  <2> QED BY <2>1, <2>2
<1>6. ClaimsOK(k)
  BY DEF ProbedInv, ClaimsInv
<1> HIDE DEF c, s
<1>7. IsIngressReady(x) => Probed(k, x)
  BY <1>1, <1>3, <1>4 DEF IsIngressReady, Probed
<1>8. ASSUME NEW o \in Versions(ing[k])
      PROVE  /\ o.status.observedGeneration <= x.generation
             /\ x.status.observedGeneration <= o.generation
  BY <1>1, <1>2, <1>3, <1>4, <1>6 DEF ClaimsOK
<1>9. x.status.observedGeneration <= x.generation
  BY <1>1, <1>2, <1>3, <1>4
<1>10. ASSUME NEW o \in Versions(ing'[k])
       PROVE  /\ IsIngressReady(o) => <<k, ComputeHash(o.spec.rules)>> \in probed'
              /\ \A p \in Versions(ing'[k]) : o.status.observedGeneration <= p.generation
  BY <1>1, <1>6, <1>7, <1>8, <1>9 DEF ClaimsOK, Probed
<1> QED BY <1>5, <1>10 DEF ClaimsOK, Probed

\* Every step keeps the claims true.
LEMMA NextClaims ==
  ASSUME TypeInv, FlightInv, GenerationInv, RulesInv, ProbedInv, [Next]_vars
  PROVE  ClaimsInv'
<1>1. probed \subseteq probed'
  BY NextProber DEF ProbedInv
<1>2. ASSUME IngressesKept, NobodyMoves, UNCHANGED created PROVE ClaimsInv'
  BY <1>1, <1>2, KeptClaims DEF IngressesKept, Loses, NobodyMoves, ProbedInv, ClaimsInv
<1>3. ASSUME NEW w \in Workers, UNCHANGED <<ing, created>>, Moves(w) \/ Retires(w)
      PROVE  ClaimsInv'
  <2>1. \A v \in Workers : InPass(worker'[v]) =>
          InPass(worker[v]) /\ worker'[v].key = worker[v].key /\ worker'[v].orig = worker[v].orig
    BY <1>3 DEF Moves, Retires, InPass, IdleWorker
  <2> QED BY <1>1, <1>3, <2>1, KeptClaims DEF ProbedInv, ClaimsInv
<1>4. ASSUME NEW k \in Keys,
             \/ \E s \in Specs[k] : CreateIngress(k, s) \/ UpdateIngress(k, s)
             \/ DeleteIngress(k)
      PROVE  ClaimsInv'
  <2>1. PICK x : /\ IngressGains(k, x)
                 /\ Creates(k, x) \/ Updates(k, x) \/ (x = None /\ UNCHANGED created)
    BY <1>4, UserEffect
  <2>2. UNCHANGED <<worker, probed>>
    BY <1>4, UserEffect
  <2>3. \A j \in Keys : j # k => created'[j] = created[j]
    BY <2>1 DEF Creates, Updates, TypeInv, CountersOK
  <2>4. ASSUME NEW j \in Keys, j # k, created'[j] <= 1 PROVE ClaimsOK(j)'
    BY <1>1, <2>1, <2>2, <2>3, <2>4, KeptClaims DEF IngressGains, ProbedInv, ClaimsInv
  <2>5. ASSUME created'[k] <= 1 PROVE ClaimsOK(k)'
    <3>1. CASE Creates(k, x)
      BY <2>1, <2>2, <2>5, <3>1, CreateClaims
    <3>2. CASE UNCHANGED created /\ (Updates(k, x) \/ x = None)
      BY <2>1, <2>2, <2>5, <3>2, UserClaims DEF ProbedInv, ClaimsInv
    <3> QED BY <2>1, <3>1, <3>2 DEF Updates
  <2> QED BY <2>4, <2>5 DEF ClaimsInv
<1>5. ASSUME NEW h \in Hosts,
             \/ GatewayAdmits(h) \/ GatewayRejects(h) \/ GatewayForgets(h)
             \/ CollectRoute(h) \/ DeleteRoute(h)
      PROVE  ClaimsInv'
  BY <1>2, <1>5, ClusterWrites, KeptStill DEF NobodyMoves
<1>6. ASSUME NEW w \in Workers, ReadIngress(w) PROVE ClaimsInv'
  <2>1. UNCHANGED <<ing, created, probed>> /\ (Retires(w) \/ ReadsVersion(w))
    BY <1>6, ReadEffect
  <2>2. ASSUME ReadsVersion(w), NEW j \in Keys, created[j] <= 1 PROVE ClaimsOK(j)'
    <3>1. PICK k, c :
            /\ c \in Versions(ing[k]) /\ worker'[w].key = k /\ worker'[w].orig = c
            /\ \A v \in Workers : v # w => worker'[v] = worker[v]
      BY <2>2 DEF ReadsVersion
    <3>2. ClaimsOK(j)
      BY <2>2 DEF ProbedInv, ClaimsInv
    <3> QED BY <2>1, <3>1, <3>2 DEF ClaimsOK, Probed
  <2> QED BY <1>3, <2>1, <2>2 DEF ClaimsInv
<1>7. ASSUME NEW w \in Workers, UpdateStatus(w) \/ GetLatest(w) PROVE ClaimsInv'
  <2>1. CASE StatusWritten(w)
    <3>1. UNCHANGED created /\ worker[w].pc \in {"status", "get"}
      BY <1>7, StatusEffect
    <3>2. PICK k \in Keys : k = worker[w].key
      BY <3>1, BusyWorker DEF TypeInv
    <3>3. \A j \in Keys : j # k => ing'[j] = ing[j]
      BY <2>1, <3>2 DEF StatusWritten, IngressGains
    <3>4. \A v \in Workers : InPass(worker'[v]) => worker'[v] = worker[v]
      BY <2>1 DEF StatusWritten, Retires, InPass, IdleWorker
    <3>5. ASSUME NEW j \in Keys, j # k, created[j] <= 1 PROVE ClaimsOK(j)'
      BY <1>1, <3>3, <3>4, <3>5, KeptClaims DEF ProbedInv, ClaimsInv
    <3>6. created[k] <= 1 => ClaimsOK(k)'
      BY <1>1, <2>1, <3>1, <3>2, WriteClaims
    <3> QED BY <3>1, <3>5, <3>6 DEF ClaimsInv
  <2> QED BY <1>3, <1>7, <2>1, StatusEffect DEF Retrying
<1>8. ASSUME NEW w \in Workers, ReconcileRule(w) \/ ProbeIngress(w) PROVE ClaimsInv'
  BY <1>3, <1>8, RuleEffect, ProbeEffect
<1> QED BY <1>2, <1>4, <1>5, <1>6, <1>7, <1>8, Catching DEF Next, WorkerStep

LEMMA ProbedInvariant == Spec => []ProbedInv
<1>1. Init => RulesInv /\ ProbedInv
  <2> SUFFICES ASSUME Init PROVE RulesInv /\ ProbedInv
    OBVIOUS
  <2>1. (\A k \in Keys : Versions(ing[k]) = {} /\ prober[k] = None)
    BY DEF Init, Versions
  <2>2. \A w \in Workers : worker[w].pc = "idle"
    BY DEF Init, IdleWorker
  <2> QED BY <2>1, <2>2 DEF RulesInv, ProbedInv, ProberInv, PendingInv, ClaimsInv, ClaimsOK, InPass
<1>2. TypeInv /\ FlightInv /\ GenerationInv /\ RulesInv /\ ProbedInv /\ [Next]_vars
        => RulesInv' /\ ProbedInv'
  BY NextRules, NextProber, NextPending, NextClaims DEF ProbedInv
<1> QED BY <1>1, <1>2, TypeInvariant, FlightInvariant, GenerationInvariant, PTL DEF Spec

\* Every Ingress has had at most one incarnation.
NamesUsedOnce == \A k \in Keys : created[k] <= 1

\* Until a name is used again, an Ingress that reports Ready for its latest
\* generation has had exactly that spec accepted by the gateway pods, through
\* failed passes, stale copies, conflicting writes and restarts.  The condition
\* is needed: a status computed for a deleted Ingress may be written over its
\* successor, as the run old_status shows.
THEOREM ReadyIsProbed == Spec => [](NamesUsedOnce => ReadyImpliesProbed)
<1>1. TypeInv /\ ProbedInv => (NamesUsedOnce => ReadyImpliesProbed)
  <2> SUFFICES ASSUME TypeInv, ProbedInv, NamesUsedOnce, NEW k \in Keys, Exists(ing[k]),
                      IsIngressReady(Stored(ing[k]))
               PROVE  <<k, ComputeHash(Rules(k))>> \in probed
    BY DEF ReadyImpliesProbed
  <2>1. Stored(ing[k]) \in Versions(ing[k])
    BY StampTypes
  <2>2. ClaimsOK(k)
    BY DEF NamesUsedOnce, ProbedInv, ClaimsInv
  <2> QED BY <2>1, <2>2 DEF ClaimsOK, Probed, Rules
<1> QED BY <1>1, TypeInvariant, ProbedInvariant, PTL

\* Where names are used once, the generation an Ingress reports as observed never
\* goes backwards, although statuses are computed from cached copies and written
\* over whatever version the API server holds after a conflict.
THEOREM ObservedMovesForward ==
  ASSUME MaxIncarnations <= 1
  PROVE  Spec => ObservedGenerationMonotone
<1> DEFINE Forward ==
      \A k \in Keys :
        LET old == Stored(ing[k])
            new == Stored(ing'[k])
        IN  old # None /\ new # None /\ old.uid = new.uid
            => old.status.observedGeneration <= new.status.observedGeneration
<1>1. TypeInv /\ ProbedInv /\ [Next]_vars => [Forward]_vars
  <2> SUFFICES ASSUME TypeInv, ProbedInv, [Next]_vars, NEW j \in Keys,
                      Stored(ing[j]) # None, Stored(ing'[j]) # None
               PROVE  Stored(ing[j]).status.observedGeneration
                        <= Stored(ing'[j]).status.observedGeneration
    OBVIOUS
  <2> DEFINE old == Stored(ing[j])
             new == Stored(ing'[j])
  <2>1. old \in Versions(ing[j]) /\ old.status.observedGeneration \in Nat
    <3>1. old \in Versions(ing[j]) /\ old \in IngressObjects
      BY StampTypes DEF Exists
    <3> QED BY <3>1 DEF IngressObjects, Statuses
  <2>2. ASSUME new.status = old.status
        PROVE  old.status.observedGeneration <= new.status.observedGeneration
    BY <2>1, <2>2
  <2>3. CASE IngressesKept
    BY <2>2, <2>3 DEF IngressesKept, Loses
  <2>4. ASSUME NEW k \in Keys,
               \/ \E s \in Specs[k] : CreateIngress(k, s) \/ UpdateIngress(k, s)
               \/ DeleteIngress(k)
        PROVE  new.status = old.status
    BY <2>4, UserEffect DEF IngressGains, Gains, Creates, Updates, Exists
  <2>5. ASSUME NEW w \in Workers, StatusWritten(w), worker[w].pc \in {"status", "get"}
        PROVE  old.status.observedGeneration <= new.status.observedGeneration
    <3> DEFINE k == worker[w].key
    <3>1. k \in Keys /\ InPass(worker[w])
      BY <2>5, BusyWorker DEF TypeInv, InPass
    <3>2. CASE j # k
      BY <2>2, <2>5, <3>1, <3>2 DEF StatusWritten, IngressGains
    <3>3. CASE j = k
      <4>1. new.status = worker[w].status
        BY <2>5, <3>3 DEF StatusWritten, IngressGains, Gains
      <4>2. worker[w].status.observedGeneration = worker[w].orig.generation
        BY <2>5 DEF ProbedInv, PendingInv
      <4>3. ClaimsOK(j)
        <5>1. created[j] <= 1
          BY BoundsAssumption DEF TypeInv, CountersOK
        <5> QED BY <5>1 DEF ProbedInv, ClaimsInv
      <4> QED BY <2>1, <3>1, <3>3, <4>1, <4>2, <4>3 DEF ClaimsOK
    <3> QED BY <3>2, <3>3
  <2>6. ASSUME NEW w \in Workers, WorkerStep(w)
        PROVE  UNCHANGED ing \/ (StatusWritten(w) /\ worker[w].pc \in {"status", "get"})
    BY <2>6, ReadEffect, RuleEffect, ProbeEffect, StatusEffect DEF WorkerStep
  <2>7. ASSUME NEW h \in Hosts,
               \/ GatewayAdmits(h) \/ GatewayRejects(h) \/ GatewayForgets(h)
               \/ CollectRoute(h) \/ DeleteRoute(h)
        PROVE  UNCHANGED ing
    BY <2>7, ClusterWrites
  <2> QED BY <2>2, <2>3, <2>4, <2>5, <2>6, <2>7, Catching, KeptStill DEF Next
<1> QED BY <1>1, TypeInvariant, ProbedInvariant, PTL DEF Spec, ObservedGenerationMonotone

=============================================================================
