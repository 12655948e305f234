---------------------- MODULE IngressControllerProofs ----------------------
(***************************************************************************)
(* Type correctness of the Ingress controller and the single flight of its *)
(* keys, for every set of keys, hosts, specs, configurations and workers   *)
(* and for every bound.                                                    *)
(***************************************************************************)
EXTENDS IngressController, WorkQueueProofs, WellFoundedInduction

-----------------------------------------------------------------------------
(* The condition set. *)

\* Setting one condition keeps the set of conditions well formed.
LEMMA SetConditionType ==
  ASSUME NEW c \in Conditions, NEW t \in ConditionTypes, NEW s \in ConditionStatuses
  PROVE  SetCondition(c, t, s) \in Conditions
BY DEF SetCondition, Conditions

\* So do the marks the reconciler uses.
LEMMA MarksType ==
  ASSUME NEW c \in Conditions, NEW t \in ConditionTypes
  PROVE  /\ MarkTrue(c, t) \in Conditions
         /\ MarkFalse(c, t) \in Conditions
         /\ MarkUnknown(c, t) \in Conditions
<1>1. Happy \in ConditionTypes /\ {"Unknown", "True", "False"} \subseteq ConditionStatuses
  BY DEF ConditionTypes, ConditionStatuses
<1>2. \A d \in Conditions : UnhappyStatus(d) \in {"Unknown", "True", "False"}
  BY DEF UnhappyStatus
<1>3. ASSUME NEW d \in Conditions PROVE RecomputeHappiness(d, t) \in Conditions
  BY <1>1, <1>2, SetConditionType DEF RecomputeHappiness
<1>4. MarkTrue(c, t) \in Conditions
  BY <1>1, <1>3, SetConditionType DEF MarkTrue
<1>5. ASSUME NEW d \in Conditions, NEW u \in ConditionTypes
      PROVE  MarkFalse(d, u) \in Conditions
  BY <1>1, SetConditionType DEF MarkFalse
<1>6. MarkUnknown(c, t) \in Conditions
  BY <1>1, <1>5, SetConditionType DEF MarkUnknown
<1> QED BY <1>4, <1>5, <1>6

\* And so does their initialization.
LEMMA InitializeConditionsType ==
  ASSUME NEW c \in Conditions
  PROVE  InitializeConditions(c) \in Conditions
BY DEF InitializeConditions, Conditions, ConditionTypes, ConditionStatuses

-----------------------------------------------------------------------------
(* Version logs. *)

\* The ends of a log are versions, and coincide once the cache is in sync.
LEMMA LogEnds ==
  ASSUME NEW S, NEW log \in Logs(S)
  PROVE  /\ Len(log) \in Nat \ {0}
         /\ Stored(log) \in {None} \cup S
         /\ Cached(log) \in {None} \cup S
         /\ Synced(log) => Cached(log) = Stored(log)
BY DEF Logs, Stored, Cached, Synced

\* A write makes the new version the stored one.
LEMMA LogWrite ==
  ASSUME NEW S, NEW log \in Logs(S), NEW x \in {None} \cup S
  PROVE  /\ Append(log, x) \in Logs(S)
         /\ Stored(Append(log, x)) = x
BY DEF Logs, Stored

\* A watch event takes nothing from the API server.
LEMMA LogEvent ==
  ASSUME NEW S, NEW log \in Logs(S), ~Synced(log)
  PROVE  /\ Tail(log) \in Logs(S)
         /\ Stored(Tail(log)) = Stored(log)
         /\ Len(log) >= 2
         /\ log[1] \in {None} \cup S /\ log[2] \in {None} \cup S
<1>1. log \in Seq({None} \cup S) /\ Len(log) \in Nat /\ Len(log) >= 2
  <2>1. Len(log) \in Nat \ {0} /\ Len(log) # 1
    BY LogEnds DEF Synced
  <2>2. log \in Seq({None} \cup S)
    BY DEF Logs
  <2> QED BY <2>1, <2>2
<1>2. Tail(log) \in Seq({None} \cup S) /\ Len(Tail(log)) = Len(log) - 1
  BY <1>1
<1>3. Tail(log)[Len(log) - 1] = log[Len(log)]
  BY <1>1
<1>4. Tail(log) # << >>
  <2>1. Len(Tail(log)) # 0
    BY <1>1, <1>2
  <2>2. Len(<< >>) = 0
    OBVIOUS
  <2> QED BY <2>1, <2>2, Zenon
<1>5. Stored(Tail(log)) = Stored(log)
  BY <1>1, <1>2, <1>3 DEF Stored
<1>6. log[1] \in {None} \cup S /\ log[2] \in {None} \cup S
  BY <1>1
<1> QED BY <1>1, <1>2, <1>4, <1>5, <1>6 DEF Logs

\* Nor does a list that skips versions.
LEMMA LogRelist ==
  ASSUME NEW S, NEW log \in Logs(S), NEW n \in 2 .. Len(log)
  PROVE  LET rest == SubSeq(log, n, Len(log)) IN
         /\ rest \in Logs(S)
         /\ Stored(rest) = Stored(log)
         /\ Len(rest) = Len(log) - n + 1
         /\ \A i \in 1 .. Len(log) - n + 1 : rest[i] = log[i + n - 1]
         /\ log[n] \in {None} \cup S
<1> DEFINE rest == SubSeq(log, n, Len(log))
<1>1. log \in Seq({None} \cup S) /\ Len(log) \in Nat /\ n \in Nat /\ 2 <= n /\ n <= Len(log)
  BY DEF Logs
<1>2. /\ rest \in Seq({None} \cup S)
      /\ Len(rest) = Len(log) - n + 1
      /\ \A i \in 1 .. Len(log) - n + 1 : rest[i] = log[i + n - 1]
  BY <1>1
<1> HIDE DEF rest
<1>3. Len(rest) # 0 /\ Len(rest) \in Nat
  BY <1>1, <1>2
<1>4. rest # << >>
  <2>1. Len(<< >>) = 0
    OBVIOUS
  <2> QED BY <1>3, <2>1, Zenon
<1>5. Stored(rest) = Stored(log)
  <2>1. /\ Len(log) - n + 1 \in 1 .. Len(log) - n + 1
        /\ (Len(log) - n + 1) + n - 1 = Len(log)
    BY <1>1
  <2> QED BY <1>2, <2>1 DEF Stored
<1>6. log[n] \in {None} \cup S
  BY <1>1
<1> QED BY <1>2, <1>4, <1>5, <1>6 DEF Logs, rest

\* A freshly listed cache.
LEMMA LogList ==
  ASSUME NEW S, NEW x \in {None} \cup S
  PROVE  <<x>> \in Logs(S) /\ Stored(<<x>>) = x /\ Len(<<x>>) = 1
BY DEF Logs, Stored

-----------------------------------------------------------------------------
(* Ingresses and the routes made from them. *)

\* What a rule of an Ingress with these rules looks like.
RuleRecords(rules) ==
  [hosts : (SUBSET Hosts) \ {{}}, visibility : {""} \cup Visibilities,
   http : {rules[i].http : i \in DOMAIN rules}]

\* The rules of a submitted Ingress are a sequence of at least one.
LEMMA RulesType ==
  ASSUME NEW s \in AllSpecs
  PROVE  /\ s.rules \in Seq(RuleRecords(s.rules))
         /\ Len(s.rules) \in Nat \ {0}
         /\ DOMAIN s.rules = 1 .. Len(s.rules)
<1>1. PICK k \in Keys : s \in Specs[k]
  BY DEF AllSpecs
<1>2. s.rules \in Seq(RuleRecords(s.rules)) /\ s.rules # << >>
  BY <1>1, SpecsAssumption DEF RuleRecords
<1> QED BY <1>2

\* Every non-empty set of hosts has a first one.
LEMMA LeastHost ==
  ASSUME NEW T, T \subseteq Nat, T # {}
  PROVE  \E x \in T : \A y \in T : x <= y
<1> DEFINE R == {p \in Nat \X Nat : p[1] < p[2]}
<1>1. IsWellFoundedOn(R, Nat)
  BY NatLessThanWellFounded DEF OpToRel
<1>2. PICK x \in T : \A y \in T : ~ (<<y, x>> \in R)
  BY <1>1, WFMin
<1>3. \A y \in T : ~ (y < x)
  BY <1>2
<1>4. \A y \in T : x <= y
  BY <1>3
<1> QED BY <1>4

\* The name of a route is one of its rule's hosts.
LEMMA RouteNameType ==
  ASSUME NEW s \in AllSpecs, NEW i \in 1 .. Len(s.rules)
  PROVE  RouteName(s.rules, i) \in s.rules[i].hosts /\ RouteName(s.rules, i) \in Hosts
<1>1. s.rules[i] \in RuleRecords(s.rules)
  BY RulesType
<1>2. s.rules[i].hosts \in (SUBSET Hosts) \ {{}}
  BY <1>1 DEF RuleRecords
<1>3. \E x \in s.rules[i].hosts : \A y \in s.rules[i].hosts : x <= y
  BY <1>2, LeastHost, HostsAssumption
<1>4. LongestHost(s.rules[i].hosts) \in s.rules[i].hosts
  BY <1>3 DEF LongestHost
<1> QED BY <1>2, <1>4 DEF RouteName

\* Every desired route belongs to some Ingress and configuration, and refers to
\* one of the configured gateways.
LEMMA RouteSpecType ==
  ASSUME NEW s \in AllSpecs, NEW i \in 1 .. Len(s.rules), NEW c \in Configs
  PROVE  /\ MakeHTTPRouteSpec(s.rules, i, c) \in RouteSpecs
         /\ MakeHTTPRouteSpec(s.rules, i, c).gateway \in Gateways
<1>1. i \in DOMAIN s.rules
  BY RulesType
<1>2. MakeHTTPRouteSpec(s.rules, i, c) \in RouteSpecs
  BY <1>1 DEF RouteSpecs
<1>3. s.rules[i] \in RuleRecords(s.rules)
  BY RulesType
<1>4. SetDefaults(s.rules)[i].visibility \in Visibilities
  <2>1. /\ s.rules[i].visibility \in {""} \cup Visibilities
        /\ DOMAIN s.rules[i] = {"hosts", "visibility", "http"}
    BY <1>3 DEF RuleRecords
  <2> DEFINE v == s.rules[i].visibility
             d == IF v = "" THEN "ExternalIP" ELSE v
  <2>2. SetDefaults(s.rules)[i] = [s.rules[i] EXCEPT !.visibility = d]
    BY <1>1 DEF SetDefaults
  <2>3. d \in Visibilities
    BY <2>1 DEF Visibilities
  <2> HIDE DEF d
  <2> QED BY <2>1, <2>2, <2>3
<1>5. MakeHTTPRouteSpec(s.rules, i, c).gateway \in Gateways
  BY <1>4 DEF MakeHTTPRouteSpec, LookupGateway, Gateways
<1> QED BY <1>2, <1>5

\* The gateway of any route object.
LEMMA RouteGateway ==
  ASSUME NEW r \in RouteObjects
  PROVE  r.spec.gateway \in Gateways
<1>1. r.spec \in RouteSpecs
  BY DEF RouteObjects
<1>2. PICK s \in AllSpecs : \E i \in DOMAIN s.rules : \E c \in Configs :
              r.spec = MakeHTTPRouteSpec(s.rules, i, c)
  BY <1>1 DEF RouteSpecs
<1> QED BY <1>2, RouteSpecType, RulesType

\* PreProcessReconcile computes a status.
LEMMA PreProcessType ==
  ASSUME NEW o \in IngressObjects
  PROVE  PreProcess(o) \in Statuses
<1> DEFINE c == IF o.status.observedGeneration # o.generation
                  THEN MarkUnknown(InitializeConditions(o.status.conditions), Happy)
                  ELSE InitializeConditions(o.status.conditions)
<1>1. o.status \in Statuses /\ o.status.conditions \in Conditions
  BY DEF IngressObjects, Statuses
<1>2. c \in Conditions
  BY <1>1, MarksType, InitializeConditionsType DEF ConditionTypes
<1>3. PreProcess(o) = [o.status EXCEPT !.conditions = c]
  BY DEF PreProcess
<1> HIDE DEF c
<1> QED BY <1>1, <1>2, <1>3 DEF Statuses
-----------------------------------------------------------------------------
(* The worker threads. *)

WorkersOK ==
  /\ worker \in [Workers -> WorkerStates]
  /\ \A w \in Workers : WorkerOK(worker[w])

\* One thread moves to a well-formed state.
LEMMA SetWorkerType ==
  ASSUME WorkersOK, NEW w \in Workers, NEW l \in WorkerStates, WorkerOK(l),
         SetWorker(w, l)
  PROVE  WorkersOK'
<1>1. worker' = [worker EXCEPT ![w] = l]
  BY DEF SetWorker
<1>2. worker' \in [Workers -> WorkerStates]
  BY <1>1 DEF WorkersOK
<1>3. ASSUME NEW v \in Workers PROVE WorkerOK(worker'[v])
  <2>1. worker'[v] = IF v = w THEN l ELSE worker[v]
    BY <1>1 DEF WorkersOK
  <2> QED BY <2>1 DEF WorkersOK
<1> QED BY <1>2, <1>3 DEF WorkersOK

\* A thread that has left Reconcile.
LEMMA IdleWorkerType == IdleWorker \in WorkerStates /\ WorkerOK(IdleWorker)
<1>1. 0 \in 0 .. MaxAttempts - 1
  BY BoundsAssumption
<1> QED BY <1>1 DEF IdleWorker, WorkerStates, WorkerOK

\* What a busy thread holds.
LEMMA BusyWorker ==
  ASSUME WorkersOK, NEW w \in Workers
  PROVE  /\ worker[w] \in WorkerStates
         /\ worker[w].pc # "idle" => worker[w].key \in Keys /\ worker[w].cfg \in Configs
         /\ worker[w].pc \in {"rules", "probe", "status", "get"} =>
              /\ worker[w].orig \in IngressObjects
              /\ worker[w].status \in Statuses
              /\ worker[w].orig.spec \in AllSpecs
              /\ worker[w].orig.generation \in Nat
              /\ worker[w].orig.uid \in Nat
              /\ worker[w].status.conditions \in Conditions
         /\ worker[w].pc = "rules" =>
              worker[w].rule \in 1 .. Len(worker[w].orig.spec.rules)
<1>1. worker[w] \in WorkerStates /\ WorkerOK(worker[w])
  BY DEF WorkersOK
<1>2. ASSUME NEW o \in IngressObjects
      PROVE  o.spec \in AllSpecs /\ o.generation \in Nat /\ o.uid \in Nat
  BY DEF IngressObjects
<1>3. ASSUME NEW s \in Statuses PROVE s.conditions \in Conditions
  BY DEF Statuses
<1> QED BY <1>1, <1>2, <1>3 DEF WorkerOK

\* A step inside Reconcile keeps the key and leaves the queue alone ...
StaysBusy(w) ==
  /\ \E l \in WorkerStates : /\ worker' = [worker EXCEPT ![w] = l]
                             /\ l.key = worker[w].key
                             /\ l.pc # "idle"
  /\ wq' = wq

\* ... and a step out of Reconcile gives the key back.
Leaves(w) ==
  /\ worker' = [worker EXCEPT ![w] = IdleWorker]
  /\ wq'.processing = wq.processing \ {worker[w].key}
  /\ QueueOK(wq) /\ worker[w].key \in wq.processing => QueueOK(wq')

\* The end of processNextWorkItem, with or without an error.
LEMMA FinishReconcileType ==
  ASSUME WorkersOK, wq \in Queues, NEW w \in Workers, worker[w].pc # "idle",
         NEW err \in BOOLEAN, FinishReconcile(w, err)
  PROVE  WorkersOK' /\ wq' \in Queues /\ Leaves(w)
<1> DEFINE k == worker[w].key
           q == IF err THEN Enqueue(wq, {k}) ELSE wq
<1>1. k \in Keys
  BY BusyWorker
<1>2. wq \in QueueRecords(Keys)
  BY DEF Queues, QueueRecords
<1>3. /\ q \in QueueRecords(Keys)
      /\ q.processing = wq.processing
      /\ QueueOK(wq) => QueueOK(q)
  <2>1. {k} \in SUBSET Keys
    BY <1>1
  <2> QED BY <1>2, <2>1, EnqueueOK
<1>4. wq' = Done(q, k) /\ SetWorker(w, IdleWorker)
  BY DEF FinishReconcile
<1> HIDE DEF q, k
<1>5. /\ wq' \in QueueRecords(Keys)
      /\ wq'.processing = q.processing \ {k}
      /\ QueueOK(q) /\ k \in q.processing => QueueOK(wq')
  BY <1>1, <1>3, <1>4, DoneOK
<1>6. WorkersOK' /\ worker' = [worker EXCEPT ![w] = IdleWorker]
  BY <1>4, SetWorkerType, IdleWorkerType DEF SetWorker
<1> QED BY <1>3, <1>5, <1>6 DEF k, Queues, QueueRecords, Leaves
\* A well-formed move of a thread within Reconcile.
LEMMA MoveType ==
  ASSUME WorkersOK, wq \in Queues, NEW w \in Workers, NEW l \in WorkerStates,
         WorkerOK(l), l.pc # "idle", l.key = worker[w].key,
         SetWorker(w, l), UNCHANGED wq
  PROVE  WorkersOK' /\ wq' \in Queues /\ StaysBusy(w)
BY SetWorkerType DEF SetWorker, StaysBusy

\* The end of ReconcileKind.
LEMMA EndReconcileKindType ==
  ASSUME WorkersOK, wq \in Queues, NEW w \in Workers,
         worker[w].pc \in {"rules", "probe"},
         NEW status \in Statuses, NEW err \in BOOLEAN,
         EndReconcileKind(w, status, err)
  PROVE  WorkersOK' /\ wq' \in Queues /\ (StaysBusy(w) \/ Leaves(w))
<1> DEFINE c == MarkUnknown(status.conditions, Happy)
           s1 == IF err THEN [status EXCEPT !.conditions = c] ELSE status
           g == worker[w].orig.generation
           s2 == [s1 EXCEPT !.observedGeneration = g]
           l == [worker[w] EXCEPT !.pc = "status", !.status = s2, !.err = err]
<1>1. c \in Conditions /\ g \in Nat
  BY BusyWorker, MarksType DEF Statuses, ConditionTypes
<1>2. s1 \in Statuses
  <2> HIDE DEF c
  <2> QED BY <1>1 DEF Statuses
<1>3. s2 \in Statuses
  <2> HIDE DEF s1, g
  <2> QED BY <1>1, <1>2 DEF Statuses
<1>4. \/ FinishReconcile(w, err)
      \/ SetWorker(w, l) /\ UNCHANGED wq
  BY DEF EndReconcileKind
<1>5. l \in WorkerStates /\ WorkerOK(l) /\ l.pc # "idle" /\ l.key = worker[w].key
  <2> HIDE DEF s2
  <2>1. worker[w] \in WorkerStates /\ WorkerOK(worker[w])
    BY DEF WorkersOK
  <2>2. l \in WorkerStates
    BY <1>3, <2>1 DEF WorkerStates
  <2>3. /\ l.pc = "status" /\ l.key = worker[w].key /\ l.cfg = worker[w].cfg
        /\ l.orig = worker[w].orig /\ l.status = s2
    BY <2>1 DEF WorkerStates
  <2> HIDE DEF l
  <2> QED BY <1>3, <2>1, <2>2, <2>3 DEF WorkerOK
<1> HIDE DEF l
<1>6. CASE FinishReconcile(w, err)
  BY <1>6, FinishReconcileType
<1>7. CASE SetWorker(w, l) /\ UNCHANGED wq
  BY <1>5, <1>7, MoveType
<1> QED BY <1>4, <1>6, <1>7

\* One more rule is done.
LEMMA RuleDoneType ==
  ASSUME WorkersOK, wq \in Queues, NEW w \in Workers, worker[w].pc = "rules",
         NEW r, RuleDone(w, r)
  PROVE  WorkersOK' /\ wq' \in Queues /\ StaysBusy(w)
<1> DEFINE o == worker[w]
           marked == IF IsHTTPRouteReady(r)
                       THEN MarkTrue(o.status.conditions, "NetworkConfigured")
                       ELSE MarkUnknown(o.status.conditions, Happy)
           n == Len(o.orig.spec.rules)
           pc == IF o.rule = n THEN "probe" ELSE "rules"
           status == [o.status EXCEPT !.conditions = marked]
           rule == o.rule + 1
           l == [o EXCEPT !.pc = pc, !.rule = rule, !.status = status]
<1>1. /\ o \in WorkerStates /\ WorkerOK(o)
      /\ o.status \in Statuses /\ o.status.conditions \in Conditions
      /\ o.orig.spec \in AllSpecs /\ o.rule \in 1 .. n
  BY BusyWorker DEF WorkersOK
<1>2. n \in Nat
  BY <1>1, RulesType
<1>3. marked \in Conditions
  BY <1>1, MarksType DEF ConditionTypes, Dependents
<1>4. status \in Statuses
  <2> HIDE DEF marked, o
  <2> QED BY <1>1, <1>3 DEF Statuses
<1>5. /\ rule \in Nat
      /\ pc \in {"probe", "rules"}
      /\ pc = "rules" => rule \in 1 .. n
  BY <1>1, <1>2
<1>6. SetWorker(w, l) /\ UNCHANGED wq
  BY DEF RuleDone
<1>7. l \in WorkerStates /\ WorkerOK(l) /\ l.pc # "idle" /\ l.key = o.key
  <2> HIDE DEF status, pc, rule
  <2>1. l \in WorkerStates
    BY <1>1, <1>4, <1>5 DEF WorkerStates
  <2>2. /\ l.pc = pc /\ l.key = o.key /\ l.cfg = o.cfg
        /\ l.orig = o.orig /\ l.status = status /\ l.rule = rule
    BY <1>1 DEF WorkerStates
  <2> HIDE DEF l
  <2> QED BY <1>1, <1>4, <1>5, <2>1, <2>2 DEF WorkerOK
<1> HIDE DEF l
<1> QED BY <1>6, <1>7, MoveType
-----------------------------------------------------------------------------
(* The inductive invariant behind TypeOK: besides the types, a copy that a *)
(* worker may still write to exists, and no two deletions of a route follow*)
(* each other, so that every event about a route has an owner to enqueue.  *)

IngressesOK ==
  /\ ing \in [Keys -> Logs(IngressObjects)]
  /\ fresh \in [Keys -> BOOLEAN]
  /\ FreshExists

RoutesOK ==
  /\ route \in [Hosts -> Logs(RouteObjects)]
  /\ RouteLogsOK

ConfigOK == cfg \in Configs /\ resync \in BOOLEAN

ProberOK ==
  /\ prober \in [Keys -> {None} \cup ProbeStates]
  /\ probed \subseteq Keys \X Hashes

CountersOK ==
  /\ created \in [Keys -> 0 .. MaxIncarnations]
  /\ edits \in 0 .. MaxEdits
  /\ faults \in 0 .. MaxFaults

QueuesOK == wq \in Queues

TypeInv ==
  IngressesOK /\ RoutesOK /\ ConfigOK /\ ProberOK /\ CountersOK /\ QueuesOK /\ WorkersOK

\* A write to an Ingress.
LEMMA WriteIngressType ==
  ASSUME IngressesOK, NEW k \in Keys, NEW obj \in {None} \cup IngressObjects,
         WriteIngress(k, obj)
  PROVE  IngressesOK'
<1>1. /\ ing' = [ing EXCEPT ![k] = Append(ing[k], obj)]
      /\ fresh' = [fresh EXCEPT ![k] = FALSE]
  BY DEF WriteIngress
<1>2. ing[k] \in Logs(IngressObjects)
  BY DEF IngressesOK
<1>3. Append(ing[k], obj) \in Logs(IngressObjects)
  BY <1>2, LogWrite
<1>4. ing' \in [Keys -> Logs(IngressObjects)]
  BY <1>1, <1>3 DEF IngressesOK
<1>5. fresh' \in [Keys -> BOOLEAN]
  BY <1>1 DEF IngressesOK
<1>6. ASSUME NEW j \in Keys, fresh'[j] PROVE Exists(ing'[j])
  <2>1. j # k /\ fresh[j] /\ ing'[j] = ing[j]
    BY <1>1, <1>6 DEF IngressesOK
  <2> QED BY <2>1 DEF IngressesOK, FreshExists
<1> QED BY <1>4, <1>5, <1>6 DEF IngressesOK, FreshExists

\* A write to a route: nothing is deleted twice.
LEMMA WriteRouteType ==
  ASSUME RoutesOK, NEW h \in Hosts, NEW obj \in {None} \cup RouteObjects,
         Exists(route[h]) \/ obj # None, WriteRoute(h, obj)
  PROVE  RoutesOK'
<1>1. route' = [route EXCEPT ![h] = Append(route[h], obj)]
  BY DEF WriteRoute
<1>2. route[h] \in Logs(RouteObjects)
  BY DEF RoutesOK
<1>3. Append(route[h], obj) \in Logs(RouteObjects)
  BY <1>2, LogWrite
<1>4. route' \in [Hosts -> Logs(RouteObjects)]
  BY <1>1, <1>3 DEF RoutesOK
<1>5. ASSUME NEW g \in Hosts, NEW i \in 1 .. Len(route'[g]) - 1
      PROVE  route'[g][i] # None \/ route'[g][i + 1] # None
  <2>1. CASE g # h
    <3>1. route'[g] = route[g]
      BY <1>1, <2>1 DEF RoutesOK
    <3> QED BY <3>1 DEF RoutesOK, RouteLogsOK
  <2>2. CASE g = h
    <3> DEFINE log == route[h]
               n == Len(log)
    <3>1. route'[g] = Append(log, obj)
      BY <1>1, <2>2 DEF RoutesOK
    <3>2. log \in Seq({None} \cup RouteObjects) /\ n \in Nat
      BY <1>2 DEF Logs
    <3>3. \A j \in 1 .. n - 1 : log[j] # None \/ log[j + 1] # None
      BY DEF RoutesOK, RouteLogsOK
    <3>4. log[n] # None \/ obj # None
      BY DEF Exists, Stored
    <3> HIDE DEF log
    <3>5. /\ Len(route'[g]) = n + 1
          /\ route'[g][n + 1] = obj
          /\ \A j \in 1 .. n : route'[g][j] = log[j]
      BY <3>1, <3>2
    <3> HIDE DEF n
    <3>6. i \in 1 .. n /\ i \in Nat
      BY <3>2, <3>5
    <3>7. CASE i = n
      BY <3>2, <3>4, <3>5, <3>6, <3>7
    <3>8. CASE i # n
      <4>1. i \in 1 .. n - 1 /\ i + 1 \in 1 .. n
        BY <3>2, <3>6, <3>8
      <4> QED BY <3>3, <3>5, <3>6, <4>1
    <3> QED BY <3>7, <3>8
  <2> QED BY <2>1, <2>2
<1> QED BY <1>4, <1>5 DEF RoutesOK, RouteLogsOK

\* The initial state.
LEMMA InitType == Init => TypeInv
<1> SUFFICES ASSUME Init PROVE TypeInv
  OBVIOUS
<1>1. IngressesOK
  <2>1. <<None>> \in Logs(IngressObjects)
    BY LogList
  <2> QED BY <2>1 DEF Init, IngressesOK, FreshExists
<1>2. RoutesOK
  <2>1. <<None>> \in Logs(RouteObjects) /\ Len(<<None>>) = 1
    BY LogList
  <2>2. \A h \in Hosts : Len(route[h]) = 1
    BY <2>1 DEF Init
  <2> QED BY <2>1, <2>2 DEF Init, RoutesOK, RouteLogsOK
<1>3. ConfigOK /\ ProberOK /\ CountersOK
  <2>1. ConfigOK
    BY ConfigAssumption DEF Init, ConfigOK
  <2>2. ProberOK
    BY DEF Init, ProberOK
  <2>3. 0 \in 0 .. MaxIncarnations /\ 0 \in 0 .. MaxEdits /\ 0 \in 0 .. MaxFaults
    BY BoundsAssumption
  <2>4. CountersOK
    BY <2>3 DEF Init, CountersOK
  <2> QED BY <2>1, <2>2, <2>4
<1>4. QueuesOK
  BY EmptyQueueOK DEF Init, QueuesOK, Queues, QueueRecords
<1>5. WorkersOK
  BY IdleWorkerType DEF Init, WorkersOK
<1> QED BY <1>1, <1>2, <1>3, <1>4, <1>5 DEF TypeInv
-----------------------------------------------------------------------------
(* The steps of users, of the cluster and of the informers. *)

\* An edit and a failure stay within their bounds.
LEMMA EditType == ASSUME CountersOK, Edit PROVE edits' \in 0 .. MaxEdits
BY BoundsAssumption DEF CountersOK, Edit

\* As does a failure.
LEMMA FaultType == ASSUME CountersOK, Fault PROVE faults' \in 0 .. MaxFaults
BY BoundsAssumption DEF CountersOK, Fault

\* Users create, edit and delete Ingresses.
LEMMA UserType ==
  ASSUME TypeInv, NEW k \in Keys,
         \/ \E s \in Specs[k] : CreateIngress(k, s) \/ UpdateIngress(k, s)
         \/ DeleteIngress(k)
  PROVE  TypeInv'
<1> USE DEF TypeInv
<1>1. /\ Edit /\ edits' \in 0 .. MaxEdits
      /\ ing[k] \in Logs(IngressObjects) /\ Stored(ing[k]) \in {None} \cup IngressObjects
  <2>1. Edit
    BY DEF CreateIngress, UpdateIngress, DeleteIngress
  <2>2. ing[k] \in Logs(IngressObjects)
    BY DEF IngressesOK
  <2> QED BY <2>1, <2>2, EditType, LogEnds
<1>2. UNCHANGED <<route, cfg, resync, wq, worker, prober, probed, faults>>
  BY DEF CreateIngress, UpdateIngress, DeleteIngress
<1>3. RoutesOK' /\ ConfigOK' /\ ProberOK' /\ QueuesOK' /\ WorkersOK'
  BY <1>2 DEF RoutesOK, RouteLogsOK, ConfigOK, ProberOK, QueuesOK, WorkersOK
<1>4. ASSUME NEW s \in Specs[k], CreateIngress(k, s) PROVE TypeInv'
  <2> DEFINE obj == [uid |-> created[k] + 1, generation |-> 1, spec |-> s,
                     status |-> NoStatus]
  <2>1. s \in AllSpecs
    BY DEF AllSpecs
  <2>2. NoStatus \in Statuses
    BY DEF NoStatus, Statuses, NoConditions, Conditions, ConditionStatuses
  <2>3. created[k] \in Nat /\ created[k] < MaxIncarnations
    BY <1>4, BoundsAssumption DEF CountersOK, CreateIngress
  <2>4. obj \in IngressObjects
    BY <2>1, <2>2, <2>3 DEF IngressObjects
  <2>5. WriteIngress(k, obj) /\ created' = [created EXCEPT ![k] = created[k] + 1]
    BY <1>4 DEF CreateIngress
  <2> HIDE DEF obj
  <2>6. IngressesOK'
    BY <2>4, <2>5, WriteIngressType
  <2>7. created[k] + 1 \in 0 .. MaxIncarnations
    BY <2>3, BoundsAssumption
  <2>8. CountersOK'
    BY <1>1, <1>2, <2>5, <2>7 DEF CountersOK
  <2> QED BY <1>3, <2>6, <2>8
<1>5. ASSUME NEW s \in Specs[k], UpdateIngress(k, s) PROVE TypeInv'
  <2> DEFINE old == Stored(ing[k])
             g == IF s.rules = old.spec.rules THEN old.generation ELSE old.generation + 1
             obj == [old EXCEPT !.spec = s, !.generation = g]
  <2>1. old \in IngressObjects /\ s \in AllSpecs
    BY <1>1, <1>5 DEF UpdateIngress, Exists, AllSpecs
  <2>2. g \in Nat
    BY <2>1 DEF IngressObjects
  <2>3. WriteIngress(k, obj) /\ created' = created
    BY <1>5 DEF UpdateIngress
  <2> HIDE DEF g, old
  <2>4. obj \in IngressObjects
    BY <2>1, <2>2 DEF IngressObjects
  <2> HIDE DEF obj
  <2>5. IngressesOK'
    BY <2>3, <2>4, WriteIngressType
  <2>6. CountersOK'
    BY <1>1, <1>2, <2>3 DEF CountersOK
  <2> QED BY <1>3, <2>5, <2>6
<1>6. ASSUME DeleteIngress(k) PROVE TypeInv'
  <2>1. WriteIngress(k, None) /\ created' = created
    BY <1>6 DEF DeleteIngress
  <2>2. IngressesOK'
    BY <2>1, WriteIngressType
  <2>3. CountersOK'
    BY <1>1, <1>2, <2>1 DEF CountersOK
  <2> QED BY <1>3, <2>2, <2>3
<1> QED BY <1>4, <1>5, <1>6

\* The configuration changes and is resynchronized.
LEMMA ConfigType ==
  ASSUME TypeInv, (\E c \in Configs : ChangeConfig(c)) \/ GlobalResync
  PROVE  TypeInv'
<1> USE DEF TypeInv
<1>1. CASE \E c \in Configs : ChangeConfig(c)
  <2>1. cfg' \in Configs /\ resync' = TRUE /\ Edit
    BY <1>1 DEF ChangeConfig
  <2>2. UNCHANGED <<ing, route, created, fresh, wq, worker, prober, probed, faults>>
    BY <1>1 DEF ChangeConfig
  <2>3. CountersOK'
    BY <2>1, <2>2, EditType DEF CountersOK
  <2> QED BY <2>1, <2>2, <2>3 DEF IngressesOK, FreshExists, RoutesOK, RouteLogsOK,
         ConfigOK, ProberOK, QueuesOK, WorkersOK
<1>2. CASE GlobalResync
  <2> DEFINE items == {k \in Keys : Cached(ing[k]) # None}
  <2>1. wq' = Enqueue(wq, items) /\ resync' = FALSE
    BY <1>2 DEF GlobalResync
  <2>2. UNCHANGED <<ing, route, created, fresh, cfg, worker, prober, probed, edits, faults>>
    BY <1>2 DEF GlobalResync
  <2>3. items \in SUBSET Keys
    OBVIOUS
  <2> HIDE DEF items
  <2>4. QueuesOK'
    BY <2>1, <2>3, EnqueueOK DEF QueuesOK, Queues, QueueRecords
  <2> QED BY <2>1, <2>2, <2>4 DEF IngressesOK, FreshExists, RoutesOK, RouteLogsOK,
         ConfigOK, ProberOK, CountersOK, WorkersOK
<1> QED BY <1>1, <1>2

\* The gateway's controller, the garbage collector and other clients.
LEMMA ClusterType ==
  ASSUME TypeInv, NEW h \in Hosts,
         \/ GatewayAdmits(h) \/ GatewayRejects(h) \/ GatewayForgets(h)
         \/ CollectRoute(h) \/ DeleteRoute(h)
  PROVE  TypeInv'
<1> USE DEF TypeInv
<1>1. /\ UNCHANGED <<ing, created, fresh, cfg, resync, wq, worker, prober, probed, edits>>
      /\ UNCHANGED faults \/ Fault
      /\ Exists(route[h])
  BY DEF GatewayAdmits, GatewayRejects, GatewayForgets, CollectRoute, DeleteRoute,
         SetRouteStatus, RemoveRoute
<1>2. CountersOK'
  BY <1>1, FaultType DEF CountersOK
<1>3. route[h] \in Logs(RouteObjects) /\ Stored(route[h]) \in RouteObjects
  <2>1. route[h] \in Logs(RouteObjects)
    BY DEF RoutesOK
  <2> QED BY <1>1, <2>1, LogEnds DEF Exists
<1>4. ASSUME NEW s \in SUBSET [gateway : Gateways, admitted : BOOLEAN], SetRouteStatus(h, s)
      PROVE  RoutesOK'
  <2> DEFINE obj == [Stored(route[h]) EXCEPT !.status = s]
  <2>1. obj \in RouteObjects
    BY <1>3 DEF RouteObjects
  <2>2. WriteRoute(h, obj)
    BY <1>4 DEF SetRouteStatus
  <2> HIDE DEF obj
  <2> QED BY <1>1, <2>1, <2>2, WriteRouteType
<1>5. ASSUME NEW ok \in BOOLEAN
      PROVE  Admission(h, ok) \in SUBSET [gateway : Gateways, admitted : BOOLEAN]
  BY <1>3, RouteGateway DEF Admission
<1>6. RemoveRoute(h) => RoutesOK'
  BY <1>1, WriteRouteType DEF RemoveRoute
<1>7. RoutesOK'
  BY <1>4, <1>5, <1>6 DEF GatewayAdmits, GatewayRejects, GatewayForgets, CollectRoute,
     DeleteRoute
<1> QED BY <1>1, <1>2, <1>7 DEF IngressesOK, FreshExists, ConfigOK, ProberOK, QueuesOK,
           WorkersOK
\* Events, timers and the prober's callback.
LEMMA EventType ==
  ASSUME TypeInv, NEW k \in Keys, IngressEvent(k) \/ RunConsumer(k) \/ ProbeSucceeds(k)
  PROVE  TypeInv'
<1> USE DEF TypeInv
<1>1. wq \in QueueRecords(Keys)
  BY DEF QueuesOK, Queues, QueueRecords
<1>2. Enqueue(wq, {k}) \in Queues /\ ConsumerAdd(wq, k) \in Queues /\ wq \in Queues
  <2>1. {k} \in SUBSET Keys
    OBVIOUS
  <2> QED BY <1>1, <2>1, EnqueueOK, ConsumerAddOK DEF Queues, QueueRecords
<1>3. CASE IngressEvent(k)
  <2>1. /\ ~Synced(ing[k]) /\ ing' = [ing EXCEPT ![k] = Tail(ing[k])]
        /\ wq' = Enqueue(wq, {k}) \/ wq' = wq
    BY <1>3 DEF IngressEvent
  <2>2. UNCHANGED <<route, created, fresh, cfg, resync, worker, prober, probed, edits, faults>>
    BY <1>3 DEF IngressEvent
  <2>3. ing[k] \in Logs(IngressObjects)
    BY DEF IngressesOK
  <2>4. Tail(ing[k]) \in Logs(IngressObjects) /\ Stored(Tail(ing[k])) = Stored(ing[k])
    BY <2>1, <2>3, LogEvent
  <2>5. ing' \in [Keys -> Logs(IngressObjects)]
    BY <2>1, <2>4 DEF IngressesOK
  <2>6. ASSUME NEW j \in Keys, fresh'[j] PROVE Exists(ing'[j])
    <3>1. Exists(ing[j])
      BY <2>2, <2>6 DEF IngressesOK, FreshExists
    <3>2. Stored(ing'[j]) = Stored(ing[j])
      BY <2>1, <2>4 DEF IngressesOK
    <3> QED BY <3>1, <3>2 DEF Exists
  <2>7. IngressesOK'
    BY <2>2, <2>5, <2>6 DEF IngressesOK, FreshExists
  <2>8. QueuesOK'
    BY <1>2, <2>1 DEF QueuesOK
  <2> QED BY <2>2, <2>7, <2>8 DEF RoutesOK, RouteLogsOK, ConfigOK, ProberOK, CountersOK,
             WorkersOK
<1>4. CASE RunConsumer(k)
  BY <1>2, <1>4 DEF RunConsumer, QueuesOK, IngressesOK, FreshExists, RoutesOK, RouteLogsOK,
     ConfigOK, ProberOK, CountersOK, WorkersOK
<1>5. CASE ProbeSucceeds(k)
  <2>1. /\ prober[k] \in ProbeStates
        /\ prober' = [prober EXCEPT ![k].ready = TRUE]
        /\ probed' = probed \cup {<<k, prober[k].hash>>}
        /\ wq' = Enqueue(wq, {k})
    BY <1>5 DEF ProbeSucceeds, ProberOK
  <2>2. UNCHANGED <<ing, route, created, fresh, cfg, resync, worker, edits, faults>>
    BY <1>5 DEF ProbeSucceeds
  <2>3. ProberOK'
    <3>1. prober[k].hash \in Hashes
      BY <2>1 DEF ProbeStates
    <3>2. prober' \in [Keys -> {None} \cup ProbeStates]
      BY <2>1 DEF ProberOK, ProbeStates
    <3> QED BY <2>1, <3>1, <3>2 DEF ProberOK
  <2> QED BY <1>2, <2>1, <2>2, <2>3 DEF QueuesOK, IngressesOK, FreshExists, RoutesOK,
         RouteLogsOK, ConfigOK, CountersOK, WorkersOK
<1> QED BY <1>3, <1>4, <1>5

\* An event about a route enqueues the owner of an existing version.
LEMMA RouteEventType ==
  ASSUME TypeInv, NEW h \in Hosts, RouteEvent(h)
  PROVE  /\ TypeInv'
         /\ \E k \in Keys : wq' = Enqueue(wq, {k})
<1> USE DEF TypeInv
<1> DEFINE log == route[h]
           obj == IF log[2] = None THEN log[1] ELSE log[2]
<1>1. /\ ~Synced(log) /\ wq' = Enqueue(wq, {obj.owner.key})
      /\ route' = [route EXCEPT ![h] = Tail(log)]
  BY DEF RouteEvent, EnqueueControllerOf
<1>2. UNCHANGED <<ing, created, fresh, cfg, resync, worker, prober, probed, edits, faults>>
  BY DEF RouteEvent
<1>3. log \in Logs(RouteObjects)
  BY DEF RoutesOK
<1>4. /\ Tail(log) \in Logs(RouteObjects)
      /\ Len(log) >= 2 /\ Len(log) \in Nat
      /\ log[1] \in {None} \cup RouteObjects /\ log[2] \in {None} \cup RouteObjects
  BY <1>1, <1>3, LogEvent, LogEnds
<1>5. \A i \in 1 .. Len(log) - 1 : log[i] # None \/ log[i + 1] # None
  BY DEF RoutesOK, RouteLogsOK
<1>6. obj.owner.key \in Keys
  <2>1. log[1] # None \/ log[2] # None
    <3>1. 1 \in 1 .. Len(log) - 1 /\ 1 + 1 = 2
      BY <1>4
    <3> QED BY <1>5, <3>1
  <2>2. obj \in RouteObjects
    BY <1>4, <2>1
  <2> HIDE DEF obj
  <2> QED BY <2>2 DEF RouteObjects
<1> HIDE DEF obj
<1>7. QueuesOK'
  <2>1. wq \in QueueRecords(Keys)
    BY DEF QueuesOK, Queues, QueueRecords
  <2>2. {obj.owner.key} \in SUBSET Keys
    BY <1>6
  <2>3. Enqueue(wq, {obj.owner.key}) \in QueueRecords(Keys)
    BY <2>1, <2>2, EnqueueOK
  <2> QED BY <1>1, <2>3 DEF QueuesOK, Queues, QueueRecords
<1>8. RoutesOK'
  <2>1. route' \in [Hosts -> Logs(RouteObjects)]
    BY <1>1, <1>4 DEF RoutesOK
  <2>2. ASSUME NEW g \in Hosts, NEW i \in 1 .. Len(route'[g]) - 1
        PROVE  route'[g][i] # None \/ route'[g][i + 1] # None
    <3>1. CASE g # h
      <4>1. route'[g] = route[g]
        BY <1>1, <3>1 DEF RoutesOK
      <4> QED BY <4>1 DEF RoutesOK, RouteLogsOK
    <3>2. CASE g = h
      <4>1. route'[g] = Tail(log)
        BY <1>1, <3>2 DEF RoutesOK
      <4>2. log \in Seq({None} \cup RouteObjects)
        BY <1>3 DEF Logs
      <4> HIDE DEF log
      <4>3. /\ Len(route'[g]) = Len(log) - 1
            /\ \A j \in 1 .. Len(log) - 1 : route'[g][j] = log[j + 1]
        BY <1>4, <4>1, <4>2
      <4>4. /\ i \in 1 .. Len(log) - 1 /\ i + 1 \in 1 .. Len(log) - 1
            /\ i \in Nat
        BY <1>4, <4>3
      <4> QED BY <1>5, <4>3, <4>4
    <3> QED BY <3>1, <3>2
  <2> QED BY <2>1, <2>2 DEF RoutesOK, RouteLogsOK
<1> QED BY <1>1, <1>2, <1>6, <1>7, <1>8 DEF IngressesOK, FreshExists, ConfigOK, ProberOK,
           CountersOK, WorkersOK

\* A list after a broken watch enqueues the Ingress, or nothing.
LEMMA IngressRelistType ==
  ASSUME TypeInv, NEW k \in Keys, NEW n \in 2 .. Len(ing[k]), IngressRelist(k, n)
  PROVE  TypeInv' /\ UNCHANGED worker /\ (wq' = wq \/ wq' = Enqueue(wq, {k}))
<1> USE DEF TypeInv
<1> DEFINE rest == SubSeq(ing[k], n, Len(ing[k]))
<1>1. ing' = [ing EXCEPT ![k] = rest] /\ (wq' = Enqueue(wq, {k}) \/ wq' = wq)
  BY DEF IngressRelist
<1>2. UNCHANGED <<route, created, fresh, cfg, resync, worker, prober, probed, edits, faults>>
  BY DEF IngressRelist
<1>3. ing[k] \in Logs(IngressObjects)
  BY DEF IngressesOK
<1>4. rest \in Logs(IngressObjects) /\ Stored(rest) = Stored(ing[k])
  BY <1>3, LogRelist
<1> HIDE DEF rest
<1>5. ing' \in [Keys -> Logs(IngressObjects)]
  BY <1>1, <1>4 DEF IngressesOK
<1>6. ASSUME NEW j \in Keys, fresh'[j] PROVE Exists(ing'[j])
  <2>1. Exists(ing[j])
    BY <1>2, <1>6 DEF IngressesOK, FreshExists
  <2>2. Stored(ing'[j]) = Stored(ing[j])
    BY <1>1, <1>4 DEF IngressesOK
  <2> QED BY <2>1, <2>2 DEF Exists
<1>7. IngressesOK'
  BY <1>2, <1>5, <1>6 DEF IngressesOK, FreshExists
<1>8. QueuesOK'
  <2>1. wq \in QueueRecords(Keys) /\ {k} \in SUBSET Keys
    BY DEF QueuesOK, Queues, QueueRecords
  <2>2. Enqueue(wq, {k}) \in Queues
    BY <2>1, EnqueueOK DEF Queues, QueueRecords
  <2> QED BY <1>1, <2>2 DEF QueuesOK
<1> QED BY <1>1, <1>2, <1>7, <1>8 DEF RoutesOK, RouteLogsOK, ConfigOK, ProberOK, CountersOK,
           WorkersOK

\* The same of a route enqueues the owner of the listed version, or nothing.
LEMMA RouteRelistType ==
  ASSUME TypeInv, NEW h \in Hosts, NEW n \in 2 .. Len(route[h]), RouteRelist(h, n)
  PROVE  /\ TypeInv' /\ UNCHANGED worker
         /\ wq' = wq \/ \E k \in Keys : wq' = Enqueue(wq, {k})
<1> USE DEF TypeInv
<1> DEFINE log == route[h]
           rest == SubSeq(log, n, Len(log))
<1>1. /\ route' = [route EXCEPT ![h] = rest]
      /\ wq' = wq \/ (log[n] # None /\ wq' = Enqueue(wq, {log[n].owner.key}))
  BY DEF RouteRelist, EnqueueControllerOf
<1>2. UNCHANGED <<ing, created, fresh, cfg, resync, worker, prober, probed, edits, faults>>
  BY DEF RouteRelist
<1>3. log \in Logs(RouteObjects)
  BY DEF RoutesOK
<1>4. /\ rest \in Logs(RouteObjects) /\ Len(rest) = Len(log) - n + 1
      /\ \A i \in 1 .. Len(log) - n + 1 : rest[i] = log[i + n - 1]
      /\ log[n] \in {None} \cup RouteObjects
  BY <1>3, LogRelist
<1>5. Len(log) \in Nat /\ n \in Nat /\ 2 <= n /\ n <= Len(log)
  BY <1>3, LogEnds
<1>6. \A i \in 1 .. Len(log) - 1 : log[i] # None \/ log[i + 1] # None
  BY DEF RoutesOK, RouteLogsOK
<1>7. log[n] # None => log[n].owner.key \in Keys
  BY <1>4 DEF RouteObjects
<1> HIDE DEF rest
<1>8. RoutesOK'
  <2>1. route' \in [Hosts -> Logs(RouteObjects)]
    BY <1>1, <1>4 DEF RoutesOK
  <2>2. ASSUME NEW g \in Hosts, NEW i \in 1 .. Len(route'[g]) - 1
        PROVE  route'[g][i] # None \/ route'[g][i + 1] # None
    <3>1. CASE g # h
      <4>1. route'[g] = route[g]
        BY <1>1, <3>1 DEF RoutesOK
      <4> QED BY <4>1 DEF RoutesOK, RouteLogsOK
    <3>2. CASE g = h
      <4>1. route'[g] = rest
        BY <1>1, <3>2 DEF RoutesOK
      <4> HIDE DEF log
      <4>2. /\ i \in 1 .. Len(log) - n + 1 /\ i + 1 \in 1 .. Len(log) - n + 1
            /\ i + n - 1 \in 1 .. Len(log) - 1
            /\ (i + 1) + n - 1 = (i + n - 1) + 1
        BY <1>4, <1>5, <4>1
      <4>3. rest[i] = log[i + n - 1] /\ rest[i + 1] = log[(i + n - 1) + 1]
        BY <1>4, <4>2
      <4> QED BY <1>6, <4>1, <4>2, <4>3
    <3> QED BY <3>1, <3>2
  <2> QED BY <2>1, <2>2 DEF RoutesOK, RouteLogsOK
<1> HIDE DEF log
<1>9. wq' = wq \/ \E k \in Keys : wq' = Enqueue(wq, {k})
  BY <1>1, <1>7
<1>10. QueuesOK'
  <2>1. wq \in QueueRecords(Keys) /\ \A k \in Keys : {k} \in SUBSET Keys
    BY DEF QueuesOK, Queues, QueueRecords
  <2>2. \A k \in Keys : Enqueue(wq, {k}) \in Queues
    BY <2>1, EnqueueOK DEF Queues, QueueRecords
  <2> QED BY <1>9, <2>2 DEF QueuesOK
<1> QED BY <1>2, <1>8, <1>9, <1>10 DEF IngressesOK, FreshExists, ConfigOK, ProberOK,
           CountersOK, WorkersOK

\* A restart lists everything anew and loses the rest.
LEMMA RestartType ==
  ASSUME TypeInv, Restart
  PROVE  /\ TypeInv'
         /\ \E items \in SUBSET Keys : wq' = Enqueue(EmptyQueue, items)
<1> USE DEF TypeInv
<1>1. /\ ing' = [k \in Keys |-> <<Stored(ing[k])>>]
      /\ route' = [h \in Hosts |-> <<Stored(route[h])>>]
      /\ fresh' = [k \in Keys |-> FALSE]
      /\ worker' = [w \in Workers |-> IdleWorker]
      /\ prober' = [k \in Keys |-> None]
      /\ resync' = FALSE
      /\ UNCHANGED <<created, cfg, probed, edits>>
      /\ Fault
  BY DEF Restart
<1>2. ASSUME NEW k \in Keys PROVE <<Stored(ing[k])>> \in Logs(IngressObjects)
  <2>1. ing[k] \in Logs(IngressObjects)
    BY DEF IngressesOK
  <2> QED BY <2>1, LogEnds, LogList
<1>3. ASSUME NEW h \in Hosts
      PROVE  /\ Stored(route[h]) \in {None} \cup RouteObjects
             /\ <<Stored(route[h])>> \in Logs(RouteObjects)
             /\ Len(<<Stored(route[h])>>) = 1
  <2>1. route[h] \in Logs(RouteObjects)
    BY DEF RoutesOK
  <2> QED BY <2>1, LogEnds, LogList
<1>4. IngressesOK'
  BY <1>1, <1>2 DEF IngressesOK, FreshExists
<1>5. RoutesOK'
  <2>1. \A h \in Hosts : route'[h] = <<Stored(route[h])>> /\ Len(route'[h]) = 1
    BY <1>1, <1>3
  <2>2. route' \in [Hosts -> Logs(RouteObjects)]
    BY <1>1, <1>3
  <2>3. ASSUME NEW h \in Hosts, NEW i \in 1 .. Len(route'[h]) - 1 PROVE FALSE
    <3>1. Len(route'[h]) = 1
      BY <2>1
    <3> QED BY <3>1
  <2> QED BY <2>2, <2>3 DEF RoutesOK, RouteLogsOK
<1>6. \E items \in SUBSET Keys : wq' = Enqueue(EmptyQueue, items)
  <2> DEFINE a == {k \in Keys : ClassFilter(Stored(ing[k]))}
             b == {Stored(route[h]).owner.key : h \in {g \in Hosts : Exists(route[g])}}
  <2>1. \A h \in Hosts : Exists(route[h]) => Stored(route[h]).owner.key \in Keys
    BY <1>3 DEF Exists, RouteObjects
  <2>2. b \in SUBSET Keys
    BY <2>1
  <2>3. a \cup b \in SUBSET Keys
    <3> HIDE DEF b
    <3> QED BY <2>2
  <2>4. wq' = Enqueue(EmptyQueue, a \cup b)
    BY DEF Restart
  <2> HIDE DEF a, b
  <2> QED BY <2>3, <2>4
<1>7. QueuesOK'
  BY <1>6, EnqueueOK, EmptyQueueOK DEF QueuesOK, Queues, QueueRecords
<1>8. WorkersOK'
  BY <1>1, IdleWorkerType DEF WorkersOK
<1>9. ConfigOK' /\ ProberOK' /\ CountersOK'
  BY <1>1, FaultType DEF ConfigOK, ProberOK, CountersOK
<1> QED BY <1>4, <1>5, <1>6, <1>7, <1>8, <1>9
-----------------------------------------------------------------------------
(* The steps of the worker threads. *)

\* A thread takes a key off the queue.
LEMMA ProcessNextWorkItemType ==
  ASSUME TypeInv, NEW w \in Workers, ProcessNextWorkItem(w)
  PROVE  TypeInv'
<1> USE DEF TypeInv
<1> DEFINE l == [IdleWorker EXCEPT !.pc = "read", !.key = Head(wq.queue), !.cfg = cfg]
<1>1. /\ CanGet(wq) /\ wq' = Get(wq) /\ SetWorker(w, l)
      /\ UNCHANGED <<ing, route, created, fresh, cfg, resync, prober, probed, edits, faults>>
  BY DEF ProcessNextWorkItem
<1>2. wq \in QueueRecords(Keys)
  BY DEF QueuesOK, Queues, QueueRecords
<1>3. Head(wq.queue) \in Keys /\ QueuesOK'
  BY <1>1, <1>2, GetOK DEF QueuesOK, Queues, QueueRecords
<1>4. l \in WorkerStates /\ WorkerOK(l)
  <2> DEFINE item == Head(wq.queue)
  <2>1. item \in Keys /\ cfg \in Configs
    BY <1>3 DEF ConfigOK
  <2> HIDE DEF item
  <2>2. l = [IdleWorker EXCEPT !.pc = "read", !.key = item, !.cfg = cfg]
    BY DEF item
  <2> HIDE DEF l
  <2>3. l \in WorkerStates
    BY <2>1, <2>2, IdleWorkerType DEF WorkerStates
  <2>4. l.pc = "read" /\ l.key = item /\ l.cfg = cfg
    BY <2>2, IdleWorkerType DEF WorkerStates
  <2> QED BY <2>1, <2>3, <2>4 DEF WorkerOK
<1> HIDE DEF l
<1>5. WorkersOK'
  BY <1>1, <1>4, SetWorkerType
<1> QED BY <1>1, <1>3, <1>5 DEF IngressesOK, FreshExists, RoutesOK, RouteLogsOK, ConfigOK,
           ProberOK, CountersOK

\* What a step inside Reconcile does to threads and queue.
WorkerEffect(w) == WorkersOK' /\ QueuesOK' /\ (StaysBusy(w) \/ Leaves(w))

\* Reconcile reads the lister.
LEMMA ReadIngressType ==
  ASSUME TypeInv, NEW w \in Workers, ReadIngress(w)
  PROVE  TypeInv' /\ WorkerEffect(w)
<1> USE DEF TypeInv
<1> DEFINE k == worker[w].key
           obj == Cached(ing[k])
           status == PreProcess(obj)
           l == [worker[w] EXCEPT !.pc = "rules", !.orig = obj, !.rule = 1, !.status = status]
<1>1. /\ worker[w].pc = "read"
      /\ UNCHANGED <<ing, route, created, cfg, resync, prober, probed, edits, faults>>
      /\ \/ FinishReconcile(w, FALSE) /\ UNCHANGED fresh
         \/ /\ obj # None /\ SetWorker(w, l) /\ UNCHANGED wq
            /\ fresh' = [fresh EXCEPT ![k] = Synced(ing[k])]
  BY DEF ReadIngress
<1>2. worker[w] \in WorkerStates /\ WorkerOK(worker[w]) /\ k \in Keys /\ worker[w].cfg \in Configs
  BY <1>1, BusyWorker DEF WorkersOK
<1>3. ing[k] \in Logs(IngressObjects)
  BY <1>2 DEF IngressesOK
<1>4. CASE FinishReconcile(w, FALSE) /\ UNCHANGED fresh
  <2>1. WorkersOK' /\ QueuesOK' /\ Leaves(w)
    BY <1>1, <1>4, FinishReconcileType DEF QueuesOK
  <2> QED BY <1>1, <1>4, <2>1 DEF IngressesOK, FreshExists, RoutesOK, RouteLogsOK, ConfigOK,
             ProberOK, CountersOK, WorkerEffect
<1>5. CASE /\ obj # None /\ SetWorker(w, l) /\ UNCHANGED wq
           /\ fresh' = [fresh EXCEPT ![k] = Synced(ing[k])]
  <2>1. obj \in IngressObjects /\ status \in Statuses
    BY <1>3, <1>5, LogEnds, PreProcessType
  <2>2. 1 \in 1 .. Len(obj.spec.rules)
    <3>1. obj.spec \in AllSpecs
      <4> HIDE DEF obj
      <4> QED BY <2>1 DEF IngressObjects
    <3> QED BY <3>1, RulesType
  <2>3. l \in WorkerStates /\ WorkerOK(l) /\ l.pc # "idle" /\ l.key = k
    <3> HIDE DEF obj, status, k
    <3>1. l \in WorkerStates
      BY <1>2, <2>1 DEF WorkerStates
    <3>2. /\ l.pc = "rules" /\ l.key = worker[w].key /\ l.cfg = worker[w].cfg
          /\ l.orig = obj /\ l.status = status /\ l.rule = 1
      BY <1>2 DEF WorkerStates
    <3> HIDE DEF l
    <3> QED BY <1>2, <2>1, <2>2, <3>1, <3>2 DEF WorkerOK, k
  <2>4. WorkersOK' /\ QueuesOK' /\ StaysBusy(w)
    <3> HIDE DEF l
    <3> QED BY <1>5, <2>3, MoveType DEF QueuesOK
  <2>5. IngressesOK'
    <3>1. Synced(ing[k]) \in BOOLEAN
      BY DEF Synced
    <3>2. fresh' \in [Keys -> BOOLEAN]
      BY <1>5, <3>1 DEF IngressesOK
    <3>3. Synced(ing[k]) => Exists(ing[k])
      BY <1>3, <1>5, LogEnds DEF Exists
    <3>4. ASSUME NEW j \in Keys, fresh'[j] PROVE Exists(ing[j])
      <4>1. fresh'[j] = IF j = k THEN Synced(ing[k]) ELSE fresh[j]
        BY <1>5 DEF IngressesOK
      <4> QED BY <3>3, <3>4, <4>1 DEF IngressesOK, FreshExists
    <3> QED BY <1>1, <3>2, <3>4 DEF IngressesOK, FreshExists
  <2> QED BY <1>1, <2>4, <2>5 DEF RoutesOK, RouteLogsOK, ConfigOK, ProberOK, CountersOK,
             WorkerEffect
<1> QED BY <1>1, <1>4, <1>5
\* One iteration of the loop over the rules.
LEMMA ReconcileRuleType ==
  ASSUME TypeInv, NEW w \in Workers, ReconcileRule(w)
  PROVE  TypeInv' /\ WorkerEffect(w)
<1> USE DEF TypeInv
<1> DEFINE l == worker[w]
           rules == l.orig.spec.rules
           h == RouteName(rules, l.rule)
           spec == MakeHTTPRouteSpec(rules, l.rule, l.cfg)
           old == Cached(route[h])
           from == [key |-> l.key, uid |-> l.orig.uid, generation |-> l.orig.generation]
           new == IF old = None
                    THEN [owner |-> [key |-> l.key, uid |-> l.orig.uid],
                          spec |-> spec, status |-> None, from |-> from]
                    ELSE [old EXCEPT !.spec = spec, !.from = from]
<1>1. /\ l.pc = "rules"
      /\ UNCHANGED <<ing, created, fresh, cfg, resync, prober, probed, edits>>
      /\ \/ RuleDone(w, old) /\ UNCHANGED <<route, faults>>
         \/ WriteRoute(h, new) /\ RuleDone(w, new) /\ UNCHANGED faults
         \/ /\ Fault \/ UNCHANGED faults
            /\ EndReconcileKind(w, l.status, TRUE)
            /\ UNCHANGED route
  BY DEF ReconcileRule
<1>2. /\ l.orig.spec \in AllSpecs /\ l.rule \in 1 .. Len(rules)
      /\ l.key \in Keys /\ l.cfg \in Configs /\ l.status \in Statuses
      /\ l.orig.uid \in Nat /\ l.orig.generation \in Nat
  BY <1>1, BusyWorker
<1>3. CountersOK'
  BY <1>1, FaultType DEF CountersOK
<1>4. WorkerEffect(w)
  <2>1. \A r : RuleDone(w, r) => WorkerEffect(w)
    BY <1>1, RuleDoneType DEF QueuesOK, WorkerEffect
  <2>2. EndReconcileKind(w, l.status, TRUE) => WorkerEffect(w)
    BY <1>1, <1>2, EndReconcileKindType DEF QueuesOK, WorkerEffect
  <2> QED BY <1>1, <2>1, <2>2
<1>5. RoutesOK'
  <2>1. CASE UNCHANGED route
    BY <2>1 DEF RoutesOK, RouteLogsOK
  <2>2. CASE WriteRoute(h, new)
    <3>1. h \in Hosts /\ spec \in RouteSpecs
      BY <1>2, RouteNameType, RouteSpecType
    <3>2. old \in {None} \cup RouteObjects
      <4>1. route[h] \in Logs(RouteObjects)
        BY <3>1 DEF RoutesOK
      <4> QED BY <4>1, LogEnds
    <3>3. /\ from \in [key : Keys, uid : Nat, generation : Nat]
          /\ [key |-> l.key, uid |-> l.orig.uid] \in [key : Keys, uid : Nat]
      BY <1>2
    <3>4. new \in RouteObjects
      <4> HIDE DEF spec, from, old
      <4> QED BY <3>1, <3>2, <3>3 DEF RouteObjects
    <3> HIDE DEF new
    <3> QED BY <2>2, <3>1, <3>4, WriteRouteType, RoutesAssumption
  <2> QED BY <1>1, <2>1, <2>2
<1> QED BY <1>1, <1>3, <1>4, <1>5 DEF IngressesOK, FreshExists, ConfigOK, ProberOK,
           WorkerEffect

\* Prober.IsReady and the load balancer status.
LEMMA ProbeIngressType ==
  ASSUME TypeInv, NEW w \in Workers, ProbeIngress(w)
  PROVE  TypeInv' /\ WorkerEffect(w)
<1> USE DEF TypeInv
<1> DEFINE l == worker[w]
           k == l.key
           hash == ComputeHash(l.orig.spec.rules)
           lb == <<LookupService(l.cfg, "ExternalIP"), LookupService(l.cfg, "ClusterLocal")>>
           up == MarkTrue(l.status.conditions, "LoadBalancerReady")
           unknown == MarkUnknown(l.status.conditions, "LoadBalancerReady")
           status == IF IsReady(k, hash) THEN [l.status EXCEPT !.lb = lb, !.conditions = up]
                     ELSE [l.status EXCEPT !.conditions = unknown]
           state == [hash |-> hash, ready |-> FALSE]
<1>1. /\ l.pc = "probe"
      /\ UNCHANGED <<ing, route, created, fresh, cfg, resync, probed, edits>>
      /\ \/ /\ prober' = prober \/ prober' = [prober EXCEPT ![k] = state]
            /\ EndReconcileKind(w, status, FALSE)
            /\ UNCHANGED faults
         \/ /\ Fault
            /\ prober' = [prober EXCEPT ![k] = None]
            /\ EndReconcileKind(w, l.status, TRUE)
  BY DEF ProbeIngress
<1>2. /\ l.orig.spec \in AllSpecs /\ k \in Keys /\ l.cfg \in Configs
      /\ l.status \in Statuses /\ l.status.conditions \in Conditions
  BY <1>1, BusyWorker
<1>3. CountersOK'
  BY <1>1, FaultType DEF CountersOK
<1>4. ProberOK'
  <2>1. state \in ProbeStates
    BY <1>2 DEF ProbeStates, Hashes
  <2> HIDE DEF state
  <2> QED BY <1>1, <1>2, <2>1 DEF ProberOK
<1>5. status \in Statuses
  <2>1. lb \in Services \X Services
    BY <1>2 DEF LookupService, Services, Visibilities
  <2>2. up \in Conditions /\ unknown \in Conditions
    BY <1>2, MarksType DEF ConditionTypes, Dependents
  <2> HIDE DEF lb, up, unknown
  <2>3. [l.status EXCEPT !.lb = lb, !.conditions = up] \in Statuses
    BY <1>2, <2>1, <2>2 DEF Statuses
  <2>4. [l.status EXCEPT !.conditions = unknown] \in Statuses
    BY <1>2, <2>2 DEF Statuses
  <2> QED BY <2>3, <2>4
<1> HIDE DEF status
<1>6. WorkerEffect(w)
  BY <1>1, <1>2, <1>5, EndReconcileKindType DEF QueuesOK, WorkerEffect
<1> QED BY <1>1, <1>3, <1>4, <1>6 DEF IngressesOK, FreshExists, RoutesOK, RouteLogsOK,
           ConfigOK, WorkerEffect

\* One attempt at writing the status.
LEMMA UpdateStatusType ==
  ASSUME TypeInv, NEW w \in Workers, UpdateStatus(w)
  PROVE  TypeInv' /\ WorkerEffect(w)
<1> USE DEF TypeInv
<1> DEFINE l == worker[w]
           k == l.key
           obj == [Stored(ing[k]) EXCEPT !.status = l.status]
           next == [l EXCEPT !.pc = "get", !.attempt = l.attempt + 1]
<1>1. /\ l.pc = "status"
      /\ UNCHANGED <<route, created, cfg, resync, prober, probed, edits>>
      /\ \/ /\ fresh[k] /\ WriteIngress(k, obj)
            /\ FinishReconcile(w, l.err)
            /\ UNCHANGED faults
         \/ /\ MayRetry(l) /\ SetWorker(w, next) /\ UNCHANGED <<ing, fresh, wq, faults>>
         \/ /\ Fault \/ UNCHANGED faults
            /\ FinishReconcile(w, TRUE)
            /\ UNCHANGED <<ing, fresh>>
  BY DEF UpdateStatus
<1>2. /\ l \in WorkerStates /\ WorkerOK(l) /\ k \in Keys /\ l.status \in Statuses
      /\ l.orig \in IngressObjects /\ l.cfg \in Configs
  BY <1>1, BusyWorker DEF WorkersOK
<1>3. l.err \in BOOLEAN /\ l.attempt \in 0 .. MaxAttempts - 1
  BY <1>2 DEF WorkerStates
<1>4. CountersOK'
  BY <1>1, FaultType DEF CountersOK
<1>5. IngressesOK'
  <2>1. CASE UNCHANGED <<ing, fresh>>
    BY <2>1 DEF IngressesOK, FreshExists
  <2>2. CASE fresh[k] /\ WriteIngress(k, obj)
    <3>1. ing[k] \in Logs(IngressObjects) /\ Exists(ing[k])
      BY <1>2, <2>2 DEF IngressesOK, FreshExists
    <3>2. Stored(ing[k]) \in IngressObjects
      BY <3>1, LogEnds DEF Exists
    <3>3. obj \in IngressObjects
      BY <1>2, <3>2 DEF IngressObjects
    <3> HIDE DEF obj
    <3> QED BY <1>2, <2>2, <3>3, WriteIngressType
  <2> QED BY <1>1, <2>1, <2>2
<1>6. MayRetry(l) =>
        next \in WorkerStates /\ WorkerOK(next) /\ next.pc # "idle" /\ next.key = k
  <2> SUFFICES ASSUME MayRetry(l)
               PROVE  next \in WorkerStates /\ WorkerOK(next) /\ next.pc # "idle" /\ next.key = k
    OBVIOUS
  <2> DEFINE n == l.attempt + 1
  <2>1. n \in 0 .. MaxAttempts - 1
    BY <1>3, BoundsAssumption DEF MayRetry
  <2> HIDE DEF n
  <2>2. next = [l EXCEPT !.pc = "get", !.attempt = n]
    BY DEF n
  <2>3. next \in WorkerStates
    <3> HIDE DEF next
    <3> QED BY <1>2, <2>1, <2>2 DEF WorkerStates
  <2>4. /\ next.pc = "get" /\ next.key = l.key /\ next.cfg = l.cfg
        /\ next.orig = l.orig /\ next.status = l.status
    <3> HIDE DEF next
    <3> QED BY <1>2, <2>2 DEF WorkerStates
  <2> HIDE DEF next
  <2> QED BY <1>2, <2>3, <2>4 DEF WorkerOK
<1> HIDE DEF next
<1>7. WorkerEffect(w)
  <2>1. FinishReconcile(w, l.err) \/ FinishReconcile(w, TRUE) => WorkerEffect(w)
    BY <1>1, <1>3, FinishReconcileType DEF QueuesOK, WorkerEffect
  <2>2. MayRetry(l) /\ SetWorker(w, next) /\ UNCHANGED wq => WorkerEffect(w)
    BY <1>6, MoveType DEF QueuesOK, WorkerEffect
  <2> QED BY <1>1, <2>1, <2>2
<1> QED BY <1>1, <1>4, <1>5, <1>7 DEF RoutesOK, RouteLogsOK, ConfigOK, ProberOK, WorkerEffect

\* A retry fetches the latest version first.
LEMMA GetLatestType ==
  ASSUME TypeInv, NEW w \in Workers, GetLatest(w)
  PROVE  TypeInv' /\ WorkerEffect(w)
<1> USE DEF TypeInv
<1> DEFINE l == worker[w]
           k == l.key
           next == [l EXCEPT !.pc = "status"]
<1>1. /\ l.pc = "get"
      /\ UNCHANGED <<ing, route, created, cfg, resync, prober, probed, edits>>
      /\ Fault \/ UNCHANGED faults
      /\ \/ FinishReconcile(w, TRUE) /\ UNCHANGED fresh
         \/ FinishReconcile(w, l.err) /\ UNCHANGED fresh
         \/ /\ Exists(ing[k]) /\ SetWorker(w, next)
            /\ fresh' = [fresh EXCEPT ![k] = TRUE] /\ UNCHANGED wq
  BY DEF GetLatest
<1>2. /\ l \in WorkerStates /\ WorkerOK(l) /\ k \in Keys /\ l.status \in Statuses
      /\ l.orig \in IngressObjects /\ l.cfg \in Configs
  BY <1>1, BusyWorker DEF WorkersOK
<1>3. l.err \in BOOLEAN
  BY <1>2 DEF WorkerStates
<1>4. next \in WorkerStates /\ WorkerOK(next) /\ next.pc # "idle" /\ next.key = k
  <2>1. next \in WorkerStates
    BY <1>2 DEF WorkerStates
  <2>2. /\ next.pc = "status" /\ next.key = l.key /\ next.cfg = l.cfg
        /\ next.orig = l.orig /\ next.status = l.status
    BY <1>2 DEF WorkerStates
  <2> HIDE DEF next
  <2> QED BY <1>2, <2>1, <2>2 DEF WorkerOK
<1> HIDE DEF next
<1>5. IngressesOK' /\ CountersOK'
  <2>1. IngressesOK'
    BY <1>1, <1>2 DEF IngressesOK, FreshExists
  <2>2. CountersOK'
    BY <1>1, FaultType DEF CountersOK
  <2> QED BY <2>1, <2>2
<1>6. WorkerEffect(w)
  <2>1. FinishReconcile(w, l.err) \/ FinishReconcile(w, TRUE) => WorkerEffect(w)
    BY <1>1, <1>3, FinishReconcileType DEF QueuesOK, WorkerEffect
  <2>2. SetWorker(w, next) /\ UNCHANGED wq => WorkerEffect(w)
    BY <1>4, MoveType DEF QueuesOK, WorkerEffect
  <2> QED BY <1>1, <2>1, <2>2
<1> QED BY <1>1, <1>5, <1>6 DEF RoutesOK, RouteLogsOK, ConfigOK, ProberOK, WorkerEffect
\* Every step keeps the invariant.
LEMMA NextType == TypeInv /\ [Next]_vars => TypeInv'
<1> SUFFICES ASSUME TypeInv, [Next]_vars PROVE TypeInv'
  OBVIOUS
<1>1. CASE UNCHANGED vars
  BY <1>1 DEF vars, TypeInv, IngressesOK, FreshExists, RoutesOK, RouteLogsOK, ConfigOK,
     ProberOK, CountersOK, QueuesOK, WorkersOK
<1>2. ASSUME NEW k \in Keys,
             \/ \E s \in Specs[k] : CreateIngress(k, s) \/ UpdateIngress(k, s)
             \/ DeleteIngress(k)
      PROVE  TypeInv'
  BY <1>2, UserType
<1>3. ASSUME NEW k \in Keys, IngressEvent(k) \/ RunConsumer(k) \/ ProbeSucceeds(k)
      PROVE  TypeInv'
  BY <1>3, EventType
<1>4. CASE (\E c \in Configs : ChangeConfig(c)) \/ GlobalResync
  BY <1>4, ConfigType
<1>5. ASSUME NEW h \in Hosts,
             \/ GatewayAdmits(h) \/ GatewayRejects(h) \/ GatewayForgets(h)
             \/ CollectRoute(h) \/ DeleteRoute(h)
      PROVE  TypeInv'
  BY <1>5, ClusterType
<1>6. ASSUME NEW h \in Hosts, RouteEvent(h) PROVE TypeInv'
  BY <1>6, RouteEventType
<1>7. ASSUME NEW w \in Workers, ProcessNextWorkItem(w) PROVE TypeInv'
  BY <1>7, ProcessNextWorkItemType
<1>8. ASSUME NEW w \in Workers, WorkerStep(w) PROVE TypeInv'
  BY <1>8, ReadIngressType, ReconcileRuleType, ProbeIngressType, UpdateStatusType,
     GetLatestType DEF WorkerStep
<1>9. CASE Restart
  BY <1>9, RestartType
<1>10. ASSUME NEW k \in Keys, \E n \in 2 .. Len(ing[k]) : IngressRelist(k, n) PROVE TypeInv'
  BY <1>10, IngressRelistType
<1>11. ASSUME NEW h \in Hosts, \E n \in 2 .. Len(route[h]) : RouteRelist(h, n) PROVE TypeInv'
  BY <1>11, RouteRelistType
<1> QED BY <1>1, <1>2, <1>3, <1>4, <1>5, <1>6, <1>7, <1>8, <1>9, <1>10, <1>11 DEF Next

\* The inductive invariant holds throughout.
LEMMA TypeInvariant == Spec => []TypeInv
BY InitType, NextType, PTL DEF Spec

\* Type correctness of the whole controller: version logs are never empty, every
\* event about a route finds an owner to enqueue, a worker in the loop of
\* reconcileIngress always has a rule to work on, and updateStatus makes at most
\* MaxAttempts attempts, whatever users, cluster and failures do.
THEOREM TypeCorrect == Spec => []TypeOK
<1>1. TypeInv => TypeOK
  BY DEF TypeInv, TypeOK, IngressesOK, RoutesOK, ConfigOK, ProberOK, CountersOK, QueuesOK,
     WorkersOK
<1> QED BY <1>1, TypeInvariant, PTL

-----------------------------------------------------------------------------
(* Single flight.  It rests on the discipline of the queue: what is queued *)
(* is dirty, not being processed, and queued once.                         *)

IdleHasNoKey == \A w \in Workers : worker[w].pc = "idle" => worker[w].key = None

FlightInv == SingleFlight /\ QueueOK(wq) /\ IdleHasNoKey

\* A step that only adds to the queue.
LEMMA AddingFlight ==
  ASSUME FlightInv, UNCHANGED worker, wq'.processing = wq.processing, QueueOK(wq')
  PROVE  FlightInv'
BY DEF FlightInv, SingleFlight, IdleHasNoKey

\* Get hands a thread a key no other thread has.
LEMMA GettingFlight ==
  ASSUME TypeInv, FlightInv, NEW w \in Workers, ProcessNextWorkItem(w)
  PROVE  FlightInv'
<1> DEFINE item == Head(wq.queue)
           l == [IdleWorker EXCEPT !.pc = "read", !.key = item, !.cfg = cfg]
<1>1. /\ CanGet(wq) /\ wq' = Get(wq) /\ worker' = [worker EXCEPT ![w] = l]
  BY DEF ProcessNextWorkItem, SetWorker
<1>2. wq \in QueueRecords(Keys)
  BY DEF TypeInv, QueuesOK, Queues, QueueRecords
<1>3. /\ item \in Keys /\ item \notin wq.processing
      /\ wq'.processing = wq.processing \cup {item} /\ QueueOK(wq')
  BY <1>1, <1>2, GetOK DEF FlightInv
<1> HIDE DEF item
<1>4. l.pc = "read" /\ l.key = item
  BY DEF IdleWorker
<1> HIDE DEF l
<1>5. \A v \in Workers : worker'[v] = IF v = w THEN l ELSE worker[v]
  BY <1>1 DEF TypeInv, WorkersOK
<1>6. \A v \in Workers : worker[v].key # item
  BY <1>3, NoneAssumption DEF FlightInv, SingleFlight, IdleHasNoKey
<1> QED BY <1>3, <1>4, <1>5, <1>6 DEF FlightInv, SingleFlight, IdleHasNoKey

\* A thread inside Reconcile keeps its key to itself until it gives it back.
LEMMA WorkingFlight ==
  ASSUME TypeInv, FlightInv, NEW w \in Workers, worker[w].pc # "idle", WorkerEffect(w)
  PROVE  FlightInv'
<1>1. worker[w].key \in wq.processing /\ QueueOK(wq) /\ worker[w].key \in Keys
  BY BusyWorker DEF FlightInv, SingleFlight, TypeInv
<1>2. CASE StaysBusy(w)
  <2>1. PICK l \in WorkerStates : /\ worker' = [worker EXCEPT ![w] = l]
                                 /\ l.key = worker[w].key
                                 /\ l.pc # "idle"
    BY <1>2 DEF StaysBusy
  <2>2. \A v \in Workers : worker'[v] = IF v = w THEN l ELSE worker[v]
    BY <2>1 DEF TypeInv, WorkersOK
  <2>3. wq' = wq
    BY <1>2 DEF StaysBusy
  <2> QED BY <2>1, <2>2, <2>3 DEF FlightInv, SingleFlight, IdleHasNoKey
<1>3. CASE Leaves(w)
  <2>1. /\ wq'.processing = wq.processing \ {worker[w].key} /\ QueueOK(wq')
        /\ \A v \in Workers : worker'[v] = IF v = w THEN IdleWorker ELSE worker[v]
    BY <1>1, <1>3 DEF Leaves, TypeInv, WorkersOK
  <2>2. IdleWorker.pc = "idle" /\ IdleWorker.key = None
    BY DEF IdleWorker
  <2>3. ASSUME NEW v \in Workers, v # w, worker[v].pc # "idle"
        PROVE  worker[v].key # worker[w].key /\ worker[v].key \in wq.processing
               /\ worker[v].key \in Keys
    BY <2>3, BusyWorker DEF FlightInv, SingleFlight, TypeInv
  <2>4. SingleFlight'
    BY <2>1, <2>2, <2>3, NoneAssumption DEF FlightInv, SingleFlight
  <2> QED BY <2>1, <2>2, <2>4 DEF FlightInv, IdleHasNoKey
<1> QED BY <1>2, <1>3 DEF WorkerEffect

\* Every step keeps the invariant.
LEMMA NextFlight == TypeInv /\ FlightInv /\ [Next]_vars => FlightInv'
<1> SUFFICES ASSUME TypeInv, FlightInv, [Next]_vars PROVE FlightInv'
  OBVIOUS
<1>1. wq \in QueueRecords(Keys) /\ QueueOK(wq)
  BY DEF TypeInv, QueuesOK, Queues, QueueRecords, FlightInv
<1>2. ASSUME UNCHANGED <<wq, worker>> PROVE FlightInv'
  BY <1>2, AddingFlight, <1>1
<1>3. ASSUME NEW k \in Keys, UNCHANGED worker,
             wq' = wq \/ wq' = Enqueue(wq, {k}) \/ wq' = ConsumerAdd(wq, k)
      PROVE  FlightInv'
  <2>1. {k} \in SUBSET Keys
    OBVIOUS
  <2> QED BY <1>1, <1>3, <2>1, EnqueueOK, ConsumerAddOK, AddingFlight
<1>4. CASE UNCHANGED vars
  BY <1>2, <1>4 DEF vars
<1>5. ASSUME NEW k \in Keys,
             \/ \E s \in Specs[k] : CreateIngress(k, s) \/ UpdateIngress(k, s)
             \/ DeleteIngress(k)
      PROVE  FlightInv'
  BY <1>2, <1>5 DEF CreateIngress, UpdateIngress, DeleteIngress
<1>6. ASSUME NEW k \in Keys, IngressEvent(k) \/ RunConsumer(k) \/ ProbeSucceeds(k)
      PROVE  FlightInv'
  BY <1>3, <1>6 DEF IngressEvent, RunConsumer, ProbeSucceeds
<1>7. CASE \E c \in Configs : ChangeConfig(c)
  BY <1>2, <1>7 DEF ChangeConfig
<1>8. CASE GlobalResync
  <2> DEFINE items == {k \in Keys : Cached(ing[k]) # None}
  <2>1. wq' = Enqueue(wq, items) /\ UNCHANGED worker
    BY <1>8 DEF GlobalResync
  <2>2. items \in SUBSET Keys
    OBVIOUS
  <2> HIDE DEF items
  <2> QED BY <1>1, <2>1, <2>2, EnqueueOK, AddingFlight
<1>9. ASSUME NEW h \in Hosts,
             \/ GatewayAdmits(h) \/ GatewayRejects(h) \/ GatewayForgets(h)
             \/ CollectRoute(h) \/ DeleteRoute(h)
      PROVE  FlightInv'
  BY <1>2, <1>9 DEF GatewayAdmits, GatewayRejects, GatewayForgets, CollectRoute, DeleteRoute,
     SetRouteStatus, RemoveRoute
<1>10. ASSUME NEW h \in Hosts, RouteEvent(h) PROVE FlightInv'
  <2>1. UNCHANGED worker
    BY <1>10 DEF RouteEvent
  <2> QED BY <1>3, <1>10, <2>1, RouteEventType
<1>11. ASSUME NEW w \in Workers, ProcessNextWorkItem(w) PROVE FlightInv'
  BY <1>11, GettingFlight
<1>12. ASSUME NEW w \in Workers, WorkerStep(w) PROVE FlightInv'
  <2>1. worker[w].pc # "idle"
    BY <1>12 DEF WorkerStep, ReadIngress, ReconcileRule, ProbeIngress, UpdateStatus, GetLatest
  <2>2. WorkerEffect(w)
    BY <1>12, ReadIngressType, ReconcileRuleType, ProbeIngressType, UpdateStatusType,
       GetLatestType DEF WorkerStep
  <2> QED BY <2>1, <2>2, WorkingFlight
<1>13. CASE Restart
  <2>1. PICK items \in SUBSET Keys : wq' = Enqueue(EmptyQueue, items)
    BY <1>13, RestartType
  <2>2. QueueOK(wq')
    BY <2>1, EnqueueOK, EmptyQueueOK
  <2>3. \A w \in Workers : worker'[w] = IdleWorker
    BY <1>13 DEF Restart
  <2> QED BY <2>2, <2>3 DEF FlightInv, SingleFlight, IdleHasNoKey, IdleWorker
<1>14. ASSUME NEW k \in Keys, \E n \in 2 .. Len(ing[k]) : IngressRelist(k, n)
       PROVE  FlightInv'
  BY <1>3, <1>14, IngressRelistType
<1>15. ASSUME NEW h \in Hosts, \E n \in 2 .. Len(route[h]) : RouteRelist(h, n)
       PROVE  FlightInv'
  <2>1. UNCHANGED worker /\ (wq' = wq \/ \E k \in Keys : wq' = Enqueue(wq, {k}))
    BY <1>15, RouteRelistType
  <2> QED BY <1>2, <1>3, <2>1
<1> QED BY <1>4, <1>5, <1>6, <1>7, <1>8, <1>9, <1>10, <1>11, <1>12, <1>13, <1>14, <1>15
        DEF Next

\* So it holds throughout.
LEMMA FlightInvariant == Spec => []FlightInv
<1>1. Init => FlightInv
  <2> SUFFICES ASSUME Init PROVE FlightInv
    OBVIOUS
  <2>1. QueueOK(wq)
    BY EmptyQueueOK DEF Init
  <2>2. \A w \in Workers : worker[w] = IdleWorker
    BY DEF Init
  <2> QED BY <2>1, <2>2 DEF FlightInv, SingleFlight, IdleHasNoKey, IdleWorker
<1> QED BY <1>1, NextFlight, TypeInvariant, PTL DEF Spec

\* No key is ever reconciled by two threads at once: the promise of the work
\* queue that reconcileIngress and Prober.IsReady ("IsReady is not called
\* concurrently") rely on, for any number of threads and keys.
THEOREM SingleFlightHolds == Spec => []SingleFlight
<1>1. FlightInv => SingleFlight
  BY DEF FlightInv
<1> QED BY <1>1, FlightInvariant, PTL

=============================================================================
