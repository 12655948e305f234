---------------------------- MODULE ClientCache ----------------------------
(***************************************************************************)
(* The generated client code at work: clients that write objects of one    *)
(* kind through the typed client, the shared informer factory and the      *)
(* injected informers that cache them, threads that start informers, wait  *)
(* for their caches and then read through listers; and the fake clientset  *)
(* of the unit tests, whose object tracker gets the same calls.            *)
(*                                                                         *)
(* The API server (external) is the history of its store: server[p] is the *)
(* store after its p-th version, consecutive stores differ in one object.  *)
(***************************************************************************)
EXTENDS TypedClients, Naturals, FiniteSets, FiniteSetsExt, SequencesExt

CONSTANTS
  NamespacedIds,  \* <<namespace, name>> of the objects of a namespaced kind
  ClusterIds,     \* <<"", name>> of the objects of a cluster-scoped kind
  Labels,         \* values of the label that selectors select
  Bodies,         \* what writers send: a spec, a status and a label
  Setups,         \* the clientset is the fake, or how informers are made: by
                  \* injection or by a program's own factories, limited to a
                  \* namespace ("" for all), one for each of some selectors
  None,           \* no object
  MaxWrites,      \* bound on versions of the server's store
  MaxExpiries     \* bound on watches that expire, per informer

\* Objects of a namespaced kind have a namespace, those of a cluster-scoped
\* kind have none.
ASSUME IdsAssumption ==
  /\ IsFiniteSet(NamespacedIds) /\ IsFiniteSet(ClusterIds)
  /\ \A id \in NamespacedIds : id = <<id[1], id[2]>> /\ id[1] # ""
  /\ \A id \in ClusterIds : id = <<"", id[2]>>

\* The schema of every kind refuses some specs: here, 2.
ASSUME BodiesAssumption ==
  /\ Labels # {}
  /\ Bodies \subseteq [spec : {0, 1, 2}, status : {0, 1}, label : Labels]

SchemaAllows(spec) == spec # 2

ASSUME SetupsAssumption ==
  /\ \A s \in Setups : /\ s.mode \in {"injection", "factory", "fake"}
                       /\ s.selectors \in Seq({""} \cup Labels) \ {<< >>}

\* The objects a server may hold.
Objects(ids) ==
  [id : ids, rv : Nat, spec : {0, 1}, status : {0, 1}, label : Labels]

ASSUME NoneAssumption ==
  None \notin Objects(NamespacedIds) \cup Objects(ClusterIds)

VARIABLES
  setup,      \* the kind, and how its informers are made; never changes
  server,     \* history of the API server's store
  tracker,    \* objects of the fake clientset
  alike,      \* objects the calls so far left alike in tracker and server
  informers,  \* shared informers by <<selector, type>>
  threads     \* threads[t]: progress, and the informers t reads

vars == <<setup, server, tracker, alike, informers, threads>>

kind == setup.kind
Ids == IF Namespaced(kind) THEN NamespacedIds ELSE ClusterIds
Latest == Last(server)

\* NewSharedInformerFactoryWithOptions with WithNamespace and
\* WithTweakListOptions.
NewSharedInformerFactory(namespace, selector) ==
  [namespace |-> namespace, selector |-> selector]

Factories ==
  IF setup.mode = "factory"
  THEN [s \in Range(setup.selectors) |-> NewSharedInformerFactory(setup.scope, s)]
  ELSE IF setup.selectors = <<"">> THEN [s \in {""} |-> withInformerFactory(setup.scope)]
  ELSE withFilteredInformerFactories(setup.scope, setup.selectors)

Content(o) == [label |-> o.label, spec |-> o.spec, status |-> o.status]

\* NewSimpleClientset: the tracker files an object under the guessed resource.
NewSimpleClientset(k, store) ==
  [key \in {<<UnsafeGuessKindToResource(k), id>> :
              id \in {i \in DOMAIN store : store[i] # None}}
     |-> Content(store[key[2]])]

\* An object is there from the start.
Init ==
  \E k \in Kinds, s \in Setups :
    LET ids   == IF Namespaced(k) THEN NamespacedIds ELSE ClusterIds
        first == CHOOSE id \in ids : TRUE
        store == [id \in ids |->
                    IF id = first
                    THEN [id |-> id, rv |-> 1, spec |-> 0, status |-> 0,
                          label |-> CHOOSE l \in Labels : TRUE]
                    ELSE None]
        fake  == s.mode = "fake"
    IN  /\ setup = [kind |-> k, mode |-> s.mode, scope |-> s.scope,
                    selectors |-> s.selectors]
        /\ server = <<store>>
        /\ tracker = IF fake THEN NewSimpleClientset(k, store) ELSE << >>
        /\ alike = IF fake THEN {id \in ids : \/ store[id] = None
                                             \/ UnsafeGuessKindToResource(k) = Plural[k]}
                   ELSE {}
        /\ informers = << >>
        /\ threads = [t \in CASE s.mode = "injection" -> {"main"}
                              [] s.mode = "factory" -> {"t1", "t2"}
                              [] s.mode = "fake" -> {}
                        |-> [pc |-> "init", reads |-> {}]]

-----------------------------------------------------------------------------
(* The API server (external): it knows a request by its resource, and      *)
(* answers only when the path has a namespace exactly for namespaced kinds.*)

Answers(req) ==
  \E k \in Kinds : /\ req.resource = Plural[k]
                   /\ ("namespace" \in req.parts) = Namespaced(k)

Reaches(req) == Answers(req) /\ req.resource = Plural[kind]

InScope(o, namespace, selector) ==
  /\ o # None
  /\ namespace \in {"", o.id[1]}
  /\ selector \in {"", o.label}

\* What a list at version p returns; other kinds have no objects.
ListAt(p, req, namespace, selector) ==
  IF Reaches(req)
  THEN {o \in Range(server[p]) : InScope(o, namespace, selector)}
  ELSE {}

\* The version the server writes to store obj, or nothing, at id: none when
\* that is what it has.
Stored(id, obj) ==
  IF obj = Latest[id] THEN << >>
  ELSE <<[Latest EXCEPT ![id] =
            IF obj = None THEN None ELSE [obj EXCEPT !.rv = Len(server) + 1]]>>

-----------------------------------------------------------------------------
(* The object tracker of the fake (external): it stores what it is sent,   *)
(* knows no resource versions and no schema, and an update replaces the    *)
(* whole object, also one of the status.  A delete-collection has no       *)
(* reaction: it returns no error and does nothing.                         *)

TrackerKey(act, id) ==
  <<act.resource, IF "namespace" \in act.scope THEN id ELSE <<"", id[2]>>>>

React(act, id, body) ==
  LET key == TrackerKey(act, id)
      has == key \in DOMAIN tracker
  IN  CASE act.verb = "create" /\ ~has -> [x \in DOMAIN tracker \cup {key} |->
                                    IF x = key THEN body ELSE tracker[x]]
        [] act.verb = "update" /\ has -> [tracker EXCEPT ![key] = body]
        [] act.verb = "patch" /\ has  -> [tracker EXCEPT ![key] =
                                    [tracker[key] EXCEPT ![body.field] = body.value]]
        [] act.verb = "delete"        -> Restrict(tracker, DOMAIN tracker \ {key})
        [] OTHER                      -> tracker

-----------------------------------------------------------------------------
(* Calls.                                                                  *)

\* One call of method m: the versions the server writes if the request reaches
\* its store, and the same call on the fake, which leaves the objects in same
\* alike on both sides.  To informers only a call that writes matters.
Call(m, id, body, stores, same) ==
  LET req == NetworkingV1alpha1[kind][m] IN
  /\ Len(server) + Len(stores) <= MaxWrites + 1
  /\ server' = IF Reaches(req) THEN server \o stores ELSE server
  /\ IF setup.mode = "fake"
     THEN /\ tracker' = React(FakeNetworkingV1alpha1[kind][m], id, body)
          /\ alike' = same
     ELSE /\ stores # << >>
          /\ UNCHANGED <<tracker, alike>>
  /\ UNCHANGED <<setup, informers, threads>>

\* What stays alike after a call for id that the two treat alike, or do not.
If(agreed, id) == IF agreed THEN alike ELSE alike \ {id}

\* A create of what exists is refused, as is what the schema does not allow.
\* The status is not the creator's.
Create(id, body) ==
  LET free == Latest[id] = None
      new  == [id |-> id, rv |-> 0, spec |-> body.spec, status |-> 0, label |-> body.label]
  IN  Call("Create", id, body,
           IF free /\ SchemaAllows(body.spec) THEN Stored(id, new) ELSE << >>,
           If(free => SchemaAllows(body.spec) /\ body.status = 0, id))

\* An update is made from a copy; one that is not the latest is refused with a
\* conflict.  Update leaves the status alone, UpdateStatus all but the status.
Copies(id) == {server[p][id] : p \in DOMAIN server} \ {None}

Update(id, copy, body) ==
  LET old == Latest[id]
      new == [copy EXCEPT !.spec = body.spec, !.label = body.label]
  IN  Call("Update", id, body,
           IF old = copy /\ SchemaAllows(body.spec) THEN Stored(id, new) ELSE << >>,
           If(old # None =>
                old = copy /\ SchemaAllows(body.spec) /\ body.status = old.status, id))

UpdateStatus(id, copy, body) ==
  LET old == Latest[id]
      new == [copy EXCEPT !.status = body.status]
  IN  Call("UpdateStatus", id, body,
           IF old = copy THEN Stored(id, new) ELSE << >>,
           If(old # None =>
                old = copy /\ body.spec = old.spec /\ body.label = old.label, id))

\* A merge patch of one field, not through the status subresource.  It has no
\* copy and meets no conflict.
Patch(id, field, value) ==
  LET old     == Latest[id]
      allowed == field = "spec" => SchemaAllows(value)
  IN  Call("Patch", id, [field |-> field, value |-> value],
           IF old # None /\ field # "status" /\ allowed
           THEN Stored(id, [old EXCEPT ![field] = value]) ELSE << >>,
           If(old # None => allowed /\ (field = "status" => value = old.status), id))

\* Afterwards neither side has the object.
Delete(id) == Call("Delete", id, None, Stored(id, None), alike \cup {id})

\* The server deletes the matching objects one after the other.
DeleteCollection(ns, selector) ==
  LET doomed == {id \in Ids : InScope(Latest[id], ns, selector)}
      order  == SetToSeq(doomed)
  IN  Call("DeleteCollection", <<ns, "">>, None,
           [n \in 1..Len(order) |->
              [id \in Ids |-> IF \E m \in 1..n : order[m] = id
                              THEN None ELSE Latest[id]]],
           alike \ doomed)

-----------------------------------------------------------------------------
(* The shared informer factory, and the injected start-up. *)

NewInformer(def) ==
  [def |-> def, store |-> << >>, at |-> 1, synced |-> FALSE,
   started |-> FALSE, reflectors |-> << >>, expiries |-> 0]

\* InformerFor: under the factory's lock; one informer per type.
InformerFor(s, def) ==
  IF <<s, def.type>> \in DOMAIN informers THEN informers
  ELSE [ref \in DOMAIN informers \cup {<<s, def.type>>} |->
          IF ref = <<s, def.type>> THEN NewInformer(def) ELSE informers[ref]]

\* sharedIndexInformer.Run (external) starts a reflector, without a check that
\* one is already running.
Run(inf, times) ==
  [inf EXCEPT !.started = TRUE,
              !.reflectors = @ \o [n \in 1..times |-> [phase |-> "list", pos |-> 1]]]

\* The informers of the factory a thread asked for its informer.
OfFactory(t) ==
  {ref \in DOMAIN informers : \E read \in threads[t].reads : ref[1] = read[1]}

\* Fault: Start runs every informer it has, started before or not.
StartAll(t) ==
  /\ threads[t].pc = "requested"
  /\ informers' = [ref \in DOMAIN informers |->
                     IF ref \in OfFactory(t) THEN Run(informers[ref], 1) ELSE informers[ref]]
  /\ threads' = [threads EXCEPT ![t].pc = "waiting"]
  /\ UNCHANGED <<setup, server, tracker, alike>>

Start(t) ==
  /\ threads[t].pc = "requested"
  /\ informers' = [ref \in DOMAIN informers |->
                     IF ref \in OfFactory(t) /\ ~informers[ref].started
                     THEN Run(informers[ref], 1) ELSE informers[ref]]
  /\ threads' = [threads EXCEPT ![t].pc = "waiting"]
  /\ UNCHANGED <<setup, server, tracker, alike>>

\* A thread asks a factory for the kind's informer, by its accessor or by
\* resource, and keeps the lister.
Request(t, s, def) ==
  /\ setup.mode = "factory"
  /\ threads[t].pc = "init"
  /\ informers' = InformerFor(s, def)
  /\ threads' = [threads EXCEPT ![t] = [pc |-> "requested",
                                        reads |-> {<<s, def.type>>}]]
  /\ UNCHANGED <<setup, server, tracker, alike>>

\* SetupInformers injects the clients, then the factories, then the informers
\* of the linked packages ...
SetupInformers(t) ==
  /\ setup.mode = "injection"
  /\ threads[t].pc = "init"
  /\ LET defs == IF setup.selectors = <<"">>
                 THEN [s \in {""} |-> Injected(Factories[s])[kind]]
                 ELSE InjectedFiltered(Factories)[kind]
         refs == {<<s, defs[s].type>> : s \in DOMAIN defs}
     IN  /\ informers' = [ref \in refs |-> NewInformer(defs[ref[1]])]
         /\ threads' = [threads EXCEPT ![t] = [pc |-> "injected", reads |-> refs]]
  /\ UNCHANGED <<setup, server, tracker, alike>>

\* ... and StartInformers runs each of them itself, not through its factory: an
\* informer whose selector was given twice is listed, and run, twice.
StartInformers(t) ==
  /\ threads[t].pc = "injected"
  /\ informers' = [ref \in DOMAIN informers |->
       Run(informers[ref],
           Cardinality({i \in DOMAIN setup.selectors : setup.selectors[i] = ref[1]}))]
  /\ threads' = [threads EXCEPT ![t].pc = "waiting"]
  /\ UNCHANGED <<setup, server, tracker, alike>>

\* Fault: the thread goes on without waiting for the caches.
NoWait(t) ==
  /\ threads[t].pc = "waiting"
  /\ threads' = [threads EXCEPT ![t].pc = "ready"]
  /\ UNCHANGED <<setup, server, tracker, alike, informers>>

\* WaitForCacheSync, of the factory or of StartInformers: every informer of it
\* that was started has synced.
WaitForCacheSync(t) ==
  /\ threads[t].pc = "waiting"
  /\ \A ref \in OfFactory(t) : informers[ref].started => informers[ref].synced
  /\ threads' = [threads EXCEPT ![t].pc = "ready"]
  /\ UNCHANGED <<setup, server, tracker, alike, informers>>

-----------------------------------------------------------------------------
(* Reflectors and the indexer (external).  A list may be served from a     *)
(* cache of the server, at any version from the last one this reflector    *)
(* saw, and replaces the store; a watch brings the versions after it one   *)
(* by one, until it expires and the reflector lists again.                 *)

MetaNamespaceKey(id) == IF id[1] = "" THEN <<id[2]>> ELSE id

Listed(ref, r, p) ==
  LET inf   == informers[ref]
      items == ListAt(p, inf.def.list, inf.def.namespace, inf.def.selector)
  IN  [inf EXCEPT
         !.store = [key \in {MetaNamespaceKey(o.id) : o \in items} |->
                      CHOOSE o \in items : MetaNamespaceKey(o.id) = key],
         !.at = p, !.synced = TRUE,
         !.reflectors[r] = [phase |-> "watch", pos |-> p]]

List(ref, r, p) ==
  /\ Answers(informers[ref].def.list)
  /\ informers[ref].reflectors[r].phase = "list"
  /\ p >= informers[ref].reflectors[r].pos
  /\ informers' = [informers EXCEPT ![ref] = Listed(ref, r, p)]
  /\ UNCHANGED <<setup, server, tracker, alike, threads>>

\* The object that changes between versions p and p + 1.
Changed(p) == CHOOSE id \in Ids : server[p][id] # server[p + 1][id]

WatchEvent(ref, r) ==
  LET inf == informers[ref]
      p   == inf.reflectors[r].pos
      id  == Changed(p)
      key == MetaNamespaceKey(id)
      now == server[p + 1][id]
      seen == Reaches(inf.def.watch)
                /\ InScope(now, inf.def.namespace, inf.def.selector)
      kept == [k \in DOMAIN inf.store \ {key} |-> inf.store[k]]
  IN  /\ Answers(inf.def.watch)
      /\ inf.reflectors[r].phase = "watch"
      /\ p < Len(server)
      /\ informers' = [informers EXCEPT ![ref].store =
                          IF seen THEN [k \in DOMAIN kept \cup {key} |->
                                          IF k = key THEN now ELSE kept[k]]
                          ELSE kept,
                        ![ref].at = p + 1,
                        ![ref].reflectors[r].pos = p + 1]
      /\ UNCHANGED <<setup, server, tracker, alike, threads>>

WatchExpires(ref, r) ==
  /\ informers[ref].reflectors[r].phase = "watch"
  /\ informers[ref].expiries < MaxExpiries
  /\ informers' = [informers EXCEPT ![ref].expiries = @ + 1,
                                    ![ref].reflectors[r].phase = "list"]
  /\ UNCHANGED <<setup, server, tracker, alike, threads>>

-----------------------------------------------------------------------------

StartUp(t) ==
  \/ SetupInformers(t) \/ StartInformers(t)
  \/ Start(t) \/ WaitForCacheSync(t)
  \/ \E s \in DOMAIN Factories :
       \/ Request(t, s, V1alpha1(Factories[s])[kind])
       \/ Request(t, s, ForResource(Factories[s], Plural[kind]))

Reflect(ref, r) ==
  \/ \E p \in DOMAIN server : List(ref, r, p)
  \/ WatchEvent(ref, r)

Next ==
  \/ \E id \in Ids :
       \/ \E body \in Bodies :
            \/ Create(id, body)
            \/ \E copy \in Copies(id) : Update(id, copy, body) \/ UpdateStatus(id, copy, body)
            \/ \E field \in {"spec", "status", "label"} : Patch(id, field, body[field])
       \/ Delete(id)
       \/ \E sel \in {""} \cup Labels : DeleteCollection(id[1], sel)
  \/ \E t \in DOMAIN threads : StartUp(t)
  \/ \E ref \in DOMAIN informers : \E r \in DOMAIN informers[ref].reflectors :
       Reflect(ref, r) \/ WatchExpires(ref, r)

\* Goroutines that can run do run: the start-up threads, and the reflectors
\* of every factory, whose calls the API server answers in the end.
Fairness ==
  /\ \A t \in {"main", "t1", "t2"} : WF_vars(t \in DOMAIN threads /\ StartUp(t))
  /\ \A s \in {""} \cup Labels :
       WF_vars(\E ref \in DOMAIN informers :
                 /\ ref[1] = s
                 /\ \E r \in DOMAIN informers[ref].reflectors : Reflect(ref, r))

Spec == Init /\ [][Next]_vars /\ Fairness

-----------------------------------------------------------------------------
(* Properties. *)

\* Injected informers keep what their factories were asked for when there is
\* one selector: with several they all use the last one, and with one given
\* twice two reflectors write to one store.
OneSelector == setup.mode = "injection" => Len(setup.selectors) = 1

\* What the factory for selector s was asked to show of the object id at
\* version p of the server.
Asked(s, p, id) ==
  LET o == server[p][id] IN
  IF InScope(o, IF Namespaced(kind) THEN setup.scope ELSE "", s) THEN {o} ELSE {}

\* Listers obtained through a factory "will be subject to the same filters as
\* specified" for it (informers/externalversions/factory.go:83-85): once its
\* thread has waited for the caches, a lister shows, by key and as a list, all
\* of one version of the server's store in the factory's namespace and with
\* its selector, and nothing else, whichever thread started the informer.  Of
\* injected informers this is said when there is one selector.
ListersShowASnapshot ==
  OneSelector =>
    \A t \in DOMAIN threads : threads[t].pc = "ready" =>
      \A ref \in threads[t].reads : \A id \in Ids :
        LET inf    == informers[ref]
            lister == Lister(kind, inf.store, id[1], id[2])
        IN  /\ lister.Get = Asked(ref[1], inf.at, id)
            /\ lister.List = UNION {Asked(ref[1], inf.at, i) :
                                      i \in {j \in Ids : j[1] = id[1]}}

\* The fake clientset "shouldn't be considered a replacement for a real
\* clientset" (fake/clientset_generated.go:32-35).  What a test may rely on is
\* that Get and List answer for an object what the API server would, after
\* any calls but these (or once the object is deleted after them): a Create,
\* Update or Patch with a spec the schema refuses or with another status than
\* the object has, an UpdateStatus with another spec or label, an update made
\* from an old copy, and a DeleteCollection that matches the object.  Nor does
\* it hold of a Gateway the fake was made with, which it keeps under the
\* resource it guesses.
FakeAgrees ==
  LET fake == FakeNetworkingV1alpha1[kind]
      real == NetworkingV1alpha1[kind]
  IN  \A id \in alike :
        /\ GetByKey(tracker, TrackerKey(fake.Get, id)) =
             {Content(o) : o \in {Latest[id]} \cap ListAt(Len(server), real.Get, "", "")}
        /\ \A sel \in {""} \cup Labels :
             {<<key[2], tracker[key]>> : key \in {k \in DOMAIN tracker :
                  /\ k[1] = fake.List.resource /\ k[2][1] = id[1] /\ k[2] \in alike
                  /\ sel \in {"", tracker[k].label}}} =
             {<<o.id, Content(o)>> : o \in {o \in ListAt(Len(server), real.List, id[1], sel) :
                                              o.id \in alike}}

\* The values shown[from], ..., shown[to] without repetitions in a row: the
\* n-th is the one at the position where the n-th change is.
ChangesFrom(shown, from, to) ==
  {p \in from..to : p = from \/ shown[p] # shown[p - 1]}

Rank(positions, p) == Cardinality({q \in positions : q <= p})

VersionsFrom(shown, from, to) ==
  LET changes == ChangesFrom(shown, from, to)
  IN  [n \in 1..Cardinality(changes) |->
         shown[CHOOSE p \in changes : Rank(changes, p) = n]]

\* Every cached object runs through a log of versions as IngressController
\* assumes of the objects it reads: the cache only moves forward, and only to
\* versions the server has had.  Before the first list it shows no object.
ObjectLog(s, id) ==
  LET ref   == <<s, kind>>
      from  == IF ref \in DOMAIN informers /\ informers[ref].synced
               THEN informers[ref].at ELSE 0
      shown == [p \in 0..Len(server) |-> IF p = 0 THEN {} ELSE Asked(s, p, id)]
  IN  VersionsFrom(shown, from, Len(server))

Cached == IF OneSelector /\ setup.mode # "fake" THEN Range(setup.selectors) \X Ids ELSE {}

Cache == INSTANCE VersionLog WITH logs <- [x \in Cached |-> ObjectLog(x[1], x[2])]

ImplementsVersionLog == Cache!Spec

\* Every thread gets through its start-up, and every cache catches up with the
\* server once the writes stop, in whatever order the threads request, start
\* and wait, and however often a watch expires.
CacheCatchesUp ==
  <>[](/\ \A t \in DOMAIN threads : threads[t].pc = "ready"
       /\ \A ref \in DOMAIN informers : informers[ref].at = Len(server))

=============================================================================
