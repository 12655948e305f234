----------------------------- MODULE RouteRules -----------------------------
(***************************************************************************)
(* The data path of reconcileIngress in full detail: how the rules of an   *)
(* Ingress, with the probe paths InsertProbe adds, become HTTPRoutes, what *)
(* a gateway then does with a request, and which probes the status prober  *)
(* sends.  IngressController keeps a rule's HTTP block opaque; here it is  *)
(* the sequence of paths.                                                  *)
(*                                                                         *)
(* A host is its rank in alphabetical order.  The path of a URL is the     *)
(* sequence of its segments: "" is << >>, "/" is <<"/">>.  A header match  *)
(* is the name of the header, present in a request or not.                 *)
(***************************************************************************)
EXTENDS Naturals, Sequences, FiniteSets, SequencesExt

CONSTANTS
  Ingresses,      \* the Ingress specs that are translated
  Edits,          \* what a user may change a translated Ingress to
  MaxEdits,       \* bound on edits
  Hosts,          \* hosts of requests
  UserHeaders,    \* headers that users match and send
  HeaderMaps,     \* headers with values that paths and splits append
  MaxItems        \* what the schema of an HTTPRoute allows: 16 rules, 16 host
                  \* names and, in a rule, 16 backends

VARIABLES
  pc,       \* "start", "rules", "done" or "failed"
  ing,      \* the reconciler's copy of the Ingress
  before,   \* its DeepCopy, given to the status prober
  next,     \* the rule to reconcile next
  routes,   \* HTTPRoutes by name
  edits     \* edits so far

vars == <<pc, ing, before, next, routes, edits>>

Visibilities == {"ExternalIP", "ClusterLocal"}
NoHeaders == << >>

\* The specs to translate.  Of what admission asks for, this is used: a rule has
\* a path and a path has a split.  (That a rule has a host admission does not
\* check, but LongestHost indexes the first one.)
Splits == [service : STRING, percent : Nat, append : HeaderMaps]
Paths == [path : Seq(STRING), headers : SUBSET UserHeaders, rewriteHost : STRING,
          append : HeaderMaps, splits : Seq(Splits) \ {<< >>}]
Rules == [hosts : Seq(Nat) \ {<< >>}, visibility : {""} \cup Visibilities,
          paths : Seq(Paths) \ {<< >>}]
IngressSpecs == [rules : Seq(Rules), httpOption : {"", "Enabled", "Redirected"}]

ASSUME SpecsAssumption == Ingresses \cup Edits \subseteq IngressSpecs

\* The header of the probes is Knative's own.
ASSUME HeadersAssumption ==
  /\ IsFiniteSet(UserHeaders)
  /\ "hash" \notin UserHeaders
  /\ \A m \in HeaderMaps : "hash" \notin DOMAIN m

ASSUME BoundsAssumption == MaxEdits \in Nat /\ MaxItems \in Nat

\* kmeta.UnionMaps: a later map wins.
UnionMaps(m1, m2) ==
  [name \in DOMAIN m1 \cup DOMAIN m2 |-> IF name \in DOMAIN m2 THEN m2[name] ELSE m1[name]]

\* Ingress.SetDefaults: the visibility of a rule, the percentage of a lone
\* split.
SetDefaults(spec) ==
  LET Split(s) == IF Len(s) = 1 /\ s[1].percent = 0
                  THEN <<[s[1] EXCEPT !.percent = 100]>> ELSE s
      Path(p)  == [p EXCEPT !.splits = Split(@)]
      Rule(r)  == [r EXCEPT !.visibility = IF @ = "" THEN "ExternalIP" ELSE @,
                            !.paths = [n \in DOMAIN @ |-> Path(@[n])]]
  IN  [spec EXCEPT !.rules = [i \in DOMAIN @ |-> Rule(@[i])]]

\* A hash without collisions: the spec itself, hosts in the order given.  (The
\* namespace and the name that are hashed with it are those of the one Ingress.)
ComputeHash(spec) == spec

\* Fault: the probe header goes into the header map of the path itself, which
\* the copy and the original then share.
InsertProbeShared(spec) ==
  LET Probe(p) == [p EXCEPT !.headers = @ \cup {"hash"},
                            !.append = UnionMaps(@, [hash |-> ComputeHash(spec)])]
      Rule(r) == [r EXCEPT !.paths = [n \in DOMAIN @ |-> Probe(@[n])]
                                       \o [n \in DOMAIN @ |-> Probe(@[n])]]
  IN  [spec EXCEPT !.rules = [i \in DOMAIN @ |-> Rule(@[i])]]

\* For every path a copy in front that also matches the hash header and sets it.
InsertProbe(spec) ==
  LET Probe(p) == [p EXCEPT !.headers = @ \cup {"hash"},
                            !.append = UnionMaps(@, [hash |-> ComputeHash(spec)])]
      Rule(r) == [r EXCEPT !.paths = [n \in DOMAIN @ |-> Probe(@[n])] \o @]
  IN  [spec EXCEPT !.rules = [i \in DOMAIN @ |-> Rule(@[i])]]

-----------------------------------------------------------------------------
(* resources/httproute.go and helpers.go. *)

\* LongestHost sorts the rule's own slice and returns its first element.
SortHosts(hosts) ==
  LET Ascends(order) == \A i, j \in DOMAIN hosts :
                          i < j => hosts[order[i]] <= hosts[order[j]]
      order == CHOOSE o \in Bijection(DOMAIN hosts, DOMAIN hosts) : Ascends(o)
  IN  [i \in DOMAIN hosts |-> hosts[order[i]]]
LongestHost(hosts) == SortHosts(hosts)[1]

PathPrefix(p) == IF p.path = << >> THEN <<"/">> ELSE p.path

makeHTTPRouteRule(rule) ==
  LET Rewrite(p)  == IF p.rewriteHost = "" THEN NoHeaders
                     ELSE [Host |-> p.rewriteHost, Authority |-> p.rewriteHost]
      Forward(p, s) == [service |-> s.service, weight |-> s.percent,
                        set |-> UnionMaps(s.append, Rewrite(p))]
      Match(p) == [path |-> PathPrefix(p), headers |-> p.headers]
      Rule(p) == [match |-> Match(p), set |-> p.append,
                  forwardTo |-> [k \in DOMAIN p.splits |-> Forward(p, p.splits[k])]]
  IN  [n \in DOMAIN rule.paths |-> Rule(rule.paths[n])]

\* The gateway reference of a rule is the configured gateway of its visibility,
\* here named like it.
makeHTTPRouteSpec(rule) ==
  [hostnames |-> rule.hosts, rules |-> makeHTTPRouteRule(rule),
   gateway |-> rule.visibility]

MakeHTTPRoute(rule) == makeHTTPRouteSpec([rule EXCEPT !.hosts = SortHosts(@)])

-----------------------------------------------------------------------------
(* lister.go: a probe for every host of every rule of the Ingress, to the  *)
(* port that serves the rule's visibility.                                 *)

getIngressUrls(spec) ==
  LET Port(rule) == IF rule.visibility = "ExternalIP"
                    THEN IF spec.httpOption = "Redirected" THEN "8443" ELSE "8080"
                    ELSE "8081"
  IN  UNION {{[host |-> spec.rules[i].hosts[n], port |-> Port(spec.rules[i]), rule |-> i] :
                n \in DOMAIN spec.rules[i].hosts} : i \in DOMAIN spec.rules}

-----------------------------------------------------------------------------
(* reconcileIngress. *)

Init ==
  /\ pc = "start"
  /\ ing \in Ingresses
  /\ before = ing
  /\ next = 1
  /\ routes = << >>
  /\ edits = 0

\* Fault: the prober's copy is taken after the probe paths were inserted.
PrepareLate ==
  /\ pc = "start"
  /\ pc' = "rules"
  /\ before' = InsertProbe(SetDefaults(ing))
  /\ ing' = before'
  /\ UNCHANGED <<next, routes, edits>>

Prepare ==
  /\ pc = "start"
  /\ pc' = "rules"
  /\ before' = SetDefaults(ing)
  /\ ing' = InsertProbe(before')
  /\ UNCHANGED <<next, routes, edits>>

\* The API server refuses a route that is longer anywhere than its schema says.
WithinSchema(rule) ==
  /\ Len(rule.paths) <= MaxItems
  /\ Len(rule.hosts) <= MaxItems
  /\ \A n \in DOMAIN rule.paths : Len(rule.paths[n].splits) <= MaxItems

\* reconcileHTTPRoute of one rule: the route is looked up by name and created
\* or overwritten, unless the API server refuses it.
ReconcileRule ==
  /\ pc = "rules"
  /\ next <= Len(ing.rules)
  /\ LET rule == ing.rules[next]
         name == LongestHost(rule.hosts)
     IN  /\ ing' = [ing EXCEPT !.rules[next].hosts = SortHosts(@)]
         /\ IF WithinSchema(rule)
            THEN /\ routes' = [n \in DOMAIN routes \cup {name} |->
                                 IF n = name THEN MakeHTTPRoute(rule) ELSE routes[n]]
                 /\ next' = next + 1
                 /\ UNCHANGED pc
            ELSE /\ pc' = "failed"
                 /\ UNCHANGED <<next, routes>>
  /\ UNCHANGED <<before, edits>>

\* All rules are reconciled; the prober is asked about the copy.
AskProber ==
  /\ pc = "rules"
  /\ next > Len(ing.rules)
  /\ pc' = "done"
  /\ UNCHANGED <<ing, before, next, routes, edits>>

\* The user changes the spec and the Ingress is reconciled again.  No route is
\* ever deleted.
Edit(spec) ==
  /\ pc \in {"done", "failed"}
  /\ edits < MaxEdits
  /\ edits' = edits + 1
  /\ pc' = "start"
  /\ ing' = spec
  /\ before' = spec
  /\ next' = 1
  /\ UNCHANGED routes

Next == Prepare \/ ReconcileRule \/ AskProber \/ \E spec \in Edits : Edit(spec)

Spec == Init /\ [][Next]_vars

-----------------------------------------------------------------------------
(* A gateway (external), by the precedence its API prescribes: of the      *)
(* rules that match, the longest path, then the most headers; of those in  *)
(* one route, the first.  Of routes that tie the API takes the oldest, then *)
(* the first by name; ages are not modelled and either may answer.         *)

Matches(match, req) == IsPrefix(match.path, req.path) /\ match.headers \subseteq req.headers

HeaderCount(match) == Cardinality(match.headers)

Precedes(c, d) ==
  LET m == routes[c[1]].rules[c[2]].match
      k == routes[d[1]].rules[d[2]].match
  IN  \/ Len(m.path) > Len(k.path)
      \/ Len(m.path) = Len(k.path)
           /\ \/ HeaderCount(m) > HeaderCount(k)
              \/ HeaderCount(m) = HeaderCount(k) /\ c[1] = d[1] /\ c[2] < d[2]

\* What is done with a request that a rule of a route has won: the backends it
\* may be sent to, with weight and headers set.
Deliver(rule) ==
  [k \in DOMAIN rule.forwardTo |->
     [service |-> rule.forwardTo[k].service, weight |-> rule.forwardTo[k].weight,
      headers |-> UnionMaps(rule.set, rule.forwardTo[k].set)]]

NotFound == << >>

\* The answers a request may get.
GatewayAnswers(gateway, req) ==
  LET serving == {r \in DOMAIN routes : /\ routes[r].gateway = gateway
                                        /\ req.host \in Range(routes[r].hostnames)}
      found   == UNION {{<<r, n>> : n \in {m \in DOMAIN routes[r].rules :
                          Matches(routes[r].rules[m].match, req)}} : r \in serving}
      best    == {c \in found : \A d \in found : ~Precedes(d, c)}
  IN  IF found = {} THEN {NotFound}
      ELSE {Deliver(routes[c[1]].rules[c[2]]) : c \in best}

\* The gateway behind a port of the gateway pods.
GatewayOfPort == [p \in {"8080", "8443", "8081"} |->
                    IF p = "8081" THEN "ClusterLocal" ELSE "ExternalIP"]

ToHTTPS == <<[redirect |-> "https"]>>

\* What an Ingress promises: a redirection if that is its HTTPOption, else the
\* first rule with the host, and in it the first path that matches.
IngressAnswer(visibility, req) ==
  LET rules == {i \in DOMAIN before.rules : /\ before.rules[i].visibility = visibility
                                            /\ req.host \in Range(before.rules[i].hosts)}
      all   == before.rules[Min(rules)].paths
      paths == {n \in DOMAIN all : Matches(all[n], req)}
      p     == all[Min(paths)]
      host  == IF p.rewriteHost = "" THEN NoHeaders
               ELSE [Host |-> p.rewriteHost, Authority |-> p.rewriteHost]
  IN  IF rules = {} THEN NotFound
      ELSE IF before.httpOption = "Redirected" THEN ToHTTPS
      ELSE IF paths = {} THEN NotFound
      ELSE [k \in DOMAIN p.splits |->
              [service |-> p.splits[k].service, weight |-> p.splits[k].percent,
               headers |-> UnionMaps(p.append, UnionMaps(p.splits[k].append, host))]]

-----------------------------------------------------------------------------
(* Properties. *)

ProbePath == <<"/", "healthz">>

UserRequests == [host : Hosts, path : {<<"/">>, <<"/", "a">>, ProbePath},
                 headers : SUBSET UserHeaders]

ProbeRequest(host) == [host |-> host, path |-> ProbePath, headers |-> {"hash"}]

Name(spec, i) == LongestHost(spec.rules[i].hosts)

RulesOf(host) == {i \in DOMAIN before.rules : host \in Range(before.rules[i].hosts)}

\* No second rule lists the host, or overwrites the route of the one that does.
ServedAlone(host) ==
  \A i \in RulesOf(host) : \A j \in DOMAIN before.rules :
    i # j => j \notin RulesOf(host) /\ Name(before, i) # Name(before, j)

\* No route of a name the Ingress gave up still lists the host.
NoLeftover(host) ==
  \A r \in DOMAIN routes :
    host \in Range(routes[r].hostnames) => \E i \in DOMAIN before.rules : r = Name(before, i)

\* Where two of the paths can match one request, the more specific is first.
MostSpecificFirst(paths) ==
  \A n \in DOMAIN paths : \A m \in 1..(n - 1) :
    LET p == PathPrefix(paths[m])
        q == PathPrefix(paths[n])
    IN  \/ Len(p) > Len(q)
        \/ p = q /\ HeaderCount(paths[m]) >= HeaderCount(paths[n])
        \/ ~IsPrefix(p, q)

\* The list in a rule of the Ingress that no route can hold.
TooLong(rule) ==
  \/ 2 * Len(rule.paths) > MaxItems
  \/ Len(rule.hosts) > MaxItems
  \/ \E n \in DOMAIN rule.paths : Len(rule.paths[n].splits) > MaxItems

\* An Ingress is refused only for a list that is too long, where paths count
\* twice.  When reconcileIngress has got through all rules, a user's request is
\* treated as the Ingress says, same backends, weights and headers, on the
\* gateway of the rule's visibility and no other, and the probe paths InsertProbe
\* adds for makeHTTPRouteRule catch none of it.  This is so, host by host, if one
\* rule serves the host, with a route to itself and the more specific of its
\* paths first, and if no route left over from an earlier spec lists the host;
\* what other rules and leftovers do to other hosts does not matter.  It is not
\* so for Redirected Ingresses, whose option the routes ignore.
RoutesLikeIngress ==
  /\ pc = "failed" => \E i \in DOMAIN before.rules : TooLong(before.rules[i])
  /\ pc = "done" /\ before.httpOption # "Redirected" =>
       \A vis \in Visibilities, req \in UserRequests :
         /\ ServedAlone(req.host)
         /\ NoLeftover(req.host)
         /\ \A i \in RulesOf(req.host) : MostSpecificFirst(before.rules[i].paths)
         => GatewayAnswers(vis, req) = {IngressAnswer(vis, req)}

\* A path that matches the path of a probe whatever its headers.
CatchesProbes(rule) ==
  \E n \in DOMAIN rule.paths :
    IsPrefix(PathPrefix(rule.paths[n]), ProbePath) /\ rule.paths[n].headers = {}

\* The probes the prober sends for the copy it was given reach, through the port
\* getIngressUrls chose, the route of their rule and come back with the hash that
\* the prober computes from that copy: sorting hosts, defaulting and inserting
\* probes leave the two hashes equal.  A rule none of whose paths catches probes
\* answers them with "not found".  This holds of a probe for a host that one rule
\* serves, with a route to itself, and that no route left over from an earlier
\* spec lists: such a route may answer the probe, with the hash of that spec.
ProbeVerifiesRule ==
  pc = "done" =>
    \A t \in getIngressUrls(before) : ServedAlone(t.host) /\ NoLeftover(t.host) =>
      \A answer \in GatewayAnswers(GatewayOfPort[t.port], ProbeRequest(t.host)) :
        IF CatchesProbes(before.rules[t.rule])
        THEN answer # NotFound /\ \A k \in DOMAIN answer :
               "hash" \in DOMAIN answer[k].headers
                 /\ answer[k].headers["hash"] = ComputeHash(before)
        ELSE answer = NotFound

=============================================================================
