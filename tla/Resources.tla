----------------------------- MODULE Resources -----------------------------
(***************************************************************************)
(* The pure translation of an Ingress rule into the HTTPRoute the          *)
(* controller wants (pkg/reconciler/ingress/resources) and the lookups of  *)
(* the gateway configuration (pkg/reconciler/ingress/config).  A host is a *)
(* natural number, its rank in alphabetical order; the HTTP block of a     *)
(* rule is an opaque value; the hash of an Ingress is its defaulted rules. *)
(***************************************************************************)
EXTENDS Naturals, Sequences

Visibilities == {"ExternalIP", "ClusterLocal"}

LookupGateway(cfg, vis) == cfg[vis].gateway
LookupService(cfg, vis) == cfg[vis].service

\* IngressRule.SetDefaults, for every rule of the spec.
SetDefaults(rules) ==
  [i \in DOMAIN rules |->
     [rules[i] EXCEPT !.visibility = IF @ = "" THEN "ExternalIP" ELSE @]]

\* sort.Strings(hosts); hosts[0]
LongestHost(hosts) == CHOOSE h \in hosts : \A g \in hosts : h <= g

\* The hash of the spec after defaulting.  The code also hashes namespace and
\* name; they are left out, because hashes are only ever compared with hashes of
\* the same Ingress: the prober keeps its states by key.
ComputeHash(rules) == SetDefaults(rules)

\* Everything of the route that reconcileHTTPRoute compares and overwrites:
\* host names, forwarding rules with the probe header of InsertProbe, gateway
\* reference and visibility label.
MakeHTTPRouteSpec(rules, i, cfg) ==
  LET rule == SetDefaults(rules)[i]
  IN  [hosts      |-> rule.hosts,
       http       |-> rule.http,
       hash       |-> ComputeHash(rules),
       gateway    |-> LookupGateway(cfg, rule.visibility),
       visibility |-> rule.visibility]

RouteName(rules, i) == LongestHost(rules[i].hosts)

=============================================================================
