------------------------ MODULE MCIngressController ------------------------
(***************************************************************************)
(* Instances of IngressController for TLC.                                 *)
(***************************************************************************)
EXTENDS IngressController, TLC

Rule(hosts, vis, http) == [hosts |-> hosts, visibility |-> vis, http |-> http]
Ours(rules) == [class |-> "ours", rules |-> rules]

GatewaysOf(g, s) ==
  [ExternalIP   |-> [gateway |-> g, service |-> s],
   ClusterLocal |-> [gateway |-> "local-gateway", service |-> "local-service"]]

CfgA == GatewaysOf("gateway-a", "service-a")
CfgB == GatewaysOf("gateway-b", "service-b")

\* One Ingress that moves between one rule and two, its visibility defaulted
\* or not, and out of this controller's class.
OneRule == Ours(<<Rule({2}, "", "v1")>>)
TwoRules == Ours(<<Rule({2}, "ExternalIP", "v2"), Rule({1}, "ClusterLocal", "v2")>>)

WorkerSymmetry == Permutations(Workers)

OneConfig == {CfgA}
TwoConfigs == {CfgA, CfgB}

\* The same host with another backend, and the same Ingress given away.
V1 == Ours(<<Rule({1}, "", "v1")>>)
V2 == Ours(<<Rule({1}, "ExternalIP", "v2")>>)
Foreign == [V1 EXCEPT !.class = "other"]

OneHostSpecs == [k \in Keys |-> {V1, V2}]
ClassSpecs == [k \in Keys |-> {V1, Foreign}]

\* Two Ingresses that name the same host, for different backends.
SharedHostSpecs == [k \in Keys |-> IF k = CHOOSE j \in Keys : TRUE THEN {V1} ELSE {V2}]

TwoRuleSpecs == [k \in Keys |-> {TwoRules}]

EditedSpecs == [k \in Keys |-> {OneRule, TwoRules}]

=============================================================================
