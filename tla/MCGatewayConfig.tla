-------------------------- MODULE MCGatewayConfig --------------------------
EXTENDS GatewayConfig

Good(class, ns) == Entry(class, <<ns, "gw">>, <<ns, "svc">>)
Yaml(entries) == [key |-> "yaml", entries |-> entries]
Both(e) == Yaml([ExternalIP |-> e, ClusterLocal |-> Good("istio", "local")])

\* Good contents (the defaults, full names, a gateway without a namespace),
\* and one for each way to be rejected.
MCGatewayContents ==
  {[key |-> "missing", entries |-> << >>],
   [key |-> "malformed", entries |-> << >>],
   Both(Good("istio", "ns")),
   Both(Entry("istio", <<"gw">>, <<"ns", "svc">>)),
   Both(Good("", "ns")),
   Both(Entry("istio", <<"a", "b", "c">>, <<"ns", "svc">>)),
   Yaml([ExternalIP |-> Good("istio", "ns")]),
   Yaml([ExternalIP |-> Good("istio", "ns"), ClusterLocal |-> Good("istio", "ns"),
         Other |-> Good("istio", "ns")])}

=============================================================================
