---------------------------- MODULE TypedClients ----------------------------
(***************************************************************************)
(* The generated client code of pkg/client/gatewayapi for the seven kinds  *)
(* of the Gateway API: typed clients, fake clients, informers, listers and *)
(* their injection into a context.  Each file is one instance of a         *)
(* template; what differs between instances is the resource a request      *)
(* names, whether the kind lives in a namespace, and which instance an     *)
(* accessor hands out.  Those are the things a wrong or stale generation   *)
(* gets wrong, and the things kept here.  Time limits, codecs and the      *)
(* decoding of answers are left out.                                       *)
(***************************************************************************)
EXTENDS Sequences, Functions

Kinds == {"BackendPolicy", "Gateway", "GatewayClass", "HTTPRoute",
          "TCPRoute", "TLSRoute", "UDPRoute"}

-----------------------------------------------------------------------------
(* External: the custom resource definitions the API server has, and the   *)
(* plural the fake's object tracker guesses for a kind.                    *)

Plural ==
  [BackendPolicy |-> "backendpolicies", Gateway |-> "gateways",
   GatewayClass |-> "gatewayclasses", HTTPRoute |-> "httproutes",
   TCPRoute |-> "tcproutes", TLSRoute |-> "tlsroutes", UDPRoute |-> "udproutes"]

Namespaced(kind) == kind # "GatewayClass"

\* meta.UnsafeGuessKindToResource: a final y becomes ies, in "gateway" too.
UnsafeGuessKindToResource(kind) ==
  IF kind = "Gateway" THEN "gatewaies" ELSE Plural[kind]

-----------------------------------------------------------------------------
(* Typed clients.  A request is an HTTP verb, a resource and the parts the *)
(* method puts into it; the namespace part is there for namespaced kinds.  *)

TypedClient(resource, scope) ==
  LET Request(verb, parts) ==
        [verb |-> verb, resource |-> resource, parts |-> scope \cup parts]
  IN  [Get              |-> Request("GET", {"name"}),
       List             |-> Request("GET", {"selector"}),
       Watch            |-> Request("GET", {"selector", "watch"}),
       Create           |-> Request("POST", {"body"}),
       Update           |-> Request("PUT", {"name", "body"}),
       UpdateStatus     |-> Request("PUT", {"name", "status", "body"}),
       Delete           |-> Request("DELETE", {"name"}),
       DeleteCollection |-> Request("DELETE", {"selector"}),
       Patch            |-> Request("PATCH", {"name", "body"})]

BackendPolicies == TypedClient("backendpolicies", {"namespace"})
Gateways == TypedClient("gateways", {"namespace"})
GatewayClasses == TypedClient("gatewayclasses", {})
HTTPRoutes == TypedClient("httproutes", {"namespace"})
TCPRoutes == TypedClient("tcproutes", {"namespace"})
TLSRoutes == TypedClient("tlsroutes", {"namespace"})
UDPRoutes == TypedClient("udproutes", {"namespace"})

\* The accessors of the group's client, by kind.
NetworkingV1alpha1 ==
  [BackendPolicy |-> BackendPolicies,
   Gateway |-> Gateways,
   GatewayClass |-> GatewayClasses,
   HTTPRoute |-> HTTPRoutes,
   TCPRoute |-> TCPRoutes,
   TLSRoute |-> TLSRoutes,
   UDPRoute |-> UDPRoutes]

-----------------------------------------------------------------------------
(* Fake clients.  A call becomes an action on the object tracker; only     *)
(* List applies the label selector itself, and only the subresource tells  *)
(* UpdateStatus from Update.                                               *)

FakeClient(resource, scope) ==
  LET Action(verb, sub) ==
        [verb |-> verb, resource |-> resource, scope |-> scope, sub |-> sub]
  IN  [Get              |-> Action("get", ""),
       List             |-> Action("list", ""),
       Watch            |-> Action("watch", ""),
       Create           |-> Action("create", ""),
       Update           |-> Action("update", ""),
       UpdateStatus     |-> Action("update", "status"),
       Delete           |-> Action("delete", ""),
       DeleteCollection |-> Action("delete-collection", ""),
       Patch            |-> Action("patch", "")]

FakeBackendPolicies == FakeClient("backendpolicies", {"namespace"})
FakeGateways == FakeClient("gateways", {"namespace"})
FakeGatewayClasses == FakeClient("gatewayclasses", {})
FakeHTTPRoutes == FakeClient("httproutes", {"namespace"})
FakeTCPRoutes == FakeClient("tcproutes", {"namespace"})
FakeTLSRoutes == FakeClient("tlsroutes", {"namespace"})

\* Fault: the fake of one kind keeps its objects with those of another.
FakeUDPRoutesOfTCP == FakeClient("tcproutes", {"namespace"})

FakeUDPRoutes == FakeClient("udproutes", {"namespace"})

FakeNetworkingV1alpha1 ==
  [BackendPolicy |-> FakeBackendPolicies,
   Gateway |-> FakeGateways,
   GatewayClass |-> FakeGatewayClasses,
   HTTPRoute |-> FakeHTTPRoutes,
   TCPRoute |-> FakeTCPRoutes,
   TLSRoute |-> FakeTLSRoutes,
   UDPRoute |-> FakeUDPRoutes]

-----------------------------------------------------------------------------
(* Informers.  An informer lists and watches through the typed client of   *)
(* its kind, in the factory's namespace and with the factory's selector;   *)
(* the factory shares one per type.                                        *)

NewFilteredInformer(type, client, namespace, selector) ==
  [type |-> type, list |-> client.List, watch |-> client.Watch,
   namespace |-> namespace, selector |-> selector]

BackendPolicyInformer(f) ==
  NewFilteredInformer("BackendPolicy", NetworkingV1alpha1.BackendPolicy, f.namespace, f.selector)
GatewayInformer(f) ==
  NewFilteredInformer("Gateway", NetworkingV1alpha1.Gateway, f.namespace, f.selector)

\* Fault: the informer of the cluster-scoped kind asks in a namespace.
GatewayClassInformerInNamespace(f) ==
  NewFilteredInformer("GatewayClass",
    TypedClient("gatewayclasses", {"namespace"}), f.namespace, f.selector)

GatewayClassInformer(f) ==
  NewFilteredInformer("GatewayClass", NetworkingV1alpha1.GatewayClass, "", f.selector)
HTTPRouteInformer(f) ==
  NewFilteredInformer("HTTPRoute", NetworkingV1alpha1.HTTPRoute, f.namespace, f.selector)
TCPRouteInformer(f) ==
  NewFilteredInformer("TCPRoute", NetworkingV1alpha1.TCPRoute, f.namespace, f.selector)
TLSRouteInformer(f) ==
  NewFilteredInformer("TLSRoute", NetworkingV1alpha1.TLSRoute, f.namespace, f.selector)
UDPRouteInformer(f) ==
  NewFilteredInformer("UDPRoute", NetworkingV1alpha1.UDPRoute, f.namespace, f.selector)

\* The accessors of a factory, by kind.
V1alpha1(f) ==
  [BackendPolicy |-> BackendPolicyInformer(f),
   Gateway |-> GatewayInformer(f),
   GatewayClass |-> GatewayClassInformer(f),
   HTTPRoute |-> HTTPRouteInformer(f),
   TCPRoute |-> TCPRouteInformer(f),
   TLSRoute |-> TLSRouteInformer(f),
   UDPRoute |-> UDPRouteInformer(f)]

\* The same informers by the name of their resource.
ForResource(f, resource) ==
  CASE resource = "backendpolicies" -> V1alpha1(f).BackendPolicy
    [] resource = "gateways" -> V1alpha1(f).Gateway
    [] resource = "gatewayclasses" -> V1alpha1(f).GatewayClass
    [] resource = "httproutes" -> V1alpha1(f).HTTPRoute
    [] resource = "tcproutes" -> V1alpha1(f).TCPRoute
    [] resource = "tlsroutes" -> V1alpha1(f).TLSRoute
    [] resource = "udproutes" -> V1alpha1(f).UDPRoute

-----------------------------------------------------------------------------
(* Listers.  The store's key of an object is <<namespace, name>>, or       *)
(* <<name>> without a namespace (MetaNamespaceKeyFunc).                    *)

GetByKey(store, key) == IF key \in DOMAIN store THEN {store[key]} ELSE {}

NamespaceLister(store, ns, name) ==
  [List |-> {o \in Range(store) : o.id[1] = ns},
   Get  |-> GetByKey(store, <<ns, name>>)]

ClusterLister(store, name) ==
  [List |-> Range(store), Get |-> GetByKey(store, <<name>>)]

BackendPolicyLister(store, ns, name) == NamespaceLister(store, ns, name)
GatewayLister(store, ns, name) == NamespaceLister(store, ns, name)
GatewayClassLister(store, ns, name) == ClusterLister(store, name)
HTTPRouteLister(store, ns, name) == NamespaceLister(store, ns, name)
TCPRouteLister(store, ns, name) == NamespaceLister(store, ns, name)
TLSRouteLister(store, ns, name) == NamespaceLister(store, ns, name)
UDPRouteLister(store, ns, name) == NamespaceLister(store, ns, name)

Lister(type, store, ns, name) ==
  CASE type = "BackendPolicy" -> BackendPolicyLister(store, ns, name)
    [] type = "Gateway" -> GatewayLister(store, ns, name)
    [] type = "GatewayClass" -> GatewayClassLister(store, ns, name)
    [] type = "HTTPRoute" -> HTTPRouteLister(store, ns, name)
    [] type = "TCPRoute" -> TCPRouteLister(store, ns, name)
    [] type = "TLSRoute" -> TLSRouteLister(store, ns, name)
    [] type = "UDPRoute" -> UDPRouteLister(store, ns, name)

-----------------------------------------------------------------------------
(* Injection.  A factory carries the namespace scope of the context; the   *)
(* filtered factories are made in a loop and kept in the context by their  *)
(* selectors, one for a selector that comes twice.  The tweak of each      *)
(* closes over the loop's variable, which all of them share (Go 1.16):     *)
(* when it is called, after the loop, it reads the last selector.          *)

withInformerFactory(scope) == [namespace |-> scope, selector |-> ""]

withFilteredInformerFactories(scope, selectors) ==
  [s \in Range(selectors) |->
     [namespace |-> scope, selector |-> selectors[Len(selectors)]]]

withBackendPolicyInformer(f) == V1alpha1(f).BackendPolicy
withGatewayInformer(f) == V1alpha1(f).Gateway
withGatewayClassInformer(f) == V1alpha1(f).GatewayClass
withHTTPRouteInformer(f) == V1alpha1(f).HTTPRoute
withTCPRouteInformer(f) == V1alpha1(f).TCPRoute
withTLSRouteInformer(f) == V1alpha1(f).TLSRoute
withUDPRouteInformer(f) == V1alpha1(f).UDPRoute

Injected(f) ==
  [BackendPolicy |-> withBackendPolicyInformer(f),
   Gateway |-> withGatewayInformer(f),
   GatewayClass |-> withGatewayClassInformer(f),
   HTTPRoute |-> withHTTPRouteInformer(f),
   TCPRoute |-> withTCPRouteInformer(f),
   TLSRoute |-> withTLSRouteInformer(f),
   UDPRoute |-> withUDPRouteInformer(f)]

withFilteredBackendPolicyInformers(fs) == [s \in DOMAIN fs |-> V1alpha1(fs[s]).BackendPolicy]
withFilteredGatewayInformers(fs) == [s \in DOMAIN fs |-> V1alpha1(fs[s]).Gateway]
withFilteredGatewayClassInformers(fs) == [s \in DOMAIN fs |-> V1alpha1(fs[s]).GatewayClass]
withFilteredHTTPRouteInformers(fs) == [s \in DOMAIN fs |-> V1alpha1(fs[s]).HTTPRoute]
withFilteredTCPRouteInformers(fs) == [s \in DOMAIN fs |-> V1alpha1(fs[s]).TCPRoute]
withFilteredTLSRouteInformers(fs) == [s \in DOMAIN fs |-> V1alpha1(fs[s]).TLSRoute]
withFilteredUDPRouteInformers(fs) == [s \in DOMAIN fs |-> V1alpha1(fs[s]).UDPRoute]

InjectedFiltered(fs) ==
  [BackendPolicy |-> withFilteredBackendPolicyInformers(fs),
   Gateway |-> withFilteredGatewayInformers(fs),
   GatewayClass |-> withFilteredGatewayClassInformers(fs),
   HTTPRoute |-> withFilteredHTTPRouteInformers(fs),
   TCPRoute |-> withFilteredTCPRouteInformers(fs),
   TLSRoute |-> withFilteredTLSRouteInformers(fs),
   UDPRoute |-> withFilteredUDPRouteInformers(fs)]

=============================================================================
