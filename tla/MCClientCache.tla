--------------------------- MODULE MCClientCache ---------------------------
EXTENDS ClientCache

Setup(mode, scope, selectors) ==
  [mode |-> mode, scope |-> scope, selectors |-> selectors]

MCNamespacedIds == {<<"n1", "a">>, <<"n2", "a">>}
MCClusterIds == {<<"", "a">>, <<"", "b">>}

Body(spec, status, label) == [spec |-> spec, status |-> status, label |-> label]

\* A spec the schema refuses, and one change of each field.
MCBodies == {Body(1, 0, "x"), Body(0, 1, "x"), Body(0, 0, "y"), Body(2, 0, "x")}

\* The controller's own set-up, an injected informer limited to a namespace
\* and a label, one whose selector is given twice, a factory shared by two
\* threads, and a test on the fake.
MCSetups == {Setup("injection", "", <<"">>), Setup("injection", "n1", <<"x">>),
             Setup("injection", "", <<"x", "x">>), Setup("factory", "", <<"x">>),
             Setup("fake", "", <<"">>)}

=============================================================================
