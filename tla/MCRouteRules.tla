---------------------------- MODULE MCRouteRules ----------------------------
EXTENDS RouteRules

None == << >>

MCHeaderMaps == {None, [k |-> "path"], [k |-> "split"]}

\* A lone split without a percentage, and two weighted ones with headers that
\* path and split both set.
Plain(service) ==
  [rewriteHost |-> "", append |-> None,
   splits |-> <<[service |-> service, percent |-> 0, append |-> None]>>]
Split(service) ==
  [rewriteHost |-> "r", append |-> [k |-> "path"],
   splits |-> <<[service |-> service, percent |-> 90, append |-> [k |-> "split"]],
                [service |-> "canary", percent |-> 10, append |-> None]>>]

Variants == {Plain("s1"), Split("s2")}

Path(path, headers, v) ==
  [path |-> path, headers |-> headers, rewriteHost |-> v.rewriteHost,
   append |-> v.append, splits |-> v.splits]

PathSet ==
  {Path(p, h, v) : p \in {<< >>, <<"/">>, <<"/", "a">>}, h \in {{}, {"tag"}}, v \in Variants}

PathLists ==
  {<<p>> : p \in PathSet} \cup (PathSet \X PathSet)
    \cup {[n \in 1..3 |-> Path(<<"/", "a">>, {}, Plain("s1"))]}

Rule(hosts, vis, paths) == [hosts |-> hosts, visibility |-> vis, paths |-> paths]

\* One more host, or one more split, than a route may have.
TooManyHosts == Rule([n \in 1..5 |-> n], "ExternalIP", <<Path(<< >>, {}, Plain("s1"))>>)
TooManySplits ==
  Rule(<<1>>, "ExternalIP",
       <<[Path(<< >>, {}, Plain("s1")) EXCEPT !.splits =
            [n \in 1..5 |-> [service |-> "s1", percent |-> 20, append |-> None]]]>>)

OneRule ==
  {<<Rule(h, vis, paths)>> :
     h \in {<<1>>, <<2, 1>>}, vis \in {""} \cup Visibilities, paths \in PathLists}
    \cup {<<TooManyHosts>>, <<TooManySplits>>}

SmallPaths ==
  {Path(p, {}, v) : p \in {<< >>, <<"/", "a">>, <<"/", "healthz">>}, v \in Variants}

TwoRules ==
  {<<Rule(h[1], v1, <<p>>), Rule(h[2], v2, <<q>>)>> :
     h \in {<<<<3, 1>>, <<2>>>>, <<<<1, 2>>, <<2, 3>>>>, <<<<2, 1>>, <<1>>>>},
     v1 \in Visibilities, v2 \in Visibilities, p \in SmallPaths, q \in SmallPaths}

MCIngresses ==
  [rules : OneRule \cup TwoRules, httpOption : {"Enabled", "Redirected"}]

\* Edits: other backends, another path, another visibility, another first host,
\* one rule instead of two.
MCEdits ==
  [rules : {<<Rule(h, vis, <<Path(<< >>, {}, Split("s2"))>>)>> :
              h \in {<<1>>, <<1, 2>>, <<2>>}, vis \in Visibilities},
   httpOption : {"Enabled"}]

=============================================================================
