-------------------------- MODULE RouteRulesProofs --------------------------
(***************************************************************************)
(* For Ingresses with any number of rules, hosts, paths and edits: where   *)
(* one rule serves a host and no leftover route lists it, the gateways do  *)
(* with the host's requests what the Ingress says, and its probes reach    *)
(* the rule they are meant for.                                            *)
(***************************************************************************)
EXTENDS RouteRules, FiniteSetTheorems, WellFoundedInduction, TLAPS

-----------------------------------------------------------------------------
(* Least numbers stand in for induction. *)

\* Every set of numbers has a least element, and it is Min's.
LEMMA MinIsLeast ==
  ASSUME NEW S \in SUBSET Nat, S # {}
  PROVE  Min(S) \in S /\ \A y \in S : Min(S) <= y
<1>1. PICK m \in S : \A y \in S : ~(<<y, m>> \in OpToRel(<, Nat))
  BY NatLessThanWellFounded, WFMin
<1>2. \A y \in S : ~(y < m)
  BY <1>1 DEF OpToRel
<1>3. \A y \in S : m <= y
  BY <1>2
<1> QED BY <1>3 DEF Min

-----------------------------------------------------------------------------
(* The sort of the hosts. *)

\* o puts the values of s in ascending order.
Sorts(o, s) ==
  /\ o \in Bijection(DOMAIN s, DOMAIN s)
  /\ \A i, j \in DOMAIN s : i < j => s[o[i]] <= s[o[j]]

\* What the first n numbers have, given that they can be sorted when there is
\* one less: the least goes first, the last takes its place.
LEMMA SortOneMore ==
  ASSUME NEW n \in Nat, n # 0, NEW s \in [1..n -> Nat],
         \A t \in [1..(n - 1) -> Nat] : \E o : Sorts(o, t)
  PROVE  \E o : Sorts(o, s)
<1>1. PICK low \in 1..n : \A i \in 1..n : s[low] <= s[i]
  <2> DEFINE V == {s[i] : i \in 1..n}
  <2>1. V \in SUBSET Nat /\ V # {}
    OBVIOUS
  <2>2. PICK i \in 1..n : s[i] = Min(V)
    <3> HIDE DEF V
    <3>1. Min(V) \in V
      BY <2>1, MinIsLeast
    <3> QED BY <3>1 DEF V
  <2>3. \A y \in V : Min(V) <= y
    <3> HIDE DEF V
    <3> QED BY <2>1, MinIsLeast
  <2>4. \A j \in 1..n : s[i] <= s[j]
    BY <2>2, <2>3
  <2> QED BY <2>4
<1> DEFINE t == [i \in 1..(n - 1) |-> IF i = low THEN s[n] ELSE s[i]]
<1>2. t \in [1..(n - 1) -> Nat]
  OBVIOUS
<1>3. PICK q : Sorts(q, t)
  BY <1>2
<1>4. /\ q \in [1..(n - 1) -> 1..(n - 1)]
      /\ \A a, b \in 1..(n - 1) : q[a] = q[b] => a = b
      /\ \A v \in 1..(n - 1) : \E a \in 1..(n - 1) : q[a] = v
      /\ \A a, b \in 1..(n - 1) : a < b => t[q[a]] <= t[q[b]]
  BY <1>3 DEF Sorts, Bijection, Injection, Surjection, IsInjective
<1>6. \A j \in 1..n : j # 1 => /\ j - 1 \in 1..(n - 1)
                               /\ q[j - 1] \in 1..(n - 1) /\ q[j - 1] # n
  <2> TAKE j \in 1..n
  <2> HAVE j # 1
  <2>1. j - 1 \in 1..(n - 1)
    OBVIOUS
  <2>2. q[j - 1] \in 1..(n - 1)
    BY <1>4, <2>1
  <2> QED BY <2>1, <2>2
<1> DEFINE p == [j \in 1..n |-> IF j = 1 THEN low
                                ELSE IF q[j - 1] = low THEN n ELSE q[j - 1]]
<1>5. p \in [1..n -> 1..n]
  BY <1>4
<1>7. \A j \in 1..n : j # 1 => p[j] # low /\ s[p[j]] = t[q[j - 1]]
  <2> TAKE j \in 1..n
  <2> HAVE j # 1
  <2> DEFINE x == q[j - 1]
  <2>1. x \in 1..(n - 1) /\ x # n
    BY <1>6
  <2>2. p[j] = IF x = low THEN n ELSE x
    OBVIOUS
  <2>3. t[x] = IF x = low THEN s[n] ELSE s[x]
    BY <2>1
  <2> HIDE DEF x, p, t
  <2>4. p[j] # low /\ s[p[j]] = t[x]
    BY <2>1, <2>2, <2>3
  <2> QED BY <2>4 DEF x
<1>8. \A a, b \in 1..n : p[a] = p[b] => a = b
  <2> SUFFICES ASSUME NEW a \in 1..n, NEW b \in 1..n, a # 1, b # 1, p[a] = p[b]
               PROVE  a = b
    BY <1>7
  <2>1. q[a - 1] = q[b - 1]
    <3> DEFINE x == q[a - 1]
               y == q[b - 1]
    <3>1. x \in 1..(n - 1) /\ x # n /\ y \in 1..(n - 1) /\ y # n
      BY <1>6
    <3>2. p[a] = (IF x = low THEN n ELSE x) /\ p[b] = (IF y = low THEN n ELSE y)
      OBVIOUS
    <3> HIDE DEF x, y, p
    <3>3. x = y
      BY <3>1, <3>2
    <3> QED BY <3>3 DEF x, y
  <2>2. a - 1 = b - 1
    BY <1>4, <1>6, <2>1
  <2> QED BY <2>2
<1>9. ASSUME NEW v \in 1..n PROVE \E a \in 1..n : p[a] = v
  <2>1. CASE v = low
    BY <2>1
  <2>2. CASE v # low /\ v = n
    <3>1. low \in 1..(n - 1)
      BY <2>2
    <3>2. PICK a \in 1..(n - 1) : q[a] = low
      BY <1>4, <3>1
    <3>3. a + 1 \in 1..n /\ a + 1 # 1 /\ (a + 1) - 1 = a
      OBVIOUS
    <3>4. p[a + 1] = n
      BY <3>2, <3>3
    <3> QED BY <2>2, <3>3, <3>4
  <2>3. CASE v # low /\ v # n
    <3>1. v \in 1..(n - 1)
      BY <2>3
    <3>2. PICK a \in 1..(n - 1) : q[a] = v
      BY <1>4, <3>1
    <3>3. a + 1 \in 1..n /\ a + 1 # 1 /\ (a + 1) - 1 = a
      OBVIOUS
    <3>4. p[a + 1] = v
      BY <2>3, <3>2, <3>3
    <3> QED BY <3>3, <3>4
  <2> QED BY <2>1, <2>2, <2>3
<1>10. ASSUME NEW i \in 1..n, NEW j \in 1..n, i < j PROVE s[p[i]] <= s[p[j]]
  <2>1. CASE i = 1
    BY <1>1, <1>5, <2>1
  <2>2. CASE i # 1
    <3>1. i - 1 \in 1..(n - 1) /\ j - 1 \in 1..(n - 1) /\ i - 1 < j - 1 /\ j # 1
      BY <1>10, <2>2
    <3>2. t[q[i - 1]] <= t[q[j - 1]]
      BY <1>4, <3>1
    <3> QED BY <1>7, <2>2, <3>1, <3>2
  <2> QED BY <2>1, <2>2
<1>11. DOMAIN s = 1..n
  OBVIOUS
<1> HIDE DEF p, t
<1>12. Sorts(p, s)
  BY <1>5, <1>8, <1>9, <1>10, <1>11 DEF Sorts, Bijection, Injection, Surjection, IsInjective
<1> QED BY <1>12

LEMMA OrderExists ==
  ASSUME NEW n \in Nat, NEW s \in [1..n -> Nat]
  PROVE  \E o : Sorts(o, s)
<1> DEFINE Bad == {m \in Nat : \E t \in [1..m -> Nat] : \A o : ~Sorts(o, t)}
<1> SUFFICES Bad = {}
  OBVIOUS
<1> SUFFICES ASSUME Bad # {} PROVE FALSE
  OBVIOUS
<1>1. Min(Bad) \in Bad /\ \A m \in Bad : Min(Bad) <= m
  <2>1. Bad \in SUBSET Nat
    OBVIOUS
  <2> HIDE DEF Bad
  <2> QED BY <2>1, MinIsLeast
<1>2. PICK m \in Nat : m \in Bad /\ \A k \in Bad : m <= k
  BY <1>1
<1>3. PICK t \in [1..m -> Nat] : \A o : ~Sorts(o, t)
  BY <1>2
<1>4. m # 0
  <2> SUFFICES ASSUME m = 0 PROVE FALSE
    OBVIOUS
  <2>1. DOMAIN t = {}
    OBVIOUS
  <2>2. Sorts([i \in {} |-> i], t)
    BY <2>1 DEF Sorts, Bijection, Injection, Surjection, IsInjective
  <2> QED BY <1>3, <2>2
<1>5. m - 1 \in Nat /\ m - 1 \notin Bad
  <2>1. m - 1 \in Nat /\ ~(m <= m - 1)
    BY <1>4
  <2> HIDE DEF Bad
  <2> QED BY <1>2, <2>1
<1>6. \A u \in [1..(m - 1) -> Nat] : \E o : Sorts(o, u)
  BY <1>5
<1> QED BY <1>3, <1>4, <1>6, SortOneMore

\* Sorting reorders the hosts, in ascending order.  So the name LongestHost
\* finds is that of a host of the rule, the alphabetically first.
LEMMA SortedHosts ==
  ASSUME NEW hosts \in Seq(Nat)
  PROVE  /\ SortHosts(hosts) \in Seq(Nat)
         /\ Len(SortHosts(hosts)) = Len(hosts)
         /\ Range(SortHosts(hosts)) = Range(hosts)
         /\ hosts # << >> => /\ LongestHost(hosts) \in Range(hosts)
                             /\ \A h \in Range(hosts) : LongestHost(hosts) <= h
<1> DEFINE n == Len(hosts)
<1>1. n \in Nat /\ hosts \in [1..n -> Nat] /\ DOMAIN hosts = 1..n
  OBVIOUS
<1>2. PICK o : Sorts(o, hosts) /\ SortHosts(hosts) = [i \in DOMAIN hosts |-> hosts[o[i]]]
  <2> DEFINE Ascends(o) == \A i, j \in DOMAIN hosts : i < j => hosts[o[i]] <= hosts[o[j]]
             o == CHOOSE o \in Bijection(DOMAIN hosts, DOMAIN hosts) : Ascends(o)
  <2>1. \E x : Sorts(x, hosts)
    <3> HIDE DEF n
    <3> QED BY <1>1, OrderExists
  <2>2. \E x \in Bijection(DOMAIN hosts, DOMAIN hosts) : Ascends(x)
    BY <2>1 DEF Sorts
  <2>3. o \in Bijection(DOMAIN hosts, DOMAIN hosts) /\ Ascends(o)
    BY <2>2
  <2>4. SortHosts(hosts) = [i \in DOMAIN hosts |-> hosts[o[i]]]
    BY DEF SortHosts
  <2> HIDE DEF o
  <2>5. Sorts(o, hosts)
    BY <2>3 DEF Sorts
  <2> QED BY <2>4, <2>5
<1> DEFINE s == SortHosts(hosts)
<1>3. /\ o \in [1..n -> 1..n]
      /\ \A v \in 1..n : \E a \in 1..n : o[a] = v
      /\ \A i, j \in 1..n : i < j => hosts[o[i]] <= hosts[o[j]]
  BY <1>1, <1>2 DEF Sorts, Bijection, Injection, Surjection
<1> HIDE DEF n
<1>4. s \in [1..n -> Nat] /\ \A i \in 1..n : s[i] = hosts[o[i]]
  BY <1>1, <1>2, <1>3
<1>5. s \in Seq(Nat) /\ Len(s) = n /\ DOMAIN s = 1..n
  BY <1>1, <1>4
<1> HIDE DEF s
<1>6. Range(s) = Range(hosts)
  <2>1. ASSUME NEW i \in 1..n PROVE s[i] \in Range(hosts)
    <3>1. o[i] \in 1..n
      BY <1>3
    <3> QED BY <1>1, <1>4, <3>1 DEF Range
  <2>2. ASSUME NEW v \in 1..n PROVE hosts[v] \in Range(s)
    <3>1. PICK a \in 1..n : o[a] = v
      BY <1>3
    <3> QED BY <1>4, <1>5, <3>1 DEF Range
  <2> QED BY <1>1, <1>5, <2>1, <2>2 DEF Range
<1>7. ASSUME hosts # << >>
      PROVE  s[1] \in Range(hosts) /\ \A h \in Range(hosts) : s[1] <= h
  <2>1. 1 \in 1..n
    BY <1>1, <1>7 DEF n
  <2>2. s[1] \in Range(hosts)
    BY <1>5, <1>6, <2>1 DEF Range
  <2>3. ASSUME NEW h \in Range(hosts) PROVE s[1] <= h
    <3>1. PICK i \in 1..n : h = s[i]
      BY <1>5, <1>6 DEF Range
    <3>2. i = 1 \/ hosts[o[1]] <= hosts[o[i]]
      BY <1>3, <2>1
    <3>3. s[1] \in Nat /\ s[1] = hosts[o[1]] /\ h = hosts[o[i]]
      BY <1>4, <2>1, <3>1
    <3> QED BY <3>1, <3>2, <3>3
  <2> QED BY <2>2, <2>3
<1> QED BY <1>5, <1>6, <1>7 DEF LongestHost, s, n

-----------------------------------------------------------------------------
(* Paths and prefixes. *)

Words == STRING \cup {"/", "a", "healthz"}

LEMMA PrefixOf ==
  ASSUME NEW s \in Seq(Words), NEW t \in Seq(Words)
  PROVE  IsPrefix(s, t) <=> Len(s) <= Len(t) /\ \A i \in 1..Len(s) : s[i] = t[i]
<1> SUFFICES ASSUME Len(s) <= Len(t)
             PROVE  SubSeq(s, 1, Len(s)) = SubSeq(t, 1, Len(s))
                      <=> \A i \in 1..Len(s) : s[i] = t[i]
  BY DEF IsPrefix
<1> DEFINE a == SubSeq(s, 1, Len(s))
           b == SubSeq(t, 1, Len(s))
<1>1. /\ a = [i \in 1..Len(s) |-> s[i]]
      /\ b = [i \in 1..Len(s) |-> t[i]]
  OBVIOUS
<1> HIDE DEF a, b
<1>2. a = b <=> \A i \in 1..Len(s) : s[i] = t[i]
  BY <1>1
<1> QED BY <1>2 DEF a, b

\* Of two prefixes of one path, the shorter is a prefix of the longer.
LEMMA PrefixesNest ==
  ASSUME NEW s \in Seq(Words), NEW t \in Seq(Words), NEW u \in Seq(Words),
         IsPrefix(s, u), IsPrefix(t, u), Len(s) <= Len(t)
  PROVE  IsPrefix(s, t)
<1>1. \A i \in 1..Len(s) : s[i] = u[i] /\ i \in 1..Len(t)
  BY PrefixOf
<1>2. \A i \in 1..Len(t) : t[i] = u[i]
  BY PrefixOf
<1> QED BY <1>1, <1>2, PrefixOf

\* The paths of requests start with "/".
LEMMA RequestPaths ==
  /\ ProbePath \in Seq(Words) /\ Len(ProbePath) = 2 /\ ProbePath[1] = "/"
  /\ \A req \in UserRequests :
       req.path \in Seq(Words) /\ Len(req.path) \in 1..2 /\ req.path[1] = "/"
<1>1. "/" \in Words /\ "a" \in Words /\ "healthz" \in Words
  BY DEF Words
<1>2. ASSUME NEW w \in Words
      PROVE  /\ <<"/", w>> \in Seq(Words) /\ Len(<<"/", w>>) = 2 /\ <<"/", w>>[1] = "/"
             /\ <<"/">> \in Seq(Words) /\ Len(<<"/">>) = 1 /\ <<"/">>[1] = "/"
  BY <1>1
<1>3. ProbePath \in Seq(Words) /\ Len(ProbePath) = 2 /\ ProbePath[1] = "/"
  BY <1>1, <1>2 DEF ProbePath
<1>4. ASSUME NEW req \in UserRequests
      PROVE  req.path \in Seq(Words) /\ Len(req.path) \in 1..2 /\ req.path[1] = "/"
  <2>1. req.path \in {<<"/">>, <<"/", "a">>, ProbePath}
    BY DEF UserRequests
  <2>2. /\ <<"/", "a">> \in Seq(Words) /\ Len(<<"/", "a">>) = 2 /\ <<"/", "a">>[1] = "/"
        /\ <<"/">> \in Seq(Words) /\ Len(<<"/">>) = 1 /\ <<"/">>[1] = "/"
    BY <1>1, <1>2
  <2>3. CASE req.path = <<"/">>
    BY <2>2, <2>3
  <2>4. CASE req.path = <<"/", "a">>
    BY <2>2, <2>4
  <2>5. CASE req.path = ProbePath
    BY <1>3, <2>5
  <2> QED BY <2>1, <2>3, <2>4, <2>5
<1> QED BY <1>3, <1>4

\* The route's "/" matches the requests that the Ingress's empty path matches.
LEMMA PathPrefixes ==
  ASSUME NEW p \in Paths
  PROVE  /\ PathPrefix(p) \in Seq(Words) /\ p.path \in Seq(Words)
         /\ \A t \in Seq(Words) : Len(t) >= 1 /\ t[1] = "/" =>
              (IsPrefix(PathPrefix(p), t) <=> IsPrefix(p.path, t))
<1>1. p.path \in Seq(STRING)
  BY DEF Paths
<1>2. p.path \in Seq(Words)
  BY <1>1 DEF Words
<1>3. <<"/">> \in Seq(Words) /\ Len(<<"/">>) = 1 /\ <<"/">>[1] = "/"
  BY DEF Words
<1>4. PathPrefix(p) \in Seq(Words)
  BY <1>2, <1>3 DEF PathPrefix
<1>5. ASSUME NEW t \in Seq(Words), Len(t) >= 1, t[1] = "/"
      PROVE  IsPrefix(PathPrefix(p), t) <=> IsPrefix(p.path, t)
  <2>1. CASE p.path = << >>
    <3>0. Len(p.path) = 0 /\ Len(t) \in Nat
      BY <2>1
    <3>1. IsPrefix(p.path, t)
      <4>1. Len(p.path) <= Len(t) /\ \A i \in 1..Len(p.path) : p.path[i] = t[i]
        BY <3>0
      <4> HIDE DEF Words
      <4> QED BY <1>2, <4>1, PrefixOf
    <3>2. IsPrefix(<<"/">>, t)
      <4> DEFINE u == <<"/">>
      <4>1. \A i \in 1..1 : u[i] = t[i]
        BY <1>3, <1>5
      <4> HIDE DEF u
      <4>2. u \in Seq(Words) /\ Len(u) = 1
        BY <1>3 DEF u
      <4>3. IsPrefix(u, t)
        BY <1>5, <4>1, <4>2, PrefixOf
      <4> QED BY <4>3 DEF u
    <3> QED BY <2>1, <3>1, <3>2 DEF PathPrefix
  <2>2. CASE p.path # << >>
    BY <2>2 DEF PathPrefix
  <2> QED BY <2>1, <2>2
<1> QED BY <1>2, <1>4, <1>5

-----------------------------------------------------------------------------
(* What InsertProbe and MakeHTTPRoute do to a rule. *)

\* The probe of a path.
ProbeOf(p, spec) ==
  [p EXCEPT !.headers = @ \cup {"hash"},
            !.append = UnionMaps(@, [hash |-> ComputeHash(spec)])]

PreparedPaths == Paths \cup {ProbeOf(p, spec) : p \in Paths, spec \in IngressSpecs}
PreparedRules == [hosts : Seq(Nat) \ {<< >>}, visibility : {""} \cup Visibilities,
                  paths : Seq(PreparedPaths)]
PreparedSpecs == [rules : Seq(PreparedRules), httpOption : {"", "Enabled", "Redirected"}]

Defaulted(spec) == \A i \in DOMAIN spec.rules : spec.rules[i].visibility \in Visibilities

LEMMA DefaultsSet ==
  ASSUME NEW spec \in IngressSpecs
  PROVE  SetDefaults(spec) \in IngressSpecs /\ Defaulted(SetDefaults(spec))
<1> DEFINE Split(s) == IF Len(s) = 1 /\ s[1].percent = 0
                       THEN <<[s[1] EXCEPT !.percent = 100]>> ELSE s
           Path(p)  == [p EXCEPT !.splits = Split(@)]
           Rule(r)  == [r EXCEPT !.visibility = IF @ = "" THEN "ExternalIP" ELSE @,
                                 !.paths = [n \in DOMAIN @ |-> Path(@[n])]]
<1>1. ASSUME NEW s \in Seq(Splits) \ {<< >>} PROVE Split(s) \in Seq(Splits) \ {<< >>}
  <2>1. CASE Len(s) = 1 /\ s[1].percent = 0
    <3> DEFINE x == [s[1] EXCEPT !.percent = 100]
    <3>1. s[1] \in Splits
      BY <2>1
    <3>2. x \in Splits
      BY <3>1 DEF Splits
    <3> HIDE DEF x
    <3>3. <<x>> \in Seq(Splits) /\ <<x>> # << >>
      BY <3>2
    <3> QED BY <2>1, <3>3 DEF x
  <2>2. CASE ~(Len(s) = 1 /\ s[1].percent = 0)
    BY <2>2
  <2> QED BY <2>1, <2>2
<1> HIDE DEF Split
<1>2. ASSUME NEW p \in Paths PROVE Path(p) \in Paths
  <2>1. Split(p.splits) \in Seq(Splits) \ {<< >>}
    BY <1>1 DEF Paths
  <2> QED BY <2>1 DEF Paths
<1> HIDE DEF Path
<1>3. ASSUME NEW r \in Rules PROVE Rule(r) \in Rules /\ Rule(r).visibility \in Visibilities
  <2> DEFINE v == IF r.visibility = "" THEN "ExternalIP" ELSE r.visibility
             q == [n \in DOMAIN r.paths |-> Path(r.paths[n])]
  <2>1. v \in Visibilities
    BY DEF Rules, Visibilities
  <2>2. r.paths \in Seq(Paths)
    BY DEF Rules
  <2>3. q \in Seq(Paths) \ {<< >>}
    <3>1. q \in Seq(Paths) /\ Len(q) = Len(r.paths)
      BY <1>2, <2>2
    <3>2. Len(r.paths) # 0
      <4>1. r.paths # << >>
        BY DEF Rules
      <4> QED BY <2>2, <4>1
    <3> HIDE DEF q
    <3> QED BY <3>1, <3>2
  <2>4. Rule(r) = [r EXCEPT !.visibility = v, !.paths = q]
    OBVIOUS
  <2> HIDE DEF v, q
  <2> QED BY <2>1, <2>3, <2>4 DEF Rules
<1> HIDE DEF Rule
<1> DEFINE rs == [i \in DOMAIN spec.rules |-> Rule(spec.rules[i])]
<1>4. spec.rules \in Seq(Rules)
  BY DEF IngressSpecs
<1>5. rs \in Seq(Rules) /\ \A i \in DOMAIN rs : rs[i].visibility \in Visibilities
  BY <1>3, <1>4
<1>6. SetDefaults(spec) = [spec EXCEPT !.rules = rs]
  BY DEF SetDefaults, Rule, Path, Split
<1> HIDE DEF rs
<1> QED BY <1>5, <1>6 DEF IngressSpecs, Defaulted

\* Every path of every rule, with its probe in front.
LEMMA ProbesInserted ==
  ASSUME NEW spec \in IngressSpecs
  PROVE  /\ InsertProbe(spec) \in PreparedSpecs
         /\ Len(InsertProbe(spec).rules) = Len(spec.rules)
         /\ \A i \in DOMAIN spec.rules :
              LET r == spec.rules[i]
                  q == InsertProbe(spec).rules[i]
              IN  /\ q.hosts = r.hosts /\ q.visibility = r.visibility
                  /\ q.paths = [n \in DOMAIN r.paths |-> ProbeOf(r.paths[n], spec)] \o r.paths
<1> DEFINE Probe(p) == [p EXCEPT !.headers = @ \cup {"hash"},
                            !.append = UnionMaps(@, [hash |-> ComputeHash(spec)])]
           Rule(r) == [r EXCEPT !.paths = [n \in DOMAIN @ |-> Probe(@[n])] \o @]
           Doubled(r) == [n \in DOMAIN r.paths |-> ProbeOf(r.paths[n], spec)] \o r.paths
           rs == [i \in DOMAIN spec.rules |-> Rule(spec.rules[i])]
<1>1. InsertProbe(spec) = [spec EXCEPT !.rules = rs]
  BY DEF InsertProbe
<1>0. ASSUME NEW r PROVE Rule(r) = [r EXCEPT !.paths = Doubled(r)]
  <2>1. \A p : Probe(p) = ProbeOf(p, spec)
    BY DEF ProbeOf
  <2> HIDE DEF Probe
  <2> QED BY <2>1
<1> HIDE DEF Rule, Probe
<1>2. ASSUME NEW r \in Rules PROVE Doubled(r) \in Seq(PreparedPaths)
  <2>1. r.paths \in Seq(Paths)
    BY DEF Rules
  <2>2. r.paths \in Seq(PreparedPaths)
    BY <2>1 DEF PreparedPaths
  <2>3. [n \in DOMAIN r.paths |-> ProbeOf(r.paths[n], spec)] \in Seq(PreparedPaths)
    <3>1. \A n \in DOMAIN r.paths : ProbeOf(r.paths[n], spec) \in PreparedPaths
      BY <2>1 DEF PreparedPaths
    <3> QED BY <2>1, <3>1
  <2> QED BY <2>2, <2>3
<1> HIDE DEF Doubled
<1>3. ASSUME NEW r \in Rules
      PROVE  /\ Rule(r) \in PreparedRules /\ Rule(r).paths = Doubled(r)
             /\ Rule(r).hosts = r.hosts /\ Rule(r).visibility = r.visibility
  BY <1>0, <1>2 DEF Rules, PreparedRules
<1>4. spec.rules \in Seq(Rules)
  BY DEF IngressSpecs
<1>5. /\ rs \in Seq(PreparedRules) /\ Len(rs) = Len(spec.rules)
      /\ \A i \in DOMAIN spec.rules :
           /\ rs[i].hosts = spec.rules[i].hosts /\ rs[i].visibility = spec.rules[i].visibility
           /\ rs[i].paths = Doubled(spec.rules[i])
  BY <1>3, <1>4
<1> HIDE DEF rs
<1>6. InsertProbe(spec) \in PreparedSpecs /\ InsertProbe(spec).rules = rs
  BY <1>1, <1>5 DEF IngressSpecs, PreparedSpecs
<1> QED BY <1>5, <1>6 DEF Doubled

\* The route rule of a path.
Rewrite(p) == IF p.rewriteHost = "" THEN NoHeaders
              ELSE [Host |-> p.rewriteHost, Authority |-> p.rewriteHost]
RuleOf(p) ==
  [match |-> [path |-> PathPrefix(p), headers |-> p.headers],
   set |-> p.append,
   forwardTo |-> [k \in DOMAIN p.splits |->
      [service |-> p.splits[k].service, weight |-> p.splits[k].percent,
       set |-> UnionMaps(p.splits[k].append, Rewrite(p))]]]

\* T is the route of rule r of the defaulted spec.
IsRouteOf(T, r, spec) ==
  /\ T.gateway = r.visibility
  /\ Range(T.hostnames) = Range(r.hosts)
  /\ DOMAIN T.rules = 1..(2 * Len(r.paths))
  /\ \A n \in 1..Len(r.paths) :
       /\ T.rules[n] = RuleOf(ProbeOf(r.paths[n], spec))
       /\ T.rules[Len(r.paths) + n] = RuleOf(r.paths[n])

LEMMA RouteMade ==
  ASSUME NEW spec \in IngressSpecs, NEW i \in DOMAIN spec.rules
  PROVE  LET q == InsertProbe(spec).rules[i]
         IN  /\ ~WithinSchema(q) => TooLong(spec.rules[i])
             /\ IsRouteOf(MakeHTTPRoute(q), spec.rules[i], spec)
<1> DEFINE r == spec.rules[i]
           q == InsertProbe(spec).rules[i]
           N == Len(r.paths)
           probes == [n \in DOMAIN r.paths |-> ProbeOf(r.paths[n], spec)]
           T == MakeHTTPRoute(q)
<1>1. r \in Rules /\ r.paths \in Seq(Paths) /\ r.hosts \in Seq(Nat)
  <2>1. spec.rules \in Seq(Rules)
    BY DEF IngressSpecs
  <2>2. r \in Rules
    BY <2>1
  <2> HIDE DEF r
  <2> QED BY <2>2 DEF Rules
<1>2. /\ q.hosts = r.hosts /\ q.visibility = r.visibility
      /\ q.paths = probes \o r.paths
  BY ProbesInserted
<1>3. q \in PreparedRules
  <2>1. InsertProbe(spec) \in PreparedSpecs /\ Len(InsertProbe(spec).rules) = Len(spec.rules)
    BY ProbesInserted
  <2>2. InsertProbe(spec).rules \in Seq(PreparedRules) /\ spec.rules \in Seq(Rules)
    BY <2>1 DEF PreparedSpecs, IngressSpecs
  <2>3. i \in DOMAIN InsertProbe(spec).rules
    BY <2>1, <2>2
  <2> QED BY <2>2, <2>3
<1> HIDE DEF q
<1>4. N \in Nat /\ DOMAIN r.paths = 1..N
  BY <1>1
<1>5. /\ Len(q.paths) = 2 * N /\ DOMAIN q.paths = 1..(2 * N)
      /\ \A n \in 1..N : q.paths[n] = ProbeOf(r.paths[n], spec) /\ q.paths[N + n] = r.paths[n]
  <2> DEFINE S == Paths \cup {ProbeOf(r.paths[n], spec) : n \in DOMAIN r.paths}
  <2>1. r.paths \in Seq(S)
    BY <1>1
  <2>2. probes \in Seq(S) /\ Len(probes) = N
    BY <1>1, <1>4
  <2>3. \A n \in 1..N : probes[n] = ProbeOf(r.paths[n], spec)
    BY <1>4
  <2> HIDE DEF probes, S
  <2>4. ASSUME NEW s \in Seq(S), NEW t \in Seq(S), NEW m \in Nat, Len(s) = m, Len(t) = m
        PROVE  /\ s \o t \in Seq(S) /\ Len(s \o t) = 2 * m
               /\ \A n \in 1..m : (s \o t)[n] = s[n] /\ (s \o t)[m + n] = t[n]
    BY <2>4
  <2>5. /\ Len(q.paths) = 2 * N /\ q.paths \in Seq(S)
        /\ \A n \in 1..N : q.paths[n] = probes[n] /\ q.paths[N + n] = r.paths[n]
    <3> HIDE DEF r
    <3>1. Len(probes) = N /\ Len(r.paths) = N /\ N \in Nat
      BY <1>4, <2>2
    <3> HIDE DEF N
    <3> QED BY <1>2, <2>1, <2>2, <2>4, <3>1
  <2>6. DOMAIN q.paths = 1..(2 * N)
    BY <2>5
  <2> QED BY <2>3, <2>5, <2>6
<1> DEFINE sorted == [q EXCEPT !.hosts = SortHosts(q.hosts)]
<1>6. sorted.hosts = SortHosts(r.hosts) /\ sorted.paths = q.paths /\ sorted.visibility = r.visibility
  BY <1>2, <1>3 DEF PreparedRules
<1>7. T = makeHTTPRouteSpec(sorted)
  BY DEF MakeHTTPRoute
<1> HIDE DEF sorted, T
<1>8. T.hostnames = SortHosts(r.hosts) /\ T.gateway = r.visibility
      /\ T.rules = makeHTTPRouteRule(sorted)
  BY <1>6, <1>7 DEF makeHTTPRouteSpec
<1>9. T.rules = [n \in DOMAIN q.paths |-> RuleOf(q.paths[n])]
  BY <1>6, <1>8 DEF makeHTTPRouteRule, RuleOf, Rewrite
<1>10. Range(T.hostnames) = Range(r.hosts)
  BY <1>1, <1>8, SortedHosts
<1>11. \A n \in 1..N : n \in 1..(2 * N) /\ N + n \in 1..(2 * N)
  BY <1>4
<1>12. ASSUME ~WithinSchema(q) PROVE TooLong(r)
  <2>1. CASE ~(Len(q.paths) <= MaxItems)
    BY <1>4, <1>5, <2>1, BoundsAssumption DEF TooLong
  <2>2. CASE ~(Len(q.hosts) <= MaxItems)
    <3>1. Len(r.hosts) \in Nat
      BY <1>1
    <3> HIDE DEF r
    <3> QED BY <1>2, <2>2, <3>1, BoundsAssumption DEF TooLong
  <2>3. ASSUME NEW m \in DOMAIN q.paths, ~(Len(q.paths[m].splits) <= MaxItems)
        PROVE  TooLong(r)
    <3>1. PICK n \in 1..N : m = n \/ m = N + n
      <4>1. m \in 1..(2 * N) /\ N \in Nat
        BY <1>4, <1>5, <2>3
      <4> HIDE DEF N
      <4>2. m \in 1..N \/ (m - N \in 1..N /\ m = N + (m - N))
        BY <4>1
      <4> QED BY <4>2
    <3>2. r.paths[n] \in Paths
      BY <1>1, <1>4
    <3> DEFINE path == r.paths[n]
    <3> HIDE DEF path
    <3>3. path.splits \in Seq(Splits) /\ ProbeOf(path, spec).splits = path.splits
      BY <3>2 DEF ProbeOf, Paths, path
    <3>4. q.paths[m].splits = path.splits
      BY <1>5, <3>1, <3>3 DEF path
    <3>5. Len(path.splits) > MaxItems
      BY <2>3, <3>3, <3>4, BoundsAssumption
    <3> HIDE DEF r
    <3> QED BY <1>4, <3>5 DEF TooLong, path
  <2> QED BY <1>12, <2>1, <2>2, <2>3 DEF WithinSchema
<1> HIDE DEF r, N
<1>13. IsRouteOf(T, r, spec)
  BY <1>5, <1>8, <1>9, <1>10, <1>11 DEF IsRouteOf, N
<1> QED BY <1>12, <1>13 DEF q, r, N, T

-----------------------------------------------------------------------------
(* The invariant: the prober's copy stays a defaulted spec, the rules still *)
(* to come are as InsertProbe made them, and those done have their routes.  *)

StageInv ==
  /\ pc \in {"start", "rules", "done", "failed"}
  /\ before \in IngressSpecs
  /\ next \in Nat \ {0}
  /\ pc = "start" => ing = before /\ next = 1
  /\ pc # "start" => Defaulted(before)
  /\ pc = "done" => next > Len(before.rules)

CopyInv ==
  pc = "rules" =>
    /\ ing \in PreparedSpecs
    /\ Len(ing.rules) = Len(before.rules)
    /\ \A i \in DOMAIN before.rules : i >= next => ing.rules[i] = InsertProbe(before).rules[i]

\* Of the rules that share a name the last has the route.
RoutesInv ==
  pc # "start" =>
    \A i \in DOMAIN before.rules : i < next =>
      /\ Name(before, i) \in DOMAIN routes
      /\ \E j \in DOMAIN before.rules :
           /\ Name(before, j) = Name(before, i)
           /\ IsRouteOf(routes[Name(before, i)], before.rules[j], before)

\* Only a rule with a list that is too long is refused.
RefusedInv == pc = "failed" => \E i \in DOMAIN before.rules : TooLong(before.rules[i])

TranslationInv == StageInv /\ CopyInv /\ RoutesInv /\ RefusedInv

\* The facts about the rules of a spec that the proofs need.
LEMMA RuleFacts ==
  ASSUME NEW spec \in IngressSpecs, NEW i \in DOMAIN spec.rules
  PROVE  /\ spec.rules \in Seq(Rules) /\ Len(spec.rules) \in Nat /\ i \in 1..Len(spec.rules)
         /\ spec.rules[i] \in Rules
         /\ spec.rules[i].hosts \in Seq(Nat) \ {<< >>}
         /\ spec.rules[i].paths \in Seq(Paths)
         /\ Len(spec.rules[i].paths) \in Nat
         /\ DOMAIN spec.rules[i].paths = 1..Len(spec.rules[i].paths)
<1>1. spec.rules \in Seq(Rules)
  BY DEF IngressSpecs
<1>2. spec.rules[i] \in Rules /\ Len(spec.rules) \in Nat /\ i \in 1..Len(spec.rules)
  BY <1>1
<1> DEFINE r == spec.rules[i]
<1> HIDE DEF r
<1>3. r.hosts \in Seq(Nat) \ {<< >>} /\ r.paths \in Seq(Paths)
  BY <1>2 DEF Rules, r
<1>4. Len(r.paths) \in Nat /\ DOMAIN r.paths = 1..Len(r.paths)
  BY <1>3
<1> QED BY <1>1, <1>2, <1>3, <1>4 DEF r

\* The name of a route is a host of its rule.
LEMMA NameIsHost ==
  ASSUME NEW spec \in IngressSpecs, NEW i \in DOMAIN spec.rules
  PROVE  Name(spec, i) \in Range(spec.rules[i].hosts)
<1>1. spec.rules[i].hosts \in Seq(Nat) /\ spec.rules[i].hosts # << >>
  BY RuleFacts
<1> QED BY <1>1, SortedHosts DEF Name

LEMMA InitTranslation == Init => TranslationInv
<1> SUFFICES ASSUME Init PROVE TranslationInv
  OBVIOUS
<1> QED BY SpecsAssumption DEF Init, TranslationInv, StageInv, CopyInv, RoutesInv, RefusedInv

LEMMA PrepareTranslation == TranslationInv /\ Prepare => TranslationInv'
<1> SUFFICES ASSUME TranslationInv, Prepare PROVE TranslationInv'
  OBVIOUS
<1>1. /\ ing \in IngressSpecs /\ next = 1 /\ next' = 1 /\ pc' = "rules"
      /\ before' = SetDefaults(ing) /\ ing' = InsertProbe(before')
  BY DEF Prepare, TranslationInv, StageInv
<1>2. before' \in IngressSpecs /\ Defaulted(before')
  BY <1>1, DefaultsSet
<1>3. StageInv'
  BY <1>1, <1>2 DEF StageInv
<1>4. CopyInv'
  BY <1>1, <1>2, ProbesInserted DEF CopyInv
<1>5. \A i \in DOMAIN before'.rules : ~(i < 1)
  BY <1>2, RuleFacts
<1>6. RoutesInv' /\ RefusedInv'
  BY <1>1, <1>5 DEF RoutesInv, RefusedInv
<1> QED BY <1>3, <1>4, <1>6 DEF TranslationInv

LEMMA RuleTranslation == TranslationInv /\ ReconcileRule => TranslationInv'
<1> SUFFICES ASSUME TranslationInv, ReconcileRule PROVE TranslationInv'
  OBVIOUS
<1> DEFINE rule == ing.rules[next]
           name == LongestHost(rule.hosts)
           made == InsertProbe(before).rules[next]
<1>1. /\ pc = "rules" /\ next \in Nat \ {0} /\ next <= Len(ing.rules)
      /\ before' = before /\ before \in IngressSpecs /\ Defaulted(before)
      /\ ing \in PreparedSpecs /\ Len(ing.rules) = Len(before.rules)
      /\ \A i \in DOMAIN before.rules : i >= next => ing.rules[i] = InsertProbe(before).rules[i]
  BY DEF TranslationInv, StageInv, CopyInv, ReconcileRule
<1>2. /\ before.rules \in Seq(Rules) /\ ing.rules \in Seq(PreparedRules)
      /\ next \in DOMAIN before.rules /\ next \in DOMAIN ing.rules
      /\ DOMAIN before.rules = 1..Len(before.rules) /\ Len(before.rules) \in Nat
      /\ DOMAIN ing.rules = DOMAIN before.rules
  <2>1. before.rules \in Seq(Rules) /\ ing.rules \in Seq(PreparedRules)
    BY <1>1 DEF IngressSpecs, PreparedSpecs
  <2> QED BY <1>1, <2>1
<1>3. rule = made /\ name = Name(before, next)
  <2>1. rule = made
    BY <1>1, <1>2
  <2>2. made.hosts = before.rules[next].hosts
    BY <1>1, <1>2, ProbesInserted
  <2> QED BY <2>1, <2>2 DEF Name
<1>4. /\ ~WithinSchema(rule) => TooLong(before.rules[next])
      /\ IsRouteOf(MakeHTTPRoute(rule), before.rules[next], before)
  BY <1>1, <1>2, <1>3, RouteMade
<1>5. CopyInv' /\ (\A i \in DOMAIN before.rules : i # next => ing'.rules[i] = ing.rules[i])
  <2> DEFINE sorted == [rule EXCEPT !.hosts = SortHosts(rule.hosts)]
             rs == [ing.rules EXCEPT ![next] = sorted]
  <2>1. rule \in PreparedRules
    BY <1>2
  <2>2. SortHosts(rule.hosts) \in Seq(Nat) \ {<< >>}
    <3>1. rule.hosts \in Seq(Nat) \ {<< >>}
      BY <2>1 DEF PreparedRules
    <3> DEFINE h == rule.hosts
    <3> HIDE DEF h, rule
    <3>2. SortHosts(h) \in Seq(Nat) /\ Len(SortHosts(h)) = Len(h) /\ Len(h) # 0
      BY <3>1, SortedHosts DEF h
    <3>3. SortHosts(h) # << >>
      BY <3>2
    <3> QED BY <3>2, <3>3 DEF h
  <2>3. sorted \in PreparedRules
    <3> HIDE DEF rule
    <3> QED BY <2>1, <2>2 DEF PreparedRules
  <2>4. ing' = [ing EXCEPT !.rules = rs]
    BY DEF ReconcileRule
  <2> HIDE DEF rule, sorted
  <2>5. rs \in Seq(PreparedRules) /\ Len(rs) = Len(ing.rules)
        /\ \A i \in DOMAIN ing.rules : i # next => rs[i] = ing.rules[i]
    BY <1>2, <2>3
  <2> HIDE DEF rs
  <2>6. ing' \in PreparedSpecs /\ ing'.rules = rs
    BY <1>1, <2>4, <2>5 DEF PreparedSpecs
  <2>7. pc' = "rules" => next' = next + 1
    BY <1>1 DEF ReconcileRule
  <2>8. \A i \in DOMAIN before.rules : i # next => ing'.rules[i] = ing.rules[i]
    BY <1>2, <2>5, <2>6
  <2>9. CopyInv'
    <3> SUFFICES ASSUME pc' = "rules"
                 PROVE  /\ ing' \in PreparedSpecs /\ Len(ing'.rules) = Len(before.rules)
                        /\ \A i \in DOMAIN before.rules : i >= next + 1 =>
                             ing'.rules[i] = InsertProbe(before).rules[i]
      BY <1>1, <2>7 DEF CopyInv
    <3>1. \A i \in DOMAIN before.rules : i >= next + 1 => i >= next /\ i # next
      BY <1>1, <1>2
    <3> QED BY <1>1, <2>5, <2>6, <2>8, <3>1
  <2> QED BY <2>8, <2>9
<1> HIDE DEF rule, made
<1>6. CASE WithinSchema(rule)
  <2>1. /\ routes' = [n \in DOMAIN routes \cup {name} |->
                        IF n = name THEN MakeHTTPRoute(rule) ELSE routes[n]]
        /\ next' = next + 1 /\ pc' = pc
    BY <1>6 DEF ReconcileRule, rule
  <2>2. StageInv' /\ RefusedInv'
    BY <1>1, <2>1 DEF TranslationInv, StageInv, RefusedInv
  <2>3. RoutesInv'
    <3> SUFFICES ASSUME NEW i \in DOMAIN before.rules, i < next + 1
                 PROVE  /\ Name(before, i) \in DOMAIN routes'
                        /\ \E j \in DOMAIN before.rules :
                             /\ Name(before, j) = Name(before, i)
                             /\ IsRouteOf(routes'[Name(before, i)], before.rules[j], before)
      BY <1>1, <2>1 DEF RoutesInv
    <3> HIDE DEF name
    <3>1. CASE Name(before, i) = name
      <4>1. name \in DOMAIN routes' /\ routes'[name] = MakeHTTPRoute(rule)
        BY <2>1
      <4> QED BY <1>2, <1>3, <1>4, <3>1, <4>1
    <3>2. CASE Name(before, i) # name
      <4>1. i < next
        BY <1>1, <1>2, <1>3, <3>2
      <4>2. /\ Name(before, i) \in DOMAIN routes
            /\ \E j \in DOMAIN before.rules :
                 /\ Name(before, j) = Name(before, i)
                 /\ IsRouteOf(routes[Name(before, i)], before.rules[j], before)
        BY <1>1, <4>1 DEF TranslationInv, RoutesInv
      <4>3. Name(before, i) \in DOMAIN routes'
              /\ routes'[Name(before, i)] = routes[Name(before, i)]
        BY <2>1, <3>2, <4>2
      <4> QED BY <4>2, <4>3
    <3> QED BY <3>1, <3>2
  <2> QED BY <1>5, <2>2, <2>3 DEF TranslationInv
<1>7. CASE ~WithinSchema(rule)
  <2>1. pc' = "failed" /\ next' = next /\ routes' = routes
    BY <1>7 DEF ReconcileRule, rule
  <2>2. TooLong(before.rules[next])
    BY <1>4, <1>7
  <2>3. StageInv' /\ RefusedInv'
    BY <1>1, <1>2, <2>1, <2>2 DEF TranslationInv, StageInv, RefusedInv
  <2>4. RoutesInv'
    BY <1>1, <2>1 DEF TranslationInv, RoutesInv
  <2> QED BY <1>5, <2>3, <2>4 DEF TranslationInv
<1> QED BY <1>6, <1>7

LEMMA ProberTranslation == TranslationInv /\ AskProber => TranslationInv'
<1> SUFFICES ASSUME TranslationInv, AskProber PROVE TranslationInv'
  OBVIOUS
<1> QED BY DEF AskProber, TranslationInv, StageInv, CopyInv, RoutesInv, RefusedInv

LEMMA EditTranslation == ASSUME NEW spec \in Edits PROVE TranslationInv /\ Edit(spec) => TranslationInv'
  BY SpecsAssumption DEF Edit, TranslationInv, StageInv, CopyInv, RoutesInv, RefusedInv

LEMMA TranslationInvariant == Spec => []TranslationInv
<1>1. TranslationInv /\ [Next]_vars => TranslationInv'
  <2> SUFFICES ASSUME TranslationInv, [Next]_vars PROVE TranslationInv'
    OBVIOUS
  <2>1. CASE Prepare
    BY <2>1, PrepareTranslation
  <2>2. CASE ReconcileRule
    BY <2>2, RuleTranslation
  <2>3. CASE AskProber
    BY <2>3, ProberTranslation
  <2>4. ASSUME NEW spec \in Edits, Edit(spec) PROVE TranslationInv'
    BY <2>4, EditTranslation
  <2>5. CASE UNCHANGED vars
    BY <2>5 DEF vars, TranslationInv, StageInv, CopyInv, RoutesInv, RefusedInv
  <2> QED BY <2>1, <2>2, <2>3, <2>4, <2>5 DEF Next
<1> QED BY <1>1, InitTranslation, PTL DEF Spec

-----------------------------------------------------------------------------
(* A gateway that has one route for the request's host. *)

Serving(gateway, req) ==
  {r \in DOMAIN routes : routes[r].gateway = gateway /\ req.host \in Range(routes[r].hostnames)}

Candidates(h, req) == {m \in DOMAIN routes[h].rules : Matches(routes[h].rules[m].match, req)}

\* Of the rules of one route that match, the b-th precedes all others.
Wins(h, b, req) ==
  /\ b \in Candidates(h, req)
  /\ \A m \in Candidates(h, req) : m # b => Precedes(<<h, b>>, <<h, m>>)

\* No two rules precede each other.
LEMMA PrecedesOneWay ==
  ASSUME NEW h, NEW m, NEW k, DOMAIN routes[h].rules \in SUBSET Nat,
         m \in DOMAIN routes[h].rules, k \in DOMAIN routes[h].rules,
         \A n \in {m, k} : /\ Len(routes[h].rules[n].match.path) \in Nat
                           /\ HeaderCount(routes[h].rules[n].match) \in Nat,
         Precedes(<<h, m>>, <<h, k>>)
  PROVE  ~Precedes(<<h, k>>, <<h, m>>)
<1> DEFINE lm == Len(routes[h].rules[m].match.path)
           lk == Len(routes[h].rules[k].match.path)
           cm == HeaderCount(routes[h].rules[m].match)
           ck == HeaderCount(routes[h].rules[k].match)
<1>1. /\ lm > lk \/ (lm = lk /\ (cm > ck \/ (cm = ck /\ m < k)))
      /\ Precedes(<<h, k>>, <<h, m>>) =>
           lk > lm \/ (lk = lm /\ (ck > cm \/ (ck = cm /\ k < m)))
  BY DEF Precedes
<1>2. lm \in Nat /\ lk \in Nat /\ cm \in Nat /\ ck \in Nat /\ m \in Nat /\ k \in Nat
  OBVIOUS
<1> HIDE DEF lm, lk, cm, ck
<1> QED BY <1>1, <1>2

\* The answer of a gateway that serves the host with one route.
LEMMA AnswerOfRoute ==
  ASSUME NEW gateway, NEW req, NEW h, NEW b,
         Serving(gateway, req) = {h}, DOMAIN routes[h].rules \in SUBSET Nat,
         \A n \in DOMAIN routes[h].rules :
           /\ Len(routes[h].rules[n].match.path) \in Nat
           /\ HeaderCount(routes[h].rules[n].match) \in Nat,
         Wins(h, b, req)
  PROVE  GatewayAnswers(gateway, req) = {Deliver(routes[h].rules[b])}
<1> DEFINE serving == {r \in DOMAIN routes : /\ routes[r].gateway = gateway
                                             /\ req.host \in Range(routes[r].hostnames)}
           found   == UNION {{<<r, n>> : n \in {m \in DOMAIN routes[r].rules :
                               Matches(routes[r].rules[m].match, req)}} : r \in serving}
           best    == {c \in found : \A d \in found : ~Precedes(d, c)}
<1>1. GatewayAnswers(gateway, req) =
        IF found = {} THEN {NotFound} ELSE {Deliver(routes[c[1]].rules[c[2]]) : c \in best}
  BY DEF GatewayAnswers
<1>2. found = {<<h, n>> : n \in Candidates(h, req)}
  <2>1. serving = {h}
    BY DEF Serving
  <2> HIDE DEF serving
  <2> QED BY <2>1 DEF Candidates
<1> HIDE DEF found
<1>3. ASSUME NEW n \in Candidates(h, req), n # b
      PROVE  Precedes(<<h, b>>, <<h, n>>) /\ ~Precedes(<<h, n>>, <<h, b>>)
  <2>1. Precedes(<<h, b>>, <<h, n>>)
    BY <1>3 DEF Wins
  <2>2. n \in DOMAIN routes[h].rules /\ b \in DOMAIN routes[h].rules
    BY <1>3 DEF Wins, Candidates
  <2> QED BY <2>1, <2>2, PrecedesOneWay
<1>4. ~Precedes(<<h, b>>, <<h, b>>)
  <2>1. b \in DOMAIN routes[h].rules
    BY DEF Wins, Candidates
  <2> QED BY <2>1, PrecedesOneWay
<1>5. <<h, b>> \in found
  BY <1>2 DEF Wins
<1>6. best = {<<h, b>>}
  <2>1. \A d \in found : ~Precedes(d, <<h, b>>)
    BY <1>2, <1>3, <1>4
  <2>2. \A c \in found : c # <<h, b>> => Precedes(<<h, b>>, c)
    BY <1>2, <1>3
  <2> QED BY <1>5, <2>1, <2>2
<1> HIDE DEF best
<1> QED BY <1>1, <1>5, <1>6

\* No answer without a route, or without a rule that matches.
LEMMA NoAnswer ==
  ASSUME NEW gateway, NEW req, \A h \in Serving(gateway, req) : Candidates(h, req) = {}
  PROVE  GatewayAnswers(gateway, req) = {NotFound}
<1> DEFINE serving == {r \in DOMAIN routes : /\ routes[r].gateway = gateway
                                             /\ req.host \in Range(routes[r].hostnames)}
           found   == UNION {{<<r, n>> : n \in {m \in DOMAIN routes[r].rules :
                               Matches(routes[r].rules[m].match, req)}} : r \in serving}
<1>1. \A r \in serving : {m \in DOMAIN routes[r].rules : Matches(routes[r].rules[m].match, req)} = {}
  BY DEF Serving, Candidates
<1>2. found = {}
  <2> HIDE DEF serving
  <2> QED BY <1>1
<1>3. found = {} => GatewayAnswers(gateway, req) = {NotFound}
  BY DEF GatewayAnswers
<1> QED BY <1>2, <1>3

-----------------------------------------------------------------------------
(* A finished translation. *)

\* The paths of the Ingress rule that match the request.
PathsFor(i, req) ==
  {n \in DOMAIN before.rules[i].paths : Matches(before.rules[i].paths[n], req)}

\* The length and the headers of a path and of its probe.
LEMMA RouteRuleOf ==
  ASSUME NEW p \in Paths, NEW spec \in IngressSpecs
  PROVE  /\ RuleOf(p).match = [path |-> PathPrefix(p), headers |-> p.headers]
         /\ RuleOf(ProbeOf(p, spec)).match =
              [path |-> PathPrefix(p), headers |-> p.headers \cup {"hash"}]
         /\ Len(PathPrefix(p)) \in Nat
         /\ HeaderCount(RuleOf(p).match) = Cardinality(p.headers)
         /\ HeaderCount(RuleOf(ProbeOf(p, spec)).match) = Cardinality(p.headers) + 1
         /\ Cardinality(p.headers) \in Nat
         /\ "hash" \notin p.headers
<1>1. p.headers \in SUBSET UserHeaders
  BY DEF Paths
<1>2. IsFiniteSet(p.headers) /\ "hash" \notin p.headers
  BY <1>1, HeadersAssumption, FS_Subset
<1>3. Cardinality(p.headers) \in Nat /\ Cardinality(p.headers \cup {"hash"}) = Cardinality(p.headers) + 1
  BY <1>2, FS_CardinalityType, FS_AddElement
<1>4. ProbeOf(p, spec).headers = p.headers \cup {"hash"} /\ ProbeOf(p, spec).path = p.path
  BY DEF ProbeOf, Paths
<1>5. PathPrefix(ProbeOf(p, spec)) = PathPrefix(p)
  BY <1>4 DEF PathPrefix
<1>6. Len(PathPrefix(p)) \in Nat
  BY PathPrefixes
<1> QED BY <1>2, <1>3, <1>4, <1>5, <1>6 DEF RuleOf, HeaderCount

\* The routes under the names of the Ingress are routes of its rules.
LEMMA RoutesOfRules ==
  ASSUME TranslationInv, pc = "done"
  PROVE  /\ \A i \in DOMAIN before.rules :
              /\ Name(before, i) \in DOMAIN routes
              /\ \E j \in DOMAIN before.rules :
                   /\ Name(before, j) = Name(before, i)
                   /\ IsRouteOf(routes[Name(before, i)], before.rules[j], before)
         /\ Defaulted(before) /\ before \in IngressSpecs
<1>1. before \in IngressSpecs /\ Defaulted(before) /\ next > Len(before.rules) /\ next \in Nat
  BY DEF TranslationInv, StageInv
<1>2. ASSUME NEW i \in DOMAIN before.rules PROVE i < next
  BY <1>1, RuleFacts
<1> QED BY <1>1, <1>2 DEF TranslationInv, RoutesInv

\* A rule that serves its host alone has a route to itself.
OwnsRoute(i) == IsRouteOf(routes[Name(before, i)], before.rules[i], before)

LEMMA AloneOwnsRoute ==
  ASSUME TranslationInv, pc = "done", NEW host, ServedAlone(host), NEW i \in RulesOf(host)
  PROVE  OwnsRoute(i) /\ i \in DOMAIN before.rules /\ Name(before, i) \in DOMAIN routes
<1>1. i \in DOMAIN before.rules
  BY DEF RulesOf
<1>2. \A j \in DOMAIN before.rules : Name(before, j) = Name(before, i) => j = i
  BY DEF ServedAlone
<1> QED BY <1>1, <1>2, RoutesOfRules DEF OwnsRoute

\* The gateway serves a request by the rule of the request's host, if it has
\* the gateway's visibility.
LEMMA ServedByRule ==
  ASSUME TranslationInv, pc = "done", NEW gateway, NEW req,
         ServedAlone(req.host), NoLeftover(req.host)
  PROVE  /\ \A i \in RulesOf(req.host) : before.rules[i].visibility = gateway
              => Serving(gateway, req) = {Name(before, i)}
         /\ (\A i \in RulesOf(req.host) : before.rules[i].visibility # gateway)
              => Serving(gateway, req) = {}
<1>1. ASSUME NEW h \in Serving(gateway, req)
      PROVE  \E i \in RulesOf(req.host) : h = Name(before, i) /\ before.rules[i].visibility = gateway
  <2>1. h \in DOMAIN routes /\ routes[h].gateway = gateway /\ req.host \in Range(routes[h].hostnames)
    BY DEF Serving
  <2>2. PICK k \in DOMAIN before.rules : h = Name(before, k)
    BY <2>1 DEF NoLeftover
  <2>3. PICK i \in DOMAIN before.rules :
          Name(before, i) = h /\ IsRouteOf(routes[h], before.rules[i], before)
    BY <2>2, RoutesOfRules
  <2>4. req.host \in Range(before.rules[i].hosts) /\ before.rules[i].visibility = gateway
    BY <2>1, <2>3 DEF IsRouteOf
  <2> QED BY <2>3, <2>4 DEF RulesOf
<1>2. ASSUME NEW i \in RulesOf(req.host), before.rules[i].visibility = gateway
      PROVE  Serving(gateway, req) = {Name(before, i)}
  <2>1. Name(before, i) \in Serving(gateway, req)
    <3>1. req.host \in Range(before.rules[i].hosts)
      BY DEF RulesOf
    <3> QED BY <1>2, <3>1, AloneOwnsRoute DEF Serving, OwnsRoute, IsRouteOf
  <2>2. ASSUME NEW h \in Serving(gateway, req) PROVE h = Name(before, i)
    <3>1. PICK j \in RulesOf(req.host) : h = Name(before, j)
      BY <1>1
    <3>2. i = j
      BY DEF ServedAlone, RulesOf
    <3> QED BY <3>1, <3>2
  <2> QED BY <2>1, <2>2
<1>3. ASSUME \A i \in RulesOf(req.host) : before.rules[i].visibility # gateway
      PROVE  Serving(gateway, req) = {}
  BY <1>1, <1>3
<1> QED BY <1>2, <1>3

\* The route of a rule has a probe and a route rule for each of its paths, and
\* the probe has one header more.
LEMMA RouteOfRule ==
  ASSUME before \in IngressSpecs, NEW i \in DOMAIN before.rules, OwnsRoute(i), NEW req
  PROVE  LET h  == Name(before, i)
             ps == before.rules[i].paths
             N  == Len(ps)
             Size(n) == HeaderCount(routes[h].rules[n].match)
             Long(n) == Len(routes[h].rules[n].match.path)
         IN  /\ N \in Nat /\ DOMAIN ps = 1..N /\ DOMAIN routes[h].rules = 1..(2 * N)
             /\ \A n \in 1..N :
                  /\ ps[n] \in Paths /\ PathPrefix(ps[n]) \in Seq(Words)
                  /\ "hash" \notin ps[n].headers
                  /\ routes[h].rules[n] = RuleOf(ProbeOf(ps[n], before))
                  /\ routes[h].rules[N + n] = RuleOf(ps[n])
                  /\ n \in Candidates(h, req) <=>
                       /\ IsPrefix(PathPrefix(ps[n]), req.path)
                       /\ ps[n].headers \cup {"hash"} \subseteq req.headers
                  /\ N + n \in Candidates(h, req) <=>
                       /\ IsPrefix(PathPrefix(ps[n]), req.path)
                       /\ ps[n].headers \subseteq req.headers
                  /\ Long(n) = Len(PathPrefix(ps[n])) /\ Long(N + n) = Len(PathPrefix(ps[n]))
                  /\ Size(n) = Cardinality(ps[n].headers) + 1
                  /\ Size(N + n) = Cardinality(ps[n].headers)
                  /\ Len(PathPrefix(ps[n])) \in Nat /\ Cardinality(ps[n].headers) \in Nat
             /\ \A m \in 1..(2 * N) : m \in 1..N \/ \E n \in 1..N : m = N + n
             /\ \A m \in DOMAIN routes[h].rules : Long(m) \in Nat /\ Size(m) \in Nat
<1> DEFINE h  == Name(before, i)
           ps == before.rules[i].paths
           N  == Len(ps)
           rules == routes[h].rules
<1>1. IsRouteOf(routes[h], before.rules[i], before)
  BY DEF OwnsRoute
<1>2. N \in Nat /\ DOMAIN ps = 1..N /\ ps \in Seq(Paths)
  BY <1>1, RuleFacts
<1>3. /\ DOMAIN rules = 1..(2 * N)
      /\ \A n \in 1..N : rules[n] = RuleOf(ProbeOf(ps[n], before)) /\ rules[N + n] = RuleOf(ps[n])
  BY <1>1 DEF IsRouteOf
<1>4. Candidates(h, req) = {m \in DOMAIN rules : Matches(rules[m].match, req)}
  BY DEF Candidates
<1> HIDE DEF ps, N, rules, h
<1>5. \A n \in 1..N : n \in DOMAIN rules /\ N + n \in DOMAIN rules
  BY <1>2, <1>3
<1>6. ASSUME NEW n \in 1..N
      PROVE  /\ ps[n] \in Paths /\ PathPrefix(ps[n]) \in Seq(Words) /\ "hash" \notin ps[n].headers
             /\ rules[n].match = [path |-> PathPrefix(ps[n]), headers |-> ps[n].headers \cup {"hash"}]
             /\ rules[N + n].match = [path |-> PathPrefix(ps[n]), headers |-> ps[n].headers]
             /\ HeaderCount(rules[n].match) = Cardinality(ps[n].headers) + 1
             /\ HeaderCount(rules[N + n].match) = Cardinality(ps[n].headers)
             /\ Len(PathPrefix(ps[n])) \in Nat /\ Cardinality(ps[n].headers) \in Nat
  <2>1. ps[n] \in Paths
    BY <1>2
  <2> QED BY <1>1, <1>3, <2>1, RouteRuleOf, PathPrefixes
<1>7. \A m \in 1..(2 * N) : m \in 1..N \/ \E n \in 1..N : m = N + n
  <2> TAKE m \in 1..(2 * N)
  <2>1. m \in 1..N \/ (m - N \in 1..N /\ m = N + (m - N))
    BY <1>2
  <2> QED BY <2>1
<1>8. ASSUME NEW n \in 1..N
      PROVE  /\ n \in Candidates(h, req) <=>
                  /\ IsPrefix(PathPrefix(ps[n]), req.path)
                  /\ ps[n].headers \cup {"hash"} \subseteq req.headers
             /\ N + n \in Candidates(h, req) <=>
                  /\ IsPrefix(PathPrefix(ps[n]), req.path)
                  /\ ps[n].headers \subseteq req.headers
             /\ Len(rules[n].match.path) = Len(PathPrefix(ps[n]))
             /\ Len(rules[N + n].match.path) = Len(PathPrefix(ps[n]))
  <2> DEFINE a == rules[n].match
             c == rules[N + n].match
             P == PathPrefix(ps[n])
             H == ps[n].headers
  <2>1. a.path = P /\ a.headers = H \cup {"hash"} /\ c.path = P /\ c.headers = H
    <3>1. a = [path |-> P, headers |-> H \cup {"hash"}] /\ c = [path |-> P, headers |-> H]
      BY <1>6
    <3> HIDE DEF a, c, P, H
    <3> QED BY <3>1
  <2>2. /\ n \in Candidates(h, req) <=> Matches(a, req)
        /\ N + n \in Candidates(h, req) <=> Matches(c, req)
    BY <1>4, <1>5
  <2> HIDE DEF a, c, P, H
  <2>3. /\ Matches(a, req) <=> IsPrefix(P, req.path) /\ H \cup {"hash"} \subseteq req.headers
        /\ Matches(c, req) <=> IsPrefix(P, req.path) /\ H \subseteq req.headers
    BY <2>1 DEF Matches
  <2> QED BY <2>1, <2>2, <2>3 DEF a, c, P, H
<1>9. \A m \in DOMAIN rules : Len(rules[m].match.path) \in Nat /\ HeaderCount(rules[m].match) \in Nat
  <2> TAKE m \in DOMAIN rules
  <2>1. CASE m \in 1..N
    <3>1. /\ Len(rules[m].match.path) = Len(PathPrefix(ps[m])) /\ Len(PathPrefix(ps[m])) \in Nat
          /\ HeaderCount(rules[m].match) = Cardinality(ps[m].headers) + 1
          /\ Cardinality(ps[m].headers) \in Nat
      BY <1>6, <1>8, <2>1
    <3> QED BY <3>1
  <2>2. ASSUME NEW n \in 1..N, m = N + n
        PROVE  Len(rules[m].match.path) \in Nat /\ HeaderCount(rules[m].match) \in Nat
    <3>1. Len(rules[N + n].match.path) \in Nat /\ HeaderCount(rules[N + n].match) \in Nat
      BY <1>6, <1>8
    <3> QED BY <2>2, <3>1
  <2> QED BY <1>3, <1>7, <2>1, <2>2
<1> QED BY <1>2, <1>3, <1>6, <1>7, <1>8, <1>9 DEF ps, N, rules, h

\* The answer an Ingress promises, where one rule names the host.
LEMMA PromisedAnswer ==
  ASSUME before \in IngressSpecs, before.httpOption # "Redirected", NEW vis, NEW req,
         ServedAlone(req.host), NEW i \in RulesOf(req.host), before.rules[i].visibility = vis
  PROVE  IngressAnswer(vis, req) =
           IF PathsFor(i, req) = {} THEN NotFound
           ELSE Deliver(RuleOf(before.rules[i].paths[Min(PathsFor(i, req))]))
<1> DEFINE rules == {j \in DOMAIN before.rules : /\ before.rules[j].visibility = vis
                                                /\ req.host \in Range(before.rules[j].hosts)}
           all == before.rules[Min(rules)].paths
<1>0. rules = {j \in RulesOf(req.host) : before.rules[j].visibility = vis}
  BY DEF RulesOf
<1>1. rules = {i}
  <2>1. \A j \in RulesOf(req.host) : j = i
    BY DEF ServedAlone, RulesOf
  <2> HIDE DEF rules
  <2> QED BY <1>0, <2>1
<1> HIDE DEF rules
<1>2. Min(rules) = i
  <2>1. i \in Nat
    BY RuleFacts DEF RulesOf
  <2> QED BY <1>1, <2>1, MinIsLeast
<1>3. all = before.rules[i].paths
  BY <1>2
<1> DEFINE paths == {n \in DOMAIN all : Matches(all[n], req)}
           p == all[Min(paths)]
           host == IF p.rewriteHost = "" THEN NoHeaders
                   ELSE [Host |-> p.rewriteHost, Authority |-> p.rewriteHost]
<1>4. IngressAnswer(vis, req) =
        IF rules = {} THEN NotFound
        ELSE IF before.httpOption = "Redirected" THEN ToHTTPS
        ELSE IF paths = {} THEN NotFound
        ELSE [k \in DOMAIN p.splits |->
                [service |-> p.splits[k].service, weight |-> p.splits[k].percent,
                 headers |-> UnionMaps(p.append, UnionMaps(p.splits[k].append, host))]]
  BY DEF IngressAnswer, rules
<1> HIDE DEF all
<1>5. paths = PathsFor(i, req)
  BY <1>3 DEF PathsFor
<1> HIDE DEF paths
<1>6. p = before.rules[i].paths[Min(PathsFor(i, req))]
  BY <1>3, <1>5
<1> HIDE DEF p
<1>7. Deliver(RuleOf(p)) =
        [k \in DOMAIN p.splits |->
           [service |-> p.splits[k].service, weight |-> p.splits[k].percent,
            headers |-> UnionMaps(p.append, UnionMaps(p.splits[k].append, host))]]
  BY DEF Deliver, RuleOf, Rewrite
<1> QED BY <1>1, <1>4, <1>5, <1>6, <1>7

\* A user's request reaches the route rule of the first path that matches it:
\* no probe of the rule matches, and no later path is more specific.
LEMMA UserReachesFirstPath ==
  ASSUME before \in IngressSpecs, NEW i \in DOMAIN before.rules, OwnsRoute(i),
         MostSpecificFirst(before.rules[i].paths), NEW req \in UserRequests
  PROVE  LET h == Name(before, i)
             N == Len(before.rules[i].paths)
         IN  /\ PathsFor(i, req) \in SUBSET (1..N)
             /\ PathsFor(i, req) = {} => Candidates(h, req) = {}
             /\ PathsFor(i, req) # {} => Wins(h, N + Min(PathsFor(i, req)), req)
<1> DEFINE h  == Name(before, i)
           ps == before.rules[i].paths
           N  == Len(ps)
           S  == PathsFor(i, req)
           Pre(n) == PathPrefix(ps[n])
           Size(n) == HeaderCount(routes[h].rules[n].match)
           Long(n) == Len(routes[h].rules[n].match.path)
<1>1. /\ N \in Nat /\ DOMAIN ps = 1..N /\ DOMAIN routes[h].rules = 1..(2 * N)
      /\ \A m \in 1..(2 * N) : m \in 1..N \/ \E n \in 1..N : m = N + n
      /\ \A n \in 1..N :
           /\ ps[n] \in Paths /\ Pre(n) \in Seq(Words)
           /\ n \in Candidates(h, req) <=>
                IsPrefix(Pre(n), req.path) /\ ps[n].headers \cup {"hash"} \subseteq req.headers
           /\ N + n \in Candidates(h, req) <=>
                IsPrefix(Pre(n), req.path) /\ ps[n].headers \subseteq req.headers
           /\ Long(N + n) = Len(Pre(n)) /\ Size(N + n) = Cardinality(ps[n].headers)
           /\ Len(Pre(n)) \in Nat /\ Cardinality(ps[n].headers) \in Nat
  BY RouteOfRule
<1>2. /\ "hash" \notin req.headers
      /\ req.path \in Seq(Words) /\ Len(req.path) >= 1 /\ req.path[1] = "/"
  BY RequestPaths, HeadersAssumption DEF UserRequests
<1>3. \A m \in Candidates(h, req) : \E n \in 1..N : m = N + n
  <2> TAKE m \in Candidates(h, req)
  <2>1. m \in 1..(2 * N)
    BY <1>1 DEF Candidates
  <2>2. m \notin 1..N
    BY <1>1, <1>2
  <2> QED BY <1>1, <2>1, <2>2
<1>4. S \in SUBSET (1..N) /\ \A n \in 1..N : n \in S <=> N + n \in Candidates(h, req)
  <2>1. \A n \in 1..N : IsPrefix(Pre(n), req.path) <=> IsPrefix(ps[n].path, req.path)
    BY <1>1, <1>2, PathPrefixes
  <2>2. S = {n \in 1..N : IsPrefix(ps[n].path, req.path) /\ ps[n].headers \subseteq req.headers}
    BY <1>1 DEF PathsFor, Matches
  <2> QED BY <1>1, <2>1, <2>2
<1>5. \A n \in 1..N : \A m \in 1..(n - 1) :
        \/ Len(Pre(m)) > Len(Pre(n))
        \/ Pre(m) = Pre(n) /\ Cardinality(ps[m].headers) >= Cardinality(ps[n].headers)
        \/ ~IsPrefix(Pre(m), Pre(n))
  BY <1>1 DEF MostSpecificFirst, HeaderCount
<1> HIDE DEF S, ps, N, h
<1>6. ASSUME S # {} PROVE Wins(h, N + Min(S), req)
  <2> DEFINE b == Min(S)
  <2>1. b \in S /\ b \in 1..N /\ \A n \in S : b <= n
    <3>1. S \in SUBSET Nat
      BY <1>1, <1>4
    <3> QED BY <1>4, <1>6, <3>1, MinIsLeast
  <2> HIDE DEF b
  <2>2. ASSUME NEW m \in Candidates(h, req), m # N + b
        PROVE  Precedes(<<h, N + b>>, <<h, m>>)
    <3>1. PICK n \in 1..N : m = N + n
      BY <1>3
    <3>2. n \in S /\ b <= n
      BY <1>4, <2>1, <2>2, <3>1
    <3>3. N + b < N + n
      BY <1>1, <2>1, <2>2, <3>1, <3>2
    <3>4. \/ Long(N + b) > Long(N + n)
          \/ /\ Long(N + b) = Long(N + n)
             /\ \/ Size(N + b) > Size(N + n)
                \/ Size(N + b) = Size(N + n)
      <4>1. CASE b = n
        BY <4>1
      <4>2. CASE b # n
        <5>1. b \in 1..(n - 1)
          BY <1>1, <2>1, <3>2, <4>2
        <5>2. IsPrefix(Pre(b), req.path) /\ IsPrefix(Pre(n), req.path)
          BY <1>1, <1>4, <2>1, <3>2
        <5>3. Len(Pre(b)) <= Len(Pre(n)) => IsPrefix(Pre(b), Pre(n))
          BY <1>1, <1>2, <2>1, <5>2, PrefixesNest
        <5>4. /\ Len(Pre(b)) \in Nat /\ Len(Pre(n)) \in Nat
              /\ Cardinality(ps[b].headers) \in Nat /\ Cardinality(ps[n].headers) \in Nat
              /\ Long(N + b) = Len(Pre(b)) /\ Long(N + n) = Len(Pre(n))
              /\ Size(N + b) = Cardinality(ps[b].headers)
              /\ Size(N + n) = Cardinality(ps[n].headers)
          BY <1>1, <2>1
        <5>5. \/ Len(Pre(b)) > Len(Pre(n))
              \/ Pre(b) = Pre(n) /\ Cardinality(ps[b].headers) >= Cardinality(ps[n].headers)
          BY <1>5, <5>1, <5>3, <5>4
        <5> HIDE DEF Pre, Long, Size
        <5> QED BY <5>4, <5>5
      <4> QED BY <4>1, <4>2
    <3> QED BY <3>1, <3>3, <3>4 DEF Precedes
  <2>3. N + b \in Candidates(h, req)
    BY <1>4, <2>1
  <2> QED BY <2>2, <2>3 DEF Wins, b
<1>7. S = {} => Candidates(h, req) = {}
  BY <1>3, <1>4
<1> QED BY <1>4, <1>6, <1>7 DEF S, ps, N, h

\* Of a translated Ingress, a user's request for a host that one rule serves, with
\* a route to itself, its more specific paths first and no leftover route beside
\* it, is treated as the Ingress says: the rules of makeHTTPRouteRule, in the
\* gateway's precedence, amount to the first path that matches.  And only a list
\* that is too long makes an Ingress fail.
THEOREM RoutesAreTheIngress == Spec => []RoutesLikeIngress
<1>1. ASSUME TranslationInv PROVE RoutesLikeIngress
  <2> SUFFICES ASSUME pc = "done", before.httpOption # "Redirected",
                      NEW vis \in Visibilities, NEW req \in UserRequests,
                      ServedAlone(req.host), NoLeftover(req.host),
                      \A i \in RulesOf(req.host) : MostSpecificFirst(before.rules[i].paths)
               PROVE  GatewayAnswers(vis, req) = {IngressAnswer(vis, req)}
    BY <1>1 DEF RoutesLikeIngress, TranslationInv, RefusedInv
  <2>0. before \in IngressSpecs
    BY <1>1, RoutesOfRules
  <2>1. CASE \A i \in RulesOf(req.host) : before.rules[i].visibility # vis
    <3>1. Serving(vis, req) = {}
      BY <1>1, <2>1, ServedByRule
    <3>2. GatewayAnswers(vis, req) = {NotFound}
      BY <3>1, NoAnswer
    <3>3. {i \in DOMAIN before.rules : /\ before.rules[i].visibility = vis
                                       /\ req.host \in Range(before.rules[i].hosts)} = {}
      BY <2>1 DEF RulesOf
    <3>4. IngressAnswer(vis, req) = NotFound
      BY <3>3 DEF IngressAnswer
    <3> QED BY <3>2, <3>4
  <2>2. ASSUME NEW i \in RulesOf(req.host), before.rules[i].visibility = vis
        PROVE  GatewayAnswers(vis, req) = {IngressAnswer(vis, req)}
    <3> DEFINE h == Name(before, i)
               ps == before.rules[i].paths
               N == Len(ps)
               S == PathsFor(i, req)
    <3>0. OwnsRoute(i) /\ i \in DOMAIN before.rules
      BY <1>1, AloneOwnsRoute
    <3>1. Serving(vis, req) = {h}
      BY <1>1, <2>2, ServedByRule
    <3>2. IngressAnswer(vis, req) = IF S = {} THEN NotFound ELSE Deliver(RuleOf(ps[Min(S)]))
      BY <2>0, <2>2, PromisedAnswer
    <3>3. /\ S \in SUBSET (1..N)
          /\ S = {} => Candidates(h, req) = {}
          /\ S # {} => Wins(h, N + Min(S), req)
      BY <2>0, <3>0, UserReachesFirstPath
    <3>4. /\ N \in Nat /\ DOMAIN routes[h].rules = 1..(2 * N)
          /\ \A n \in 1..N : routes[h].rules[N + n] = RuleOf(ps[n])
          /\ \A n \in DOMAIN routes[h].rules :
               /\ Len(routes[h].rules[n].match.path) \in Nat
               /\ HeaderCount(routes[h].rules[n].match) \in Nat
      BY <2>0, <3>0, RouteOfRule
    <3> HIDE DEF h, ps, N, S
    <3>5. CASE S = {}
      BY <3>1, <3>2, <3>3, <3>5, NoAnswer
    <3>6. CASE S # {}
      <4>1. Min(S) \in 1..N
        <5>1. S \in SUBSET Nat
          BY <3>3, <3>4
        <5>2. Min(S) \in S
          BY <3>6, <5>1, MinIsLeast
        <5> QED BY <3>3, <5>2
      <4>2. DOMAIN routes[h].rules \in SUBSET Nat
        BY <3>4
      <4> DEFINE b == N + Min(S)
      <4>3. Wins(h, b, req) /\ routes[h].rules[b] = RuleOf(ps[Min(S)])
        BY <3>3, <3>4, <3>6, <4>1
      <4> HIDE DEF b
      <4>4. GatewayAnswers(vis, req) = {Deliver(routes[h].rules[b])}
        <5>1. /\ Serving(vis, req) = {h} /\ Wins(h, b, req)
              /\ \A n \in DOMAIN routes[h].rules :
                   /\ Len(routes[h].rules[n].match.path) \in Nat
                   /\ HeaderCount(routes[h].rules[n].match) \in Nat
          BY <3>1, <3>4, <4>3
        <5> QED BY ONLY <4>2, <5>1, AnswerOfRoute
      <4> QED BY <3>2, <3>6, <4>3, <4>4
    <3> QED BY <3>5, <3>6
  <2> QED BY <2>1, <2>2
<1> QED BY <1>1, TranslationInvariant, PTL

-----------------------------------------------------------------------------
(* Probes. *)

\* getIngressUrls: the port belongs to the gateway of the rule's visibility.
LEMMA TargetOfRule ==
  ASSUME before \in IngressSpecs, Defaulted(before), NEW t \in getIngressUrls(before)
  PROVE  /\ t.rule \in DOMAIN before.rules
         /\ t.host \in Range(before.rules[t.rule].hosts)
         /\ GatewayOfPort[t.port] = before.rules[t.rule].visibility
<1> DEFINE Port(rule) == IF rule.visibility = "ExternalIP"
                         THEN IF before.httpOption = "Redirected" THEN "8443" ELSE "8080"
                         ELSE "8081"
           Target(i, n) == [host |-> before.rules[i].hosts[n], port |-> Port(before.rules[i]),
                            rule |-> i]
<1>1. getIngressUrls(before) =
        UNION {{Target(i, n) : n \in DOMAIN before.rules[i].hosts} : i \in DOMAIN before.rules}
  BY DEF getIngressUrls
<1>2. PICK i \in DOMAIN before.rules : \E n \in DOMAIN before.rules[i].hosts : t = Target(i, n)
  <2> HIDE DEF Target
  <2> QED BY <1>1
<1>3. PICK n \in DOMAIN before.rules[i].hosts : t = Target(i, n)
  BY <1>2
<1>4. t.rule = i /\ t.host = before.rules[i].hosts[n] /\ t.port = Port(before.rules[i])
  BY <1>3
<1>5. before.rules[i].visibility \in {"ExternalIP", "ClusterLocal"}
  BY DEF Defaulted, Visibilities
<1>6. GatewayOfPort[Port(before.rules[i])] = before.rules[i].visibility
  BY <1>5 DEF GatewayOfPort
<1>7. t.host \in Range(before.rules[i].hosts)
  BY <1>4 DEF Range
<1> QED BY <1>4, <1>6, <1>7

\* A request that a probe path has won comes back with the hash from every split,
\* whatever the path and the split append and rewrite.
LEMMA ProbeCarriesHash ==
  ASSUME NEW p \in Paths, NEW spec \in IngressSpecs
  PROVE  LET answer == Deliver(RuleOf(ProbeOf(p, spec)))
         IN  /\ answer # << >>
             /\ \A k \in DOMAIN answer : /\ "hash" \in DOMAIN answer[k].headers
                                         /\ answer[k].headers["hash"] = ComputeHash(spec)
<1> DEFINE q == ProbeOf(p, spec)
           rule == RuleOf(q)
           answer == Deliver(rule)
           hash == [hash |-> ComputeHash(spec)]
<1>1. /\ q.append = UnionMaps(p.append, hash) /\ q.splits = p.splits
      /\ p.splits \in Seq(Splits) \ {<< >>}
  BY DEF ProbeOf, Paths
<1>2. DOMAIN hash = {"hash"} /\ hash["hash"] = ComputeHash(spec)
  OBVIOUS
<1> HIDE DEF hash
<1>3. "hash" \in DOMAIN q.append /\ q.append["hash"] = ComputeHash(spec)
  BY <1>1, <1>2 DEF UnionMaps
<1> HIDE DEF q
<1>4. q.splits \in Seq(Splits) /\ DOMAIN q.splits # {}
  <2>1. q.splits \in Seq(Splits) /\ q.splits # << >>
    BY <1>1
  <2>2. Len(q.splits) \in Nat /\ Len(q.splits) # 0 /\ DOMAIN q.splits = 1..Len(q.splits)
    BY <2>1
  <2>3. 1 \in DOMAIN q.splits
    BY <2>2
  <2> QED BY <2>1, <2>3
<1>5. "hash" \notin DOMAIN Rewrite(q)
  BY DEF Rewrite, NoHeaders
<1>6. ASSUME NEW k \in DOMAIN q.splits
      PROVE  /\ "hash" \in DOMAIN answer[k].headers
             /\ answer[k].headers["hash"] = ComputeHash(spec)
  <2> DEFINE m == UnionMaps(q.splits[k].append, Rewrite(q))
  <2>1. "hash" \notin DOMAIN q.splits[k].append
    <3>1. q.splits[k] \in Splits
      BY <1>4
    <3>2. q.splits[k].append \in HeaderMaps
      BY <3>1 DEF Splits
    <3> QED BY <3>2, HeadersAssumption
  <2>2. "hash" \notin DOMAIN m
    BY <1>5, <2>1 DEF UnionMaps
  <2>3. rule.set = q.append /\ DOMAIN rule.forwardTo = DOMAIN q.splits /\ rule.forwardTo[k].set = m
    BY DEF RuleOf
  <2> HIDE DEF m, rule
  <2>4. answer[k].headers = UnionMaps(q.append, m)
    BY <2>3 DEF Deliver
  <2> QED BY <1>3, <2>2, <2>4 DEF UnionMaps
<1>7. DOMAIN answer = DOMAIN q.splits
  BY DEF Deliver, RuleOf
<1> HIDE DEF answer
<1>8. answer # << >>
  BY <1>4, <1>7
<1> QED BY <1>6, <1>7, <1>8 DEF answer, rule, q

\* Of the route rules that match a probe, a probe path wins: of two that are
\* equally long it is the one with more headers.
LEMMA ProbePathWins ==
  ASSUME before \in IngressSpecs, NEW i \in DOMAIN before.rules, OwnsRoute(i), NEW host
  PROVE  LET h == Name(before, i)
             req == ProbeRequest(host)
         IN  /\ CatchesProbes(before.rules[i]) =>
                  \E b \in 1..Len(before.rules[i].paths) : Wins(h, b, req)
             /\ ~CatchesProbes(before.rules[i]) => Candidates(h, req) = {}
<1> DEFINE h  == Name(before, i)
           ps == before.rules[i].paths
           N  == Len(ps)
           req == ProbeRequest(host)
           Pre(n) == PathPrefix(ps[n])
           Size(n) == HeaderCount(routes[h].rules[n].match)
           Long(n) == Len(routes[h].rules[n].match.path)
           C == {n \in 1..N : IsPrefix(Pre(n), ProbePath) /\ ps[n].headers = {}}
<1>0. req.path = ProbePath /\ req.headers = {"hash"}
  BY DEF ProbeRequest
<1> HIDE DEF req
<1>1. /\ N \in Nat /\ DOMAIN ps = 1..N /\ DOMAIN routes[h].rules = 1..(2 * N)
      /\ \A m \in 1..(2 * N) : m \in 1..N \/ \E n \in 1..N : m = N + n
      /\ \A n \in 1..N :
           /\ ps[n] \in Paths /\ Pre(n) \in Seq(Words) /\ "hash" \notin ps[n].headers
           /\ n \in Candidates(h, req) <=>
                IsPrefix(Pre(n), req.path) /\ ps[n].headers \cup {"hash"} \subseteq req.headers
           /\ N + n \in Candidates(h, req) <=>
                IsPrefix(Pre(n), req.path) /\ ps[n].headers \subseteq req.headers
           /\ Long(n) = Len(Pre(n)) /\ Size(n) = Cardinality(ps[n].headers) + 1
           /\ Long(N + n) = Len(Pre(n)) /\ Size(N + n) = Cardinality(ps[n].headers)
           /\ Len(Pre(n)) \in Nat
  BY RouteOfRule
<1>2. \A n \in 1..N : /\ n \in Candidates(h, req) <=> n \in C
                      /\ N + n \in Candidates(h, req) <=> n \in C
  BY <1>0, <1>1
<1>3. CatchesProbes(before.rules[i]) <=> C # {}
  BY <1>1 DEF CatchesProbes
<1>4. \A n \in C : /\ n \in 1..N /\ Long(n) = Len(Pre(n)) /\ Size(n) = 1
                   /\ Long(N + n) = Len(Pre(n)) /\ Size(N + n) = 0 /\ Len(Pre(n)) \in 0..2
  <2> TAKE n \in C
  <2>1. n \in 1..N /\ ps[n].headers = {} /\ IsPrefix(Pre(n), ProbePath)
    OBVIOUS
  <2>2. Cardinality(ps[n].headers) = 0
    BY <2>1, FS_EmptySet
  <2>3. Len(Pre(n)) <= 2
    BY <2>1, RequestPaths DEF IsPrefix
  <2>4. /\ Long(n) = Len(Pre(n)) /\ Size(n) = Cardinality(ps[n].headers) + 1
        /\ Long(N + n) = Len(Pre(n)) /\ Size(N + n) = Cardinality(ps[n].headers)
        /\ Len(Pre(n)) \in Nat
    BY <1>1, <2>1
  <2> HIDE DEF Pre, Long, Size, C, ps, N
  <2> QED BY <2>1, <2>2, <2>3, <2>4
<1> HIDE DEF C, ps, N, h, Pre, Long, Size
<1>5. \A m \in Candidates(h, req) : m \in C \/ \E n \in C : m = N + n
  <2> TAKE m \in Candidates(h, req)
  <2>1. m \in 1..(2 * N)
    BY <1>1 DEF Candidates
  <2> QED BY <1>1, <1>2, <2>1
<1>6. ASSUME C # {} PROVE \E b \in 1..N : Wins(h, b, req)
  <2> DEFINE V == {2 - Len(Pre(n)) : n \in C}
             L == {n \in C : 2 - Len(Pre(n)) = Min(V)}
             b == Min(L)
  <2>1. V \in SUBSET Nat /\ V # {}
    <3>1. \A n \in C : 2 - Len(Pre(n)) \in Nat
      <4> TAKE n \in C
      <4>1. Len(Pre(n)) \in 0..2
        BY <1>4
      <4>2. \A x \in 0..2 : 2 - x \in Nat
        OBVIOUS
      <4> QED BY <4>1, <4>2
    <3> QED BY <1>6, <3>1
  <2>2. Min(V) \in V /\ \A v \in V : Min(V) <= v
    <3> HIDE DEF V
    <3> QED BY <2>1, MinIsLeast
  <2>3. L \in SUBSET Nat /\ L # {}
    <3>1. \A n \in C : n \in Nat
      BY <1>1, <1>4
    <3>2. PICK n \in C : 2 - Len(Pre(n)) = Min(V)
      <4>1. Min(V) \in V
        BY <2>2
      <4> DEFINE v == Min(V)
      <4> HIDE DEF v
      <4>2. v \in {2 - Len(Pre(n)) : n \in C}
        BY <4>1 DEF v
      <4> QED BY <4>2 DEF v
    <3> HIDE DEF V
    <3> QED BY <3>1, <3>2
  <2>4. b \in L /\ \A n \in L : b <= n
    <3> HIDE DEF L
    <3> QED BY <2>3, MinIsLeast
  <2>5. b \in C /\ 2 - Len(Pre(b)) = Min(V)
    <3> HIDE DEF b
    <3> QED BY <2>4
  <2>6. ASSUME NEW n \in C PROVE /\ Len(Pre(b)) >= Len(Pre(n))
                                 /\ Len(Pre(b)) = Len(Pre(n)) => b <= n
    <3>1. Min(V) <= 2 - Len(Pre(n))
      BY <2>2
    <3>2. Len(Pre(b)) \in 0..2 /\ Len(Pre(n)) \in 0..2
      BY <1>4, <2>5
    <3>3. Len(Pre(b)) >= Len(Pre(n))
      <4> HIDE DEF V, L, b
      <4> QED BY <2>5, <3>1, <3>2
    <3>4. Len(Pre(b)) = Len(Pre(n)) => n \in L
      <4> HIDE DEF V, b
      <4> QED BY <2>5
    <3> QED BY <2>4, <3>3, <3>4
  <2> HIDE DEF V, L, b
  <2>7. ASSUME NEW m \in Candidates(h, req), m # b PROVE Precedes(<<h, b>>, <<h, m>>)
    <3>1. CASE m \in C
      <4>1. \/ Long(b) > Long(m)
            \/ Long(b) = Long(m) /\ Size(b) = Size(m) /\ b < m
        <5>1. Long(b) = Len(Pre(b)) /\ Long(m) = Len(Pre(m)) /\ Size(b) = 1 /\ Size(m) = 1
              /\ Len(Pre(b)) \in 0..2 /\ Len(Pre(m)) \in 0..2
          BY <1>4, <2>5, <3>1
        <5>2. b \in Nat /\ m \in Nat
          BY <1>1, <1>4, <2>5, <3>1
        <5> QED BY <2>6, <2>7, <3>1, <5>1, <5>2
      <4> QED BY <4>1 DEF Precedes, Long, Size
    <3>2. ASSUME NEW n \in C, m = N + n PROVE Precedes(<<h, b>>, <<h, m>>)
      <4>1. \/ Long(b) > Long(N + n)
            \/ Long(b) = Long(N + n) /\ Size(b) > Size(N + n)
        <5>1. Long(b) = Len(Pre(b)) /\ Long(N + n) = Len(Pre(n)) /\ Size(b) = 1 /\ Size(N + n) = 0
              /\ Len(Pre(b)) \in 0..2 /\ Len(Pre(n)) \in 0..2
          BY <1>4, <2>5
        <5> QED BY <2>6, <5>1
      <4> QED BY <3>2, <4>1 DEF Precedes, Long, Size
    <3> QED BY <1>5, <3>1, <3>2
  <2>8. b \in Candidates(h, req) /\ b \in 1..N
    BY <1>2, <1>4, <2>5
  <2> QED BY <2>7, <2>8 DEF Wins
<1>7. C = {} => Candidates(h, req) = {}
  BY <1>5
<1> QED BY <1>3, <1>6, <1>7 DEF h, ps, N, req

\* A probe for a host that one rule serves, with a route to itself and no leftover
\* route beside it, reaches that route through the gateway of its port and comes
\* back with the hash of the copy the prober was given, whatever headers are
\* appended and in whatever order the paths are: InsertProbe's path wins against
\* all paths of the user, and nothing overwrites its header.
THEOREM ProbesReachTheirRule == Spec => []ProbeVerifiesRule
<1>1. ASSUME TranslationInv PROVE ProbeVerifiesRule
  <2> SUFFICES ASSUME pc = "done", NEW t \in getIngressUrls(before),
                      ServedAlone(t.host), NoLeftover(t.host),
                      NEW answer \in GatewayAnswers(GatewayOfPort[t.port], ProbeRequest(t.host))
               PROVE  IF CatchesProbes(before.rules[t.rule])
                      THEN answer # NotFound /\ \A k \in DOMAIN answer :
                             "hash" \in DOMAIN answer[k].headers
                               /\ answer[k].headers["hash"] = ComputeHash(before)
                      ELSE answer = NotFound
    BY DEF ProbeVerifiesRule
  <2> DEFINE i == t.rule
             gateway == GatewayOfPort[t.port]
             req == ProbeRequest(t.host)
             h == Name(before, i)
             ps == before.rules[i].paths
             N == Len(ps)
  <2>1. before \in IngressSpecs /\ Defaulted(before)
    BY <1>1, RoutesOfRules
  <2>2. /\ i \in DOMAIN before.rules /\ req.host \in Range(before.rules[i].hosts)
        /\ before.rules[i].visibility = gateway
    BY <2>1, TargetOfRule DEF ProbeRequest
  <2>3. i \in RulesOf(req.host) /\ req.host = t.host
    BY <2>2 DEF RulesOf, ProbeRequest
  <2>8. OwnsRoute(i) /\ Serving(gateway, req) = {h}
    BY <1>1, <2>2, <2>3, AloneOwnsRoute, ServedByRule
  <2>4. /\ CatchesProbes(before.rules[i]) => \E b \in 1..N : Wins(h, b, req)
        /\ ~CatchesProbes(before.rules[i]) => Candidates(h, req) = {}
    BY <2>1, <2>2, <2>8, ProbePathWins
  <2>5. /\ N \in Nat /\ DOMAIN routes[h].rules = 1..(2 * N)
        /\ \A n \in 1..N : ps[n] \in Paths /\ routes[h].rules[n] = RuleOf(ProbeOf(ps[n], before))
        /\ \A n \in DOMAIN routes[h].rules :
             /\ Len(routes[h].rules[n].match.path) \in Nat
             /\ HeaderCount(routes[h].rules[n].match) \in Nat
    BY <2>1, <2>2, <2>8, RouteOfRule
  <2> HIDE DEF gateway, req, h, ps, N
  <2>6. ASSUME CatchesProbes(before.rules[i])
        PROVE  answer # NotFound /\ \A k \in DOMAIN answer :
                 "hash" \in DOMAIN answer[k].headers
                   /\ answer[k].headers["hash"] = ComputeHash(before)
    <3>1. PICK b \in 1..N : Wins(h, b, req)
      BY <2>4, <2>6
    <3>2. DOMAIN routes[h].rules \in SUBSET Nat
      BY <2>5
    <3>3. answer = Deliver(routes[h].rules[b])
      <4>1. GatewayAnswers(gateway, req) = {Deliver(routes[h].rules[b])}
        BY <2>5, <2>8, <3>1, <3>2, AnswerOfRoute
      <4> QED BY <4>1 DEF gateway, req
    <3>4. answer = Deliver(RuleOf(ProbeOf(ps[b], before))) /\ ps[b] \in Paths
      BY <2>5, <3>3
    <3> QED BY <2>1, <3>4, ProbeCarriesHash DEF NotFound
  <2>7. ASSUME ~CatchesProbes(before.rules[i]) PROVE answer = NotFound
    <3>1. GatewayAnswers(gateway, req) = {NotFound}
      BY <2>4, <2>7, <2>8, NoAnswer
    <3> QED BY <3>1 DEF gateway, req
  <2> QED BY <2>6, <2>7
<1> QED BY <1>1, TranslationInvariant, PTL

=============================================================================
