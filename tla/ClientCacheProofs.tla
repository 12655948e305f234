------------------------- MODULE ClientCacheProofs -------------------------
(***************************************************************************)
(* What holds of the generated client code for any objects, labels,        *)
(* set-ups and numbers of writes and expiring watches: what listers show,  *)
(* after which calls the fake answers like the server, and that a cache    *)
(* implements VersionLog.                                                  *)
(***************************************************************************)
EXTENDS ClientCache, FiniteSetTheorems, SequenceTheorems, WellFoundedInduction, TLAPS

-----------------------------------------------------------------------------
(* Sets of positions.  Induction over numbers is done with least elements. *)

\* Every set of numbers has a least element.
LEMMA LeastNumber ==
  ASSUME NEW T, T \subseteq Nat, T # {}
  PROVE  \E m \in T : \A k \in T : m <= k
<1>1. PICK m \in T : \A k \in T : ~(<<k, m>> \in OpToRel(<, Nat))
  BY NatLessThanWellFounded, WFMin
<1>2. \A k \in T : ~(k < m)
  BY <1>1 DEF OpToRel
<1> QED BY <1>2

\* A set of numbers that has a and, with every number from a on, the next one,
\* has all numbers from a on.
LEMMA CountUp ==
  ASSUME NEW a \in Nat, NEW b \in Nat, NEW S, a \in S,
         \A n \in a..(b - 1) : n \in S => n + 1 \in S
  PROVE  a..b \subseteq S
<1> DEFINE T == {n \in a..b : n \notin S}
<1> SUFFICES ASSUME T # {} PROVE FALSE
  OBVIOUS
<1>0. T \subseteq Nat
  OBVIOUS
<1>1. PICK m \in T : \A k \in T : m <= k
  <2> HIDE DEF T
  <2> QED BY <1>0, LeastNumber
<1>2. m # a /\ m - 1 \in a..(b - 1)
  OBVIOUS
<1>3. m - 1 \in S
  BY <1>1, <1>2
<1> QED BY <1>2, <1>3

\* How many of the positions are at or before p.
LEMMA RankType ==
  ASSUME NEW a \in Nat, NEW b \in Nat, NEW C \in SUBSET (a..b), NEW p
  PROVE  /\ IsFiniteSet(C) /\ IsFiniteSet({q \in C : q <= p})
         /\ Cardinality(C) \in Nat
         /\ Rank(C, p) \in 0..Cardinality(C)
<1>1. IsFiniteSet(C)
  <2>1. a \in Int /\ b \in Int
    OBVIOUS
  <2>2. IsFiniteSet(a..b)
    BY <2>1, FS_Interval
  <2> QED BY <2>2, FS_Subset
<1>2. {q \in C : q <= p} \subseteq C
  OBVIOUS
<1> QED BY <1>1, <1>2, FS_Subset, FS_CardinalityType DEF Rank

\* Ranks grow with the positions.
LEMMA RankGrows ==
  ASSUME NEW a \in Nat, NEW b \in Nat, NEW C \in SUBSET (a..b), NEW p \in Nat, NEW q \in Nat
  PROVE  /\ p <= q => Rank(C, p) <= Rank(C, q)
         /\ p < q /\ q \in C => Rank(C, p) < Rank(C, q)
<1> DEFINE P == {r \in C : r <= p}
           Q == {r \in C : r <= q}
<1>1. IsFiniteSet(Q) /\ IsFiniteSet(P)
  BY RankType
<1>0. \A r \in C : r \in Nat
  OBVIOUS
<1>2. ASSUME p <= q PROVE P \subseteq Q
  <2>1. \A r \in C : r <= p => r <= q
    BY <1>0, <1>2
  <2> QED BY <2>1
<1>3. ASSUME p < q, q \in C PROVE q \in Q /\ q \notin P
  BY <1>3
<1>4. Cardinality(P) \in Nat /\ Cardinality(Q) \in Nat
  BY <1>1, FS_CardinalityType
<1>5. ASSUME P \subseteq Q PROVE Cardinality(P) <= Cardinality(Q)
  BY <1>5, <1>1, FS_Subset
<1>6. ASSUME P \subseteq Q, P # Q PROVE Cardinality(P) < Cardinality(Q)
  <2>1. \A X \in SUBSET Q : Cardinality(X) <= Cardinality(Q)
                              /\ (Cardinality(X) = Cardinality(Q) => X = Q)
    BY <1>1, FS_Subset
  <2>2. P \in SUBSET Q
    BY <1>6
  <2> HIDE DEF P, Q
  <2> QED BY <1>4, <1>6, <2>1, <2>2
<1> HIDE DEF P, Q
<1>7. p < q /\ q \in C => Cardinality(P) < Cardinality(Q)
  BY <1>2, <1>3, <1>6
<1> QED BY <1>2, <1>5, <1>7 DEF Rank, P, Q

\* Every rank up to the number of positions is that of exactly one position.
LEMMA RankIsOnto ==
  ASSUME NEW a \in Nat, NEW b \in Nat, NEW C \in SUBSET (a..b), NEW n \in 1..Cardinality(C)
  PROVE  \E p \in C : Rank(C, p) = n
<1> DEFINE S == {i \in Nat : i > Cardinality(C) \/ \E p \in C : Rank(C, p) = i}
           Low(p) == {q \in C : q <= p}
<1>0. Cardinality(C) \in Nat /\ IsFiniteSet(C)
  BY RankType
<1>1. ASSUME NEW D \in SUBSET C, IsFiniteSet(D), Cardinality(D) < Cardinality(C),
             \A q \in C : q \in D \/ \A r \in D : r < q
      PROVE  \E p \in C : Rank(C, p) = Cardinality(D) + 1
  <2>1. C \ D # {}
    <3> SUFFICES ASSUME C \ D = {} PROVE FALSE
      OBVIOUS
    <3>1. C = D
      OBVIOUS
    <3> QED BY <1>0, <1>1, <3>1
  <2>2. PICK p \in C \ D : \A q \in C \ D : p <= q
    <3>1. C \ D \subseteq Nat
      OBVIOUS
    <3> QED BY <2>1, <3>1, LeastNumber
  <2>3. Low(p) = D \cup {p}
    <3>1. \A q \in C : q \in Nat
      OBVIOUS
    <3>2. ASSUME NEW q \in C, q <= p, q \notin D PROVE q = p
      BY <2>2, <3>1, <3>2
    <3>3. \A q \in D : q <= p
      BY <1>1, <2>2, <3>1
    <3> QED BY <2>2, <3>1, <3>2, <3>3
  <2>4. Cardinality(D \cup {p}) = Cardinality(D) + 1
    BY <1>1, <2>2, FS_AddElement
  <2> QED BY <2>3, <2>4 DEF Rank
<1>2. 1 \in S
  <2>1. Cardinality({}) = 0 /\ IsFiniteSet({})
    BY FS_EmptySet
  <2> QED BY <1>0, <1>1, <2>1
<1>3. ASSUME NEW i \in 1..(Cardinality(C) - 1), i \in S PROVE i + 1 \in S
  <2>1. PICK p \in C : Rank(C, p) = i
    BY <1>0, <1>3
  <2>2. Low(p) \in SUBSET C /\ IsFiniteSet(Low(p)) /\ Cardinality(Low(p)) = i
    BY <2>1, RankType DEF Rank
  <2>3. \A q \in C : q \in Low(p) \/ \A r \in Low(p) : r < q
    OBVIOUS
  <2> HIDE DEF Low
  <2> QED BY <1>0, <1>1, <2>2, <2>3
<1>4. 1..Cardinality(C) \subseteq S
  <2> HIDE DEF S
  <2> QED BY <1>0, <1>2, <1>3, CountUp
<1> QED BY <1>0, <1>4

\* The position of a rank.
At(C, n) == CHOOSE p \in C : Rank(C, p) = n

\* At and Rank are inverses of each other.
LEMMA AtRank ==
  ASSUME NEW a \in Nat, NEW b \in Nat, NEW C \in SUBSET (a..b)
  PROVE  /\ \A n \in 1..Cardinality(C) : At(C, n) \in C /\ Rank(C, At(C, n)) = n
         /\ \A p \in C : Rank(C, p) \in 1..Cardinality(C)
         /\ \A p \in C : At(C, Rank(C, p)) = p
<1>1. ASSUME NEW n \in 1..Cardinality(C)
      PROVE  At(C, n) \in C /\ Rank(C, At(C, n)) = n
  BY RankIsOnto DEF At
<1>2. ASSUME NEW p \in C PROVE Rank(C, p) \in 1..Cardinality(C)
  <2>1. {q \in C : q <= p} # {} /\ IsFiniteSet({q \in C : q <= p})
    <3>1. p <= p
      OBVIOUS
    <3> QED BY <3>1, RankType
  <2>2. Rank(C, p) # 0
    BY <2>1, FS_EmptySet DEF Rank
  <2>3. Rank(C, p) \in 0..Cardinality(C) /\ Cardinality(C) \in Nat
    BY RankType
  <2> QED BY <2>2, <2>3
<1>3. ASSUME NEW p \in C, NEW q \in C, Rank(C, p) = Rank(C, q) PROVE p = q
  <2>1. p \in Nat /\ q \in Nat
    OBVIOUS
  <2>2. Rank(C, p) \in Nat /\ Rank(C, q) \in Nat
    BY <1>2
  <2>3. (p < q => Rank(C, p) < Rank(C, q)) /\ (q < p => Rank(C, q) < Rank(C, p))
    BY <2>1, RankGrows
  <2> QED BY <1>3, <2>1, <2>2, <2>3
<1>4. ASSUME NEW p \in C PROVE At(C, Rank(C, p)) = p
  BY <1>1, <1>2, <1>3, <1>4
<1> QED BY <1>1, <1>2, <1>4

-----------------------------------------------------------------------------
(* Logs of versions.                                                       *)

\* A log has the value of each change, in order.
LEMMA VersionsAre ==
  ASSUME NEW a \in Nat, NEW b \in Nat, a <= b, NEW shown
  PROVE  LET C == ChangesFrom(shown, a, b)
             V == VersionsFrom(shown, a, b)
         IN  /\ C \in SUBSET (a..b) /\ a \in C
             /\ Cardinality(C) \in Nat \ {0}
             /\ V = [n \in 1..Cardinality(C) |-> shown[At(C, n)]]
             /\ \A S : (\A p \in a..b : shown[p] \in S) => V \in Seq(S)
             /\ Len(V) = Cardinality(C)
<1> DEFINE C == ChangesFrom(shown, a, b)
           V == VersionsFrom(shown, a, b)
<1>1. C \in SUBSET (a..b) /\ a \in C
  BY DEF ChangesFrom
<1>2. Cardinality(C) \in Nat \ {0}
  <2>1. IsFiniteSet(C) /\ Cardinality(C) \in Nat
    BY <1>1, RankType
  <2> HIDE DEF C
  <2> QED BY <1>1, <2>1, FS_EmptySet
<1>3. V = [n \in 1..Cardinality(C) |-> shown[At(C, n)]]
  BY DEF VersionsFrom, At
<1> HIDE DEF C, V
<1>4. \A n \in 1..Cardinality(C) : At(C, n) \in a..b
  BY <1>1, AtRank
<1>5. ASSUME NEW S, \A p \in a..b : shown[p] \in S PROVE V \in Seq(S)
  BY <1>2, <1>3, <1>4, <1>5
<1>6. Len(V) = Cardinality(C)
  BY <1>2, <1>3
<1> QED BY <1>1, <1>2, <1>3, <1>5, <1>6 DEF C, V

\* Between two changes the shown value stays the same.
LEMMA NoChange ==
  ASSUME NEW p \in Nat, NEW q \in Nat, NEW shown,
         \A r \in (p + 1)..q : shown[r] = shown[r - 1]
  PROVE  \A r \in p..q : shown[r] = shown[p]
<1> DEFINE S == {r \in Nat : shown[r] = shown[p]}
<1>1. \A n \in p..(q - 1) : n \in S => n + 1 \in S
  <2> SUFFICES ASSUME NEW n \in p..(q - 1), n \in S PROVE n + 1 \in S
    OBVIOUS
  <2>1. n + 1 \in (p + 1)..q /\ (n + 1) - 1 = n
    OBVIOUS
  <2> QED BY <2>1
<1>2. p..q \subseteq S
  <2> HIDE DEF S
  <2>1. p \in S
    BY DEF S
  <2> QED BY <1>1, <2>1, CountUp
<1> QED BY <1>2

\* A change at a later position goes to the end of the log.
LEMMA LogGrows ==
  ASSUME NEW a \in Nat, NEW b \in Nat, a <= b, NEW c \in Nat, b <= c,
         NEW old, NEW new, \A p \in a..b : new[p] = old[p],
         NEW d, \A p \in (b + 1)..c : p # d => new[p] = new[p - 1]
  PROVE  \/ VersionsFrom(new, a, c) = VersionsFrom(old, a, b)
         \/ Cache!Write(VersionsFrom(old, a, b), VersionsFrom(new, a, c))
<1> DEFINE C == ChangesFrom(old, a, b)
           D == ChangesFrom(new, a, c)
           V == VersionsFrom(old, a, b)
           W == VersionsFrom(new, a, c)
<1>1. /\ C \in SUBSET (a..b)
      /\ Cardinality(C) \in Nat
      /\ V = [n \in 1..Cardinality(C) |-> old[At(C, n)]]
      /\ Len(V) = Cardinality(C)
  BY VersionsAre
<1>2. /\ D \in SUBSET (a..c)
      /\ Cardinality(D) \in Nat
      /\ W = [n \in 1..Cardinality(D) |-> new[At(D, n)]]
      /\ Len(W) = Cardinality(D)
  <2>1. a <= c
    OBVIOUS
  <2> QED BY <2>1, VersionsAre
<1>3. \A p \in a..b : p \in C <=> p \in D
  BY DEF ChangesFrom
<1>4. \A p \in D : p \in C \/ (p = d /\ d \in (b + 1)..c)
  BY <1>3 DEF ChangesFrom
<1> HIDE DEF C, D, V, W
<1>5. CASE D = C
  <2>1. \A n \in 1..Cardinality(C) : At(C, n) \in a..b
    BY <1>1, AtRank
  <2>2. V = W
    BY <1>1, <1>2, <1>5, <2>1
  <2> QED BY <2>2 DEF V, W
<1>6. CASE D # C
  <2>1. C \subseteq D
    BY <1>1, <1>3
  <2>2. D = C \cup {d} /\ d \in (b + 1)..c /\ d \notin C
    BY <1>1, <1>4, <1>6, <2>1
  <2>3. IsFiniteSet(C)
    BY <1>1, RankType
  <2>4. Cardinality(D) = Cardinality(C) + 1
    BY <2>2, <2>3, FS_AddElement
  <2>5. ASSUME NEW n \in 1..Cardinality(C) PROVE At(D, n) = At(C, n) /\ At(C, n) \in a..b
    <3>1. At(C, n) \in C /\ Rank(C, At(C, n)) = n
      BY <1>1, AtRank
    <3>2. {q \in D : q <= At(C, n)} = {q \in C : q <= At(C, n)}
      <4>1. At(C, n) \in a..b
        BY <1>1, <3>1
      <4>2. ~(d <= At(C, n))
        BY <2>2, <4>1
      <4> QED BY <2>2, <4>2
    <3>3. Rank(D, At(C, n)) = n
      BY <3>1, <3>2 DEF Rank
    <3>4. At(D, Rank(D, At(C, n))) = At(C, n)
      <4>1. At(C, n) \in D
        BY <2>1, <3>1
      <4> QED BY <1>2, <4>1, AtRank
    <3> QED BY <1>1, <3>1, <3>3, <3>4
  <2>6. \A n \in 1..Cardinality(C) : W[n] = V[n]
    BY <1>1, <1>2, <2>4, <2>5
  <2>7. SubSeq(W, 1, Len(V)) = V
    <3>1. SubSeq(W, 1, Len(V)) = [n \in 1..Cardinality(C) |-> W[n]]
      BY <1>1, <1>2, <2>4
    <3> QED BY <1>1, <2>6, <3>1
  <2>8. Cache!Write(V, W)
    BY <1>1, <1>2, <2>4, <2>7 DEF Cache!Write
  <2> QED BY <2>8 DEF V, W
<1> QED BY <1>5, <1>6

\* Starting the log at a later position drops its first versions.
LEMMA LogShrinks ==
  ASSUME NEW a \in Nat, NEW b \in Nat, NEW c \in a..b, NEW shown
  PROVE  \/ VersionsFrom(shown, c, b) = VersionsFrom(shown, a, b)
         \/ Cache!Deliver(VersionsFrom(shown, a, b), VersionsFrom(shown, c, b))
<1> DEFINE C == ChangesFrom(shown, a, b)
           D == ChangesFrom(shown, c, b)
           V == VersionsFrom(shown, a, b)
           W == VersionsFrom(shown, c, b)
           Low == {q \in C : q <= c}
           m == Rank(C, c)
<1>0. c \in Nat /\ a <= c /\ c <= b
  OBVIOUS
<1>1. /\ C \in SUBSET (a..b) /\ a \in C
      /\ Cardinality(C) \in Nat
      /\ V = [n \in 1..Cardinality(C) |-> shown[At(C, n)]]
      /\ Len(V) = Cardinality(C)
  BY VersionsAre
<1>2. /\ D \in SUBSET (c..b) /\ c \in D
      /\ Cardinality(D) \in Nat
      /\ W = [n \in 1..Cardinality(D) |-> shown[At(D, n)]]
      /\ Len(W) = Cardinality(D)
  BY VersionsAre
<1>3. \A p \in (c + 1)..b : p \in C <=> p \in D
  BY DEF ChangesFrom
<1>4. \A p \in a..b : p \notin C => shown[p] = shown[p - 1]
  BY DEF ChangesFrom
<1> HIDE DEF C, D, V, W
<1>5. m \in 1..Cardinality(C)
  <2>1. Rank(C, a) \in 1..Cardinality(C)
    BY <1>1, AtRank
  <2>2. Rank(C, a) <= m
    BY <1>0, <1>1, RankGrows
  <2>3. m \in 0..Cardinality(C)
    BY <1>1, RankType
  <2> QED BY <1>1, <2>1, <2>2, <2>3
<1>6. shown[At(C, m)] = shown[c]
  <2> DEFINE p == At(C, m)
  <2>1. p \in C /\ Rank(C, p) = m
    BY <1>1, <1>5, AtRank
  <2> HIDE DEF p
  <2>2. p \in Nat /\ p \in a..b
    BY <1>1, <2>1
  <2>3. p <= c
    <3>1. c < p => Rank(C, c) < Rank(C, p)
      BY <1>0, <1>1, <2>1, <2>2, RankGrows
    <3> QED BY <1>5, <2>1, <2>2, <3>1
  <2>4. ASSUME NEW r \in (p + 1)..c PROVE shown[r] = shown[r - 1]
    <3>1. r \in Nat /\ r \in a..b /\ p < r /\ r <= c
      BY <2>2
    <3>2. r \in C => Rank(C, p) < Rank(C, r)
      BY <1>1, <2>2, <3>1, RankGrows
    <3>3. Rank(C, r) <= m
      BY <1>0, <1>1, <3>1, RankGrows
    <3>4. Rank(C, r) \in Nat
      <4>1. Rank(C, r) \in 0..Cardinality(C)
        BY <1>1, RankType
      <4> QED BY <1>1, <4>1
    <3> QED BY <1>4, <1>5, <2>1, <3>1, <3>2, <3>3, <3>4
  <2>5. \A r \in p..c : shown[r] = shown[p]
    <3> HIDE DEF p
    <3>1. \A r \in (p + 1)..c : shown[r] = shown[r - 1]
      BY <2>4
    <3> QED BY <1>0, <2>2, <3>1, NoChange
  <2> QED BY <2>2, <2>3, <2>5 DEF p
\* Ranks after c, in both logs.
<1>7. ASSUME NEW q \in Nat, c <= q
      PROVE  Rank(D, q) = Rank(C, q) - m + 1
  <2> DEFINE M == {r \in C : c < r /\ r <= q}
             E == {r \in D : r <= q}
             F == {r \in C : r <= q}
  <2>1. F = Low \cup M /\ Low \cap M = {}
    <3>1. \A r \in C : r \in Nat
      BY <1>1
    <3> QED BY <1>7, <3>1
  <2>2. E = M \cup {c} /\ c \notin M
    <3>1. (\A r \in C : r \in Nat /\ r \in a..b) /\ (\A r \in D : r \in Nat /\ r \in c..b)
      BY <1>1, <1>2
    <3>2. \A r \in Nat : c < r => (r \in C <=> r \in D)
      BY <1>3, <3>1
    <3>3. \A r \in D : r = c \/ c < r
      BY <3>1
    <3>4. ASSUME NEW r \in E PROVE r \in M \cup {c}
      BY <3>1, <3>2, <3>3
    <3>5. ASSUME NEW r \in M PROVE r \in E
      BY <3>1, <3>2
    <3>6. c \in E /\ c \notin M
      BY <1>0, <1>2, <1>7
    <3> HIDE DEF E, M
    <3> QED BY <3>4, <3>5, <3>6
  <2>3. IsFiniteSet(C) /\ IsFiniteSet(Low) /\ IsFiniteSet(F)
    BY <1>1, RankType
  <2>4. IsFiniteSet(M)
    <3>1. M \subseteq C
      OBVIOUS
    <3> QED BY <2>3, <3>1, FS_Subset
  <2> HIDE DEF M, E, F
  <2>5. Cardinality(F) = Cardinality(Low) + Cardinality(M) - Cardinality(Low \cap M)
    <3> HIDE DEF Low
    <3> QED BY <2>1, <2>3, <2>4, FS_Union
  <2>6. Cardinality(Low \cap M) = 0
    BY <2>1, FS_EmptySet
  <2>7. Cardinality(E) = Cardinality(M) + 1
    BY <2>2, <2>4, FS_AddElement
  <2>8. Cardinality(M) \in Nat /\ Cardinality(Low) \in Nat /\ Cardinality(F) \in Nat
    <3> HIDE DEF Low
    <3> QED BY <2>3, <2>4, FS_CardinalityType
  <2>9. Rank(D, q) = Cardinality(E) /\ Rank(C, q) = Cardinality(F) /\ m = Cardinality(Low)
    BY DEF Rank, E, F
  <2> HIDE DEF Low, m
  <2> QED BY <2>5, <2>6, <2>7, <2>8, <2>9
<1>8. Cardinality(D) = Cardinality(C) - m + 1
  <2>1. {r \in C : r <= b} = C /\ {r \in D : r <= b} = D
    <3>1. (\A r \in C : r <= b) /\ (\A r \in D : r <= b)
      BY <1>1, <1>2
    <3> QED BY <3>1
  <2>2. Rank(C, b) = Cardinality(C) /\ Rank(D, b) = Cardinality(D)
    BY <2>1 DEF Rank
  <2> QED BY <1>7, <2>2
<1>9. ASSUME NEW n \in 1..Cardinality(D) PROVE W[n] = V[n + m - 1]
  <2> DEFINE q == At(D, n)
  <2>1. q \in D /\ Rank(D, q) = n
    BY <1>0, <1>2, AtRank
  <2>2. n + m - 1 \in 1..Cardinality(C)
    BY <1>1, <1>2, <1>5, <1>8
  <2> HIDE DEF q
  <2>3. CASE q = c
    <3>1. n = 1
      BY <1>1, <1>5, <1>7, <2>1, <2>3
    <3> QED BY <1>1, <1>2, <1>5, <1>6, <2>2, <2>3, <3>1 DEF q
  <2>4. CASE q # c
    <3>1. q \in Nat /\ c <= q /\ q \in (c + 1)..b
      BY <1>2, <2>1, <2>4
    <3>2. q \in C
      BY <1>3, <2>1, <3>1
    <3>3. Rank(C, q) \in 1..Cardinality(C) /\ At(C, Rank(C, q)) = q
      BY <1>1, <3>2, AtRank
    <3>4. n = Rank(C, q) - m + 1
      BY <1>7, <2>1, <3>1
    <3>5. n + m - 1 = Rank(C, q)
      BY <1>1, <1>5, <3>3, <3>4
    <3>6. At(C, n + m - 1) = q
      BY <3>3, <3>5
    <3> QED BY <1>1, <1>2, <2>2, <3>6 DEF q
  <2> QED BY <2>3, <2>4
<1> HIDE DEF m
<1>10. W = [n \in 1..Cardinality(D) |-> V[n + m - 1]]
  BY <1>2, <1>9
<1>11. W = SubSeq(V, m, Len(V))
  <2>1. Len(V) - m + 1 = Cardinality(D)
    BY <1>1, <1>5, <1>8
  <2>2. SubSeq(V, m, Len(V)) = [n \in 1..(Len(V) - m + 1) |-> V[n + m - 1]]
    BY <1>1, <1>5
  <2> QED BY <1>10, <2>1, <2>2
<1>12. CASE m = 1
  <2>1. Cardinality(D) = Cardinality(C)
    BY <1>1, <1>8, <1>12
  <2>2. \A n \in 1..Cardinality(C) : n + m - 1 = n
    BY <1>1, <1>12
  <2>3. W = [n \in 1..Cardinality(C) |-> V[n]]
    BY <1>10, <2>1, <2>2
  <2>4. W = V
    BY <1>1, <2>3
  <2> QED BY <2>4 DEF V, W
<1>13. CASE m # 1
  <2>1. Cache!Deliver(V, W)
    BY <1>1, <1>5, <1>11, <1>13 DEF Cache!Deliver
  <2> QED BY <2>1 DEF V, W
<1> QED BY <1>12, <1>13

-----------------------------------------------------------------------------
(* The generated code: every kind has the instance of each template that   *)
(* its resource and its scope ask for.                                     *)

\* The namespace is part of a request exactly for namespaced kinds.
Scope(k) == IF Namespaced(k) THEN {"namespace"} ELSE {}

\* The typed client of a kind.
LEMMA ClientOfKind ==
  ASSUME NEW k \in Kinds
  PROVE  NetworkingV1alpha1[k] = TypedClient(Plural[k], Scope(k))
<1>1. CASE k = "BackendPolicy"
  BY <1>1 DEF NetworkingV1alpha1, BackendPolicies, Plural, Scope, Namespaced
<1>2. CASE k = "Gateway"
  BY <1>2 DEF NetworkingV1alpha1, Gateways, Plural, Scope, Namespaced
<1>3. CASE k = "GatewayClass"
  BY <1>3 DEF NetworkingV1alpha1, GatewayClasses, Plural, Scope, Namespaced
<1>4. CASE k = "HTTPRoute"
  BY <1>4 DEF NetworkingV1alpha1, HTTPRoutes, Plural, Scope, Namespaced
<1>5. CASE k = "TCPRoute"
  BY <1>5 DEF NetworkingV1alpha1, TCPRoutes, Plural, Scope, Namespaced
<1>6. CASE k = "TLSRoute"
  BY <1>6 DEF NetworkingV1alpha1, TLSRoutes, Plural, Scope, Namespaced
<1>7. CASE k = "UDPRoute"
  BY <1>7 DEF NetworkingV1alpha1, UDPRoutes, Plural, Scope, Namespaced
<1> QED BY <1>1, <1>2, <1>3, <1>4, <1>5, <1>6, <1>7 DEF Kinds

\* The fake client of a kind.
LEMMA FakeOfKind ==
  ASSUME NEW k \in Kinds
  PROVE  FakeNetworkingV1alpha1[k] = FakeClient(Plural[k], Scope(k))
<1>1. CASE k = "BackendPolicy"
  BY <1>1 DEF FakeNetworkingV1alpha1, FakeBackendPolicies, Plural, Scope, Namespaced
<1>2. CASE k = "Gateway"
  BY <1>2 DEF FakeNetworkingV1alpha1, FakeGateways, Plural, Scope, Namespaced
<1>3. CASE k = "GatewayClass"
  BY <1>3 DEF FakeNetworkingV1alpha1, FakeGatewayClasses, Plural, Scope, Namespaced
<1>4. CASE k = "HTTPRoute"
  BY <1>4 DEF FakeNetworkingV1alpha1, FakeHTTPRoutes, Plural, Scope, Namespaced
<1>5. CASE k = "TCPRoute"
  BY <1>5 DEF FakeNetworkingV1alpha1, FakeTCPRoutes, Plural, Scope, Namespaced
<1>6. CASE k = "TLSRoute"
  BY <1>6 DEF FakeNetworkingV1alpha1, FakeTLSRoutes, Plural, Scope, Namespaced
<1>7. CASE k = "UDPRoute"
  BY <1>7 DEF FakeNetworkingV1alpha1, FakeUDPRoutes, Plural, Scope, Namespaced
<1> QED BY <1>1, <1>2, <1>3, <1>4, <1>5, <1>6, <1>7 DEF Kinds

\* The informer of a kind: cluster-scoped kinds are listed in all namespaces.
KindInformer(f, k) ==
  NewFilteredInformer(k, TypedClient(Plural[k], Scope(k)),
                      IF Namespaced(k) THEN f.namespace ELSE "", f.selector)

\* The informer a factory's accessor hands out.
LEMMA InformerOfKind ==
  ASSUME NEW k \in Kinds, NEW f
  PROVE  V1alpha1(f)[k] = KindInformer(f, k)
<1>0. NetworkingV1alpha1[k] = TypedClient(Plural[k], Scope(k))
  BY ClientOfKind
<1>1. CASE k = "BackendPolicy"
  BY <1>0, <1>1 DEF V1alpha1, BackendPolicyInformer, KindInformer, Namespaced
<1>2. CASE k = "Gateway"
  BY <1>0, <1>2 DEF V1alpha1, GatewayInformer, KindInformer, Namespaced
<1>3. CASE k = "GatewayClass"
  BY <1>0, <1>3 DEF V1alpha1, GatewayClassInformer, KindInformer, Namespaced
<1>4. CASE k = "HTTPRoute"
  BY <1>0, <1>4 DEF V1alpha1, HTTPRouteInformer, KindInformer, Namespaced
<1>5. CASE k = "TCPRoute"
  BY <1>0, <1>5 DEF V1alpha1, TCPRouteInformer, KindInformer, Namespaced
<1>6. CASE k = "TLSRoute"
  BY <1>0, <1>6 DEF V1alpha1, TLSRouteInformer, KindInformer, Namespaced
<1>7. CASE k = "UDPRoute"
  BY <1>0, <1>7 DEF V1alpha1, UDPRouteInformer, KindInformer, Namespaced
<1> QED BY <1>1, <1>2, <1>3, <1>4, <1>5, <1>6, <1>7 DEF Kinds

\* The informer a factory hands out for a resource is that of its kind.
LEMMA ResourceOfKind ==
  ASSUME NEW k \in Kinds, NEW f
  PROVE  ForResource(f, Plural[k]) = V1alpha1(f)[k]
<1>1. CASE k = "BackendPolicy"
  BY <1>1 DEF ForResource, Plural, V1alpha1
<1>2. CASE k = "Gateway"
  BY <1>2 DEF ForResource, Plural, V1alpha1
<1>3. CASE k = "GatewayClass"
  BY <1>3 DEF ForResource, Plural, V1alpha1
<1>4. CASE k = "HTTPRoute"
  BY <1>4 DEF ForResource, Plural, V1alpha1
<1>5. CASE k = "TCPRoute"
  BY <1>5 DEF ForResource, Plural, V1alpha1
<1>6. CASE k = "TLSRoute"
  BY <1>6 DEF ForResource, Plural, V1alpha1
<1>7. CASE k = "UDPRoute"
  BY <1>7 DEF ForResource, Plural, V1alpha1
<1> QED BY <1>1, <1>2, <1>3, <1>4, <1>5, <1>6, <1>7 DEF Kinds

\* The informer injection passes on is that of the factory.
LEMMA InjectedOfKind ==
  ASSUME NEW k \in Kinds, NEW f
  PROVE  Injected(f)[k] = V1alpha1(f)[k]
<1>1. CASE k = "BackendPolicy"
  BY <1>1 DEF Injected, withBackendPolicyInformer, V1alpha1
<1>2. CASE k = "Gateway"
  BY <1>2 DEF Injected, withGatewayInformer, V1alpha1
<1>3. CASE k = "GatewayClass"
  BY <1>3 DEF Injected, withGatewayClassInformer, V1alpha1
<1>4. CASE k = "HTTPRoute"
  BY <1>4 DEF Injected, withHTTPRouteInformer, V1alpha1
<1>5. CASE k = "TCPRoute"
  BY <1>5 DEF Injected, withTCPRouteInformer, V1alpha1
<1>6. CASE k = "TLSRoute"
  BY <1>6 DEF Injected, withTLSRouteInformer, V1alpha1
<1>7. CASE k = "UDPRoute"
  BY <1>7 DEF Injected, withUDPRouteInformer, V1alpha1
<1> QED BY <1>1, <1>2, <1>3, <1>4, <1>5, <1>6, <1>7 DEF Kinds

\* With filtered factories, there is one for each.
LEMMA FilteredOfKind ==
  ASSUME NEW k \in Kinds, NEW fs
  PROVE  InjectedFiltered(fs)[k] = [i \in DOMAIN fs |-> V1alpha1(fs[i])[k]]
<1>1. CASE k = "BackendPolicy"
  BY <1>1 DEF InjectedFiltered, withFilteredBackendPolicyInformers, V1alpha1
<1>2. CASE k = "Gateway"
  BY <1>2 DEF InjectedFiltered, withFilteredGatewayInformers, V1alpha1
<1>3. CASE k = "GatewayClass"
  BY <1>3 DEF InjectedFiltered, withFilteredGatewayClassInformers, V1alpha1
<1>4. CASE k = "HTTPRoute"
  BY <1>4 DEF InjectedFiltered, withFilteredHTTPRouteInformers, V1alpha1
<1>5. CASE k = "TCPRoute"
  BY <1>5 DEF InjectedFiltered, withFilteredTCPRouteInformers, V1alpha1
<1>6. CASE k = "TLSRoute"
  BY <1>6 DEF InjectedFiltered, withFilteredTLSRouteInformers, V1alpha1
<1>7. CASE k = "UDPRoute"
  BY <1>7 DEF InjectedFiltered, withFilteredUDPRouteInformers, V1alpha1
<1> QED BY <1>1, <1>2, <1>3, <1>4, <1>5, <1>6, <1>7 DEF Kinds

\* The lister of a kind.
LEMMA ListerOfKind ==
  ASSUME NEW k \in Kinds, NEW store, NEW ns, NEW name
  PROVE  Lister(k, store, ns, name) =
           IF Namespaced(k) THEN NamespaceLister(store, ns, name) ELSE ClusterLister(store, name)
<1>1. CASE k = "BackendPolicy"
  BY <1>1 DEF Lister, BackendPolicyLister, Namespaced
<1>2. CASE k = "Gateway"
  BY <1>2 DEF Lister, GatewayLister, Namespaced
<1>3. CASE k = "GatewayClass"
  BY <1>3 DEF Lister, GatewayClassLister, Namespaced
<1>4. CASE k = "HTTPRoute"
  BY <1>4 DEF Lister, HTTPRouteLister, Namespaced
<1>5. CASE k = "TCPRoute"
  BY <1>5 DEF Lister, TCPRouteLister, Namespaced
<1>6. CASE k = "TLSRoute"
  BY <1>6 DEF Lister, TLSRouteLister, Namespaced
<1>7. CASE k = "UDPRoute"
  BY <1>7 DEF Lister, UDPRouteLister, Namespaced
<1> QED BY <1>1, <1>2, <1>3, <1>4, <1>5, <1>6, <1>7 DEF Kinds

-----------------------------------------------------------------------------
(* The inductive invariant.                                                *)

\* The namespace, and the informer of the factory for selector s.
ScopeNamespace == IF Namespaced(kind) THEN setup.scope ELSE ""

InformerDef(s) ==
  NewFilteredInformer(kind, TypedClient(Plural[kind], Scope(kind)), ScopeNamespace, s)

SetupOK ==
  /\ setup.kind \in Kinds
  /\ setup.mode \in {"injection", "factory", "fake"}
  /\ setup.selectors \in Seq({""} \cup Labels)
  /\ Len(setup.selectors) >= 1

\* Stores of the server, and what a version changes of the one before it.
Stores ==
  {s \in [Ids -> Objects(Ids) \cup {None}] :
     \A id \in Ids : s[id] # None => s[id].id = id}

DifferInOne(s, t) ==
  \E id \in Ids : /\ s[id] # t[id]
                  /\ \A j \in Ids : j # id => s[j] = t[j]

ServerOK ==
  /\ server \in Seq(Stores)
  /\ Len(server) >= 1
  /\ \A p \in 1..(Len(server) - 1) : DifferInOne(server[p], server[p + 1])

\* The objects of version p that the informer of selector s is to show, and
\* that it shows them.
Visible(s, p) == {id \in Ids : InScope(server[p][id], ScopeNamespace, s)}

ShowsVersion(store, s, p) ==
  /\ DOMAIN store = {MetaNamespaceKey(id) : id \in Visible(s, p)}
  /\ \A id \in Visible(s, p) : store[MetaNamespaceKey(id)] = server[p][id]

\* The informer at ref lists and watches what its factory asks for, has one
\* reflector once it is started, which is where its store is, and the store of
\* a synced informer is a version of the server's.
InformerOK(ref, inf) ==
  /\ ref[1] \in Range(setup.selectors) /\ ref = <<ref[1], kind>>
  /\ inf \in [def : {InformerDef(ref[1])}, store : {inf.store}, at : 1..Len(server),
             synced : BOOLEAN, started : BOOLEAN,
             reflectors : Seq([phase : {"list", "watch"}, pos : {inf.at}]),
             expiries : {inf.expiries}]
  /\ Len(inf.reflectors) = IF inf.started THEN 1 ELSE 0
  /\ ~inf.started => inf.at = 1
  /\ inf.synced => ShowsVersion(inf.store, ref[1], inf.at)

InformersOK == \A ref \in DOMAIN informers : InformerOK(ref, informers[ref])

\* A thread reads informers that exist; they are started before it waits, and
\* synced when it goes on.  An injected informer is started once.
ThreadOK(t, th) ==
  /\ setup.mode # "fake" /\ (setup.mode = "injection" => t = "main")
  /\ th \in [pc : {"init", "waiting", "ready",
                   IF setup.mode = "injection" THEN "injected" ELSE "requested"},
             reads : SUBSET DOMAIN informers]
  /\ th.pc \in {"waiting", "ready"} => \A ref \in th.reads : informers[ref].started
  /\ th.pc = "ready" => \A ref \in th.reads : informers[ref].synced
  /\ setup.mode = "injection" /\ th.pc = "init" => DOMAIN informers = {}
  /\ th.pc = "injected" => \A ref \in DOMAIN informers : ~informers[ref].started

ThreadsOK == \A t \in DOMAIN threads : ThreadOK(t, threads[t])

\* Informers and threads are in order when there is one selector to inject.
CacheInv == SetupOK /\ ServerOK /\ OneSelector /\ InformersOK /\ ThreadsOK

\* The tracker of the fake files its objects under pairs, and holds the latest
\* of the objects that are alike.
TrackerKeys == \A key \in DOMAIN tracker : key = <<key[1], key[2]>>

AlikeAt(id) ==
  /\ <<Plural[kind], id>> \in DOMAIN tracker <=> Latest[id] # None
  /\ Latest[id] # None => tracker[<<Plural[kind], id>>] = Content(Latest[id])

TrackerOK ==
  /\ TrackerKeys
  /\ alike \subseteq Ids /\ (setup.mode # "fake" => alike = {})
  /\ \A id \in alike : AlikeAt(id)

\* What does not change while the set-up stays.
LEMMA SetupStays ==
  ASSUME SetupOK, setup' = setup
  PROVE  /\ kind' = kind /\ Ids' = Ids /\ Stores' = Stores /\ SetupOK'
         /\ ScopeNamespace' = ScopeNamespace /\ OneSelector' = OneSelector
         /\ \A s : InformerDef(s)' = InformerDef(s)
<1>1. kind' = kind /\ SetupOK'
  BY DEF kind, SetupOK
<1>2. Ids' = Ids
  BY DEF Ids, kind
<1>3. Stores' = Stores
  BY <1>2 DEF Stores
<1>4. ScopeNamespace' = ScopeNamespace
  BY DEF ScopeNamespace, kind
<1>5. OneSelector' = OneSelector
  BY DEF OneSelector
<1>6. \A s : InformerDef(s)' = InformerDef(s)
  BY <1>1, <1>4 DEF InformerDef
<1> QED BY <1>1, <1>2, <1>3, <1>4, <1>5, <1>6

\* Ids are pairs, and no two have the same key in a store.
LEMMA IdsArePairs ==
  ASSUME SetupOK, NEW id \in Ids
  PROVE  /\ id = <<id[1], id[2]>>
         /\ Namespaced(kind) <=> id[1] # ""
         /\ IsFiniteSet(Ids)
<1>1. CASE Namespaced(kind)
  <2>1. id \in NamespacedIds /\ IsFiniteSet(Ids)
    BY <1>1, IdsAssumption DEF Ids
  <2> QED BY <1>1, <2>1, IdsAssumption
<1>2. CASE ~Namespaced(kind)
  <2>1. id \in ClusterIds /\ IsFiniteSet(Ids)
    BY <1>2, IdsAssumption DEF Ids
  <2>2. PICK name : id = <<"", name>>
    BY <2>1, IdsAssumption
  <2> QED BY <1>2, <2>1, <2>2
<1> QED BY <1>1, <1>2

LEMMA KeysDiffer ==
  ASSUME SetupOK, NEW id \in Ids, NEW j \in Ids, MetaNamespaceKey(id) = MetaNamespaceKey(j)
  PROVE  id = j
<1>1. id = <<id[1], id[2]>> /\ j = <<j[1], j[2]>> /\ (id[1] # "" <=> j[1] # "")
  BY IdsArePairs
<1>2. CASE id[1] = ""
  BY <1>1, <1>2 DEF MetaNamespaceKey
<1>3. CASE id[1] # ""
  BY <1>1, <1>3 DEF MetaNamespaceKey
<1> QED BY <1>2, <1>3

\* None is no object.
LEMMA NoneIsNoObject == None \notin Objects(Ids)
BY NoneAssumption DEF Ids

\* Requests for the kind's resource, in a namespace if it has them, reach it.
LEMMA RequestsReach ==
  ASSUME SetupOK, NEW req, req.resource = Plural[kind],
         "namespace" \in req.parts <=> Namespaced(kind)
  PROVE  Answers(req) /\ Reaches(req)
<1>1. kind \in Kinds
  BY DEF SetupOK, kind
<1>2. ("namespace" \in req.parts) = Namespaced(kind)
  BY DEF Namespaced
<1> QED BY <1>1, <1>2 DEF Answers, Reaches

Methods == {"Get", "List", "Watch", "Create", "Update", "UpdateStatus", "Delete",
            "DeleteCollection", "Patch"}

\* Every method of the kind's typed client reaches the server's store.
LEMMA MethodsReach ==
  ASSUME SetupOK, NEW m \in Methods
  PROVE  Reaches(NetworkingV1alpha1[kind][m])
<1> DEFINE client == TypedClient(Plural[kind], Scope(kind))
<1>1. kind \in Kinds
  BY DEF SetupOK, kind
<1>2. NetworkingV1alpha1[kind] = client
  BY <1>1, ClientOfKind
<1>3. client[m].resource = Plural[kind]
  BY DEF TypedClient, Methods
<1>4. "namespace" \in client[m].parts <=> Namespaced(kind)
  BY DEF TypedClient, Methods, Scope
<1> QED BY <1>2, <1>3, <1>4, RequestsReach

-----------------------------------------------------------------------------
(* Calls.                                                                  *)

\* A call adds versions to the server's history, and changes no object twice.
Grows ==
  /\ setup' = setup /\ informers' = informers /\ threads' = threads
  /\ Len(server') >= Len(server)
  /\ \A p \in 1..Len(server) : server'[p] = server[p]
  /\ \A id \in Ids : \E d : \A p \in (Len(server) + 1)..Len(server') :
       p # d => server'[p][id] = server'[p - 1][id]

\* The store after a call that stores obj, or nothing, at id, as a new version.
LEMMA StoreNew ==
  ASSUME SetupOK, ServerOK, setup' = setup, informers' = informers, threads' = threads,
         NEW id \in Ids, NEW obj \in Objects(Ids) \cup {None},
         obj # None => obj.id = id,
         obj # None /\ obj # Latest[id] =>
           \/ Latest[id] = None
           \/ obj.spec # Latest[id].spec
           \/ obj.status # Latest[id].status
           \/ obj.label # Latest[id].label,
         obj # Latest[id], server' = server \o Stored(id, obj)
  PROVE  /\ Grows /\ ServerOK'
         /\ Latest' = [Latest EXCEPT ![id] =
                         IF obj = None THEN None ELSE [obj EXCEPT !.rv = Len(server) + 1]]
<1> DEFINE new  == IF obj = None THEN None ELSE [obj EXCEPT !.rv = Len(server) + 1]
           next == [Latest EXCEPT ![id] = new]
           n    == Len(server)
<1>1. /\ server \in Seq(Stores) /\ n \in Nat \ {0} /\ Latest = server[n]
      /\ \A p \in 1..(n - 1) : DifferInOne(server[p], server[p + 1])
  BY ONLY ServerOK DEF ServerOK, Latest, Last
<1>2. Latest \in Stores
  BY <1>1
<1>3. /\ new \in Objects(Ids) \cup {None} /\ (new # None => new.id = id)
      /\ new # None => obj # None /\ new.spec = obj.spec /\ new.status = obj.status
                       /\ new.label = obj.label
      /\ new = None => obj = None
  BY <1>1, NoneIsNoObject DEF Objects
<1> HIDE DEF new
<1>4. next \in Stores
  BY <1>2, <1>3 DEF Stores
<1>5. DifferInOne(Latest, next)
  <2>1. next[id] = new /\ \A j \in Ids : j # id => next[j] = Latest[j]
    BY <1>2 DEF Stores
  <2>2. Latest[id] # new
    BY <1>3
  <2> QED BY <2>1, <2>2 DEF DifferInOne
<1>6. Stored(id, obj) = <<next>>
  BY DEF Stored, new
<1> HIDE DEF next
<1>7. /\ server' \in Seq(Stores) /\ Len(server') = n + 1
      /\ \A p \in 1..n : server'[p] = server[p]
      /\ server'[n + 1] = next
  BY <1>1, <1>4, <1>6
<1>8. Ids' = Ids /\ Stores' = Stores
  BY SetupStays
<1>9. \A p \in 1..((n + 1) - 1) : DifferInOne(server'[p], server'[p + 1])
  <2>0. (n + 1) - 1 = n
    BY <1>1
  <2> SUFFICES ASSUME NEW p \in 1..n PROVE DifferInOne(server'[p], server'[p + 1])
    BY <2>0
  <2>1. CASE p = n
    BY <1>1, <1>5, <1>7, <2>1
  <2>2. CASE p # n
    <3>1. p \in 1..(n - 1) /\ p + 1 \in 1..n
      BY <1>1, <2>2
    <3> QED BY <1>1, <1>7, <3>1
  <2> QED BY <2>1, <2>2
<1>10. ServerOK'
  <2>1. Len(server') >= 1
    BY <1>1, <1>7
  <2>2. \A p \in 1..(Len(server') - 1) : DifferInOne(server[p], server[p + 1])'
    <3> SUFFICES ASSUME NEW p \in 1..(Len(server') - 1) PROVE DifferInOne(server[p], server[p + 1])'
      OBVIOUS
    <3>1. DifferInOne(server'[p], server'[p + 1])
      BY <1>7, <1>9
    <3> QED BY <1>8, <3>1 DEF DifferInOne
  <2> QED BY <1>7, <1>8, <2>1, <2>2 DEF ServerOK
<1>11. Latest' = next
  BY <1>7 DEF Latest, Last
<1>12. Grows
  BY <1>1, <1>7 DEF Grows
<1> QED BY <1>10, <1>11, <1>12 DEF next, new

\* A call that reaches the server and is refused changes nothing there.
LEMMA StoreNone ==
  ASSUME SetupOK, ServerOK, setup' = setup, informers' = informers, threads' = threads,
         server' = server \o << >>
  PROVE  Grows /\ ServerOK' /\ Latest' = Latest
<1>1. server' = server /\ Len(server) \in Nat
  BY DEF ServerOK
<1>2. Ids' = Ids /\ Stores' = Stores
  BY SetupStays
<1>3. ServerOK' /\ Latest' = Latest
  BY <1>1, <1>2 DEF ServerOK, Latest, DifferInOne
<1>4. \A p \in (Len(server) + 1)..Len(server') : FALSE
  BY <1>1
<1> QED BY <1>1, <1>3, <1>4 DEF Grows

\* The store after a call that stores obj, or nothing, at id.
StoredAt(id, obj) ==
  /\ \A j \in Ids : j # id => Latest'[j] = Latest[j]
  /\ Latest'[id] = None <=> obj = None
  /\ obj # None => Content(Latest'[id]) = Content(obj)

LEMMA StoreOne ==
  ASSUME SetupOK, ServerOK, setup' = setup, informers' = informers, threads' = threads,
         NEW id \in Ids, NEW obj \in Objects(Ids) \cup {None},
         obj # None => obj.id = id,
         obj # None /\ obj # Latest[id] =>
           \/ Latest[id] = None
           \/ obj.spec # Latest[id].spec
           \/ obj.status # Latest[id].status
           \/ obj.label # Latest[id].label,
         server' = server \o Stored(id, obj)
  PROVE  Grows /\ ServerOK' /\ StoredAt(id, obj)
<1>1. CASE obj = Latest[id]
  <2>1. server' = server \o << >>
    BY <1>1 DEF Stored
  <2> QED BY <1>1, <2>1, StoreNone DEF StoredAt
<1>2. CASE obj # Latest[id]
  <2> DEFINE new == IF obj = None THEN None ELSE [obj EXCEPT !.rv = Len(server) + 1]
  <2>1. Grows /\ ServerOK' /\ Latest' = [Latest EXCEPT ![id] = new]
    BY <1>2, StoreNew
  <2>2. DOMAIN Latest = Ids
    BY DEF ServerOK, Latest, Last, Stores
  <2>3. obj # None => new \in Objects(Ids) /\ Content(new) = Content(obj)
    <3>1. Len(server) + 1 \in Nat
      BY DEF ServerOK
    <3> QED BY <3>1 DEF Objects, Content
  <2>4. new = None <=> obj = None
    BY <2>3, NoneIsNoObject
  <2> HIDE DEF new
  <2> QED BY <2>1, <2>2, <2>3, <2>4 DEF StoredAt
<1> QED BY <1>1, <1>2

\* SetToSeq lists a finite set without repetitions.
LEMMA SetToSeqIs ==
  ASSUME NEW S, IsFiniteSet(S)
  PROVE  /\ Cardinality(S) \in Nat
         /\ SetToSeq(S) \in [1..Cardinality(S) -> S]
         /\ \A m, n \in 1..Cardinality(S) : SetToSeq(S)[m] = SetToSeq(S)[n] => m = n
<1>1. Cardinality(S) \in Nat /\ \E f : f \in Bijection(1..Cardinality(S), S)
  BY FS_CardinalityType DEF ExistsBijection
<1>2. \E f \in [1..Cardinality(S) -> S] : IsInjective(f)
  BY <1>1 DEF Bijection, Injection
<1>3. SetToSeq(S) \in [1..Cardinality(S) -> S] /\ IsInjective(SetToSeq(S))
  BY <1>2 DEF SetToSeq
<1> QED BY <1>1, <1>3 DEF IsInjective

\* The stores after a call that deletes objects one after the other.
LEMMA StoreDeleted ==
  ASSUME SetupOK, ServerOK, setup' = setup, informers' = informers, threads' = threads,
         NEW doomed \in SUBSET Ids, \A id \in doomed : Latest[id] # None,
         NEW order, order = SetToSeq(doomed),
         server' = server \o [n \in 1..Len(order) |->
                                [id \in Ids |-> IF \E m \in 1..n : order[m] = id
                                                THEN None ELSE Latest[id]]]
  PROVE  /\ Grows /\ ServerOK'
         /\ \A id \in Ids \ doomed : Latest'[id] = Latest[id]
<1> DEFINE After(n) == [id \in Ids |-> IF \E m \in 1..n : order[m] = id
                                       THEN None ELSE Latest[id]]
           stores == [n \in 1..Len(order) |-> After(n)]
           l == Len(server)
           k == Cardinality(doomed)
<1>1. /\ server \in Seq(Stores) /\ l \in Nat \ {0} /\ Latest = server[l]
      /\ \A p \in 1..(l - 1) : DifferInOne(server[p], server[p + 1])
  BY DEF ServerOK, Latest, Last
<1>2. Latest \in Stores
  BY <1>1
<1>3. /\ k \in Nat /\ order \in [1..k -> doomed] /\ Len(order) = k
      /\ \A m, n \in 1..k : order[m] = order[n] => m = n
  <2>1. IsFiniteSet(doomed)
    <3>1. CASE Ids = {}
      BY <3>1, FS_EmptySet
    <3>2. CASE Ids # {}
      BY <3>2, IdsArePairs, FS_Subset
    <3> QED BY <3>1, <3>2
  <2>2. k \in Nat /\ order \in [1..k -> doomed]
    BY <2>1, SetToSeqIs
  <2> QED BY <2>1, <2>2, SetToSeqIs
<1>4. ASSUME NEW n \in 0..k PROVE After(n) \in Stores
  BY <1>2 DEF Stores
<1>5. After(0) = Latest
  BY <1>2 DEF Stores
<1>6. ASSUME NEW n \in 1..k
      PROVE  /\ \A j \in Ids : j # order[n] => After(n)[j] = After(n - 1)[j]
             /\ After(n)[order[n]] # After(n - 1)[order[n]]
  <2>1. order[n] \in doomed /\ order[n] \in Ids
    BY <1>3
  <2>2. \A j \in Ids : j # order[n] =>
          ((\E m \in 1..n : order[m] = j) <=> (\E m \in 1..(n - 1) : order[m] = j))
    BY <1>3
  <2>3. ~(\E m \in 1..(n - 1) : order[m] = order[n])
    BY <1>3
  <2>4. After(n)[order[n]] = None
    BY <2>1
  <2>5. After(n - 1)[order[n]] = Latest[order[n]]
    BY <2>1, <2>3
  <2> QED BY <2>1, <2>2, <2>4, <2>5
<1> HIDE DEF After
<1>7. stores \in Seq(Stores) /\ Len(stores) = k /\ \A n \in 1..k : stores[n] = After(n)
  BY <1>3, <1>4
<1>8. server' = server \o stores
  BY DEF After
<1> HIDE DEF stores
<1>9. /\ server' \in Seq(Stores) /\ Len(server') = l + k
      /\ \A p \in 1..l : server'[p] = server[p]
      /\ \A p \in (l + 1)..(l + k) : server'[p] = After(p - l)
  <2>1. /\ server' \in Seq(Stores) /\ Len(server') = l + k
        /\ \A p \in 1..(l + k) : server'[p] = IF p <= l THEN server[p] ELSE stores[p - l]
    <3>1. /\ server \o stores \in Seq(Stores)
          /\ Len(server \o stores) = l + Len(stores)
          /\ \A p \in 1..(l + Len(stores)) :
               (server \o stores)[p] = IF p <= l THEN server[p] ELSE stores[p - l]
      BY <1>1, <1>7, ConcatProperties
    <3> QED BY <1>7, <1>8, <3>1
  <2>2. \A p \in 1..l : server'[p] = server[p]
    BY <1>1, <1>3, <2>1
  <2>3. ASSUME NEW p \in (l + 1)..(l + k) PROVE server'[p] = After(p - l)
    <3>1. server'[p] = stores[p - l]
      <4>1. p \in 1..(l + k) /\ ~(p <= l)
        BY <1>1, <1>3
      <4> QED BY <2>1, <4>1
    <3>2. p - l \in 1..k
      BY <1>1, <1>3
    <3> QED BY <1>7, <3>1, <3>2
  <2> QED BY <2>1, <2>2, <2>3
<1>10. \A p \in l..(l + k) : server'[p] = After(p - l)
  <2> SUFFICES ASSUME NEW p \in l..(l + k) PROVE server'[p] = After(p - l)
    OBVIOUS
  <2>1. CASE p = l
    <3>1. p - l = 0 /\ l \in 1..l
      BY <1>1, <2>1
    <3>2. server'[p] = Latest
      BY <1>1, <1>9, <2>1, <3>1
    <3> QED BY <1>5, <3>1, <3>2
  <2>2. CASE p # l
    <3>1. p \in (l + 1)..(l + k)
      BY <1>1, <1>3, <2>2
    <3> QED BY <1>9, <3>1
  <2> QED BY <2>1, <2>2
<1>11. Ids' = Ids /\ Stores' = Stores
  BY SetupStays
<1>12. ASSUME NEW p \in 1..((l + k) - 1) PROVE DifferInOne(server'[p], server'[p + 1])
  <2>1. CASE p < l
    <3>1. p \in 1..(l - 1) /\ p \in 1..l /\ p + 1 \in 1..l
      BY <1>1, <2>1
    <3> QED BY <1>1, <1>9, <3>1
  <2>2. CASE p >= l
    <3>0. (p + 1) - l \in 1..k /\ ((p + 1) - l) - 1 = p - l
      BY <1>1, <1>3, <2>2
    <3>1. PICK n \in 1..k : n = (p + 1) - l /\ n - 1 = p - l
      BY <3>0
    <3>2. p \in l..(l + k) /\ p + 1 \in l..(l + k)
      BY <1>1, <1>3, <2>2
    <3>3. server'[p] = After(n - 1) /\ server'[p + 1] = After(n)
      BY <1>10, <3>1, <3>2
    <3>4. order[n] \in Ids
      BY <1>3, <3>1
    <3>5. /\ \A j \in Ids : j # order[n] => After(n)[j] = After(n - 1)[j]
          /\ After(n)[order[n]] # After(n - 1)[order[n]]
      BY <1>6, <3>1
    <3> QED BY <3>3, <3>4, <3>5 DEF DifferInOne
  <2> QED BY <1>1, <1>3, <2>1, <2>2
<1>13. ServerOK'
  <2>1. Len(server') >= 1
    BY <1>1, <1>3, <1>9
  <2>2. \A p \in 1..(Len(server') - 1) : DifferInOne(server'[p], server'[p + 1])
    BY <1>9, <1>12
  <2> QED BY <1>9, <1>11, <2>1, <2>2 DEF ServerOK, DifferInOne
\* An object changes at the position at which it is deleted.
<1>14. ASSUME NEW id \in Ids
       PROVE  \E d : \A p \in (l + 1)..(l + k) :
                p # d => server'[p][id] = server'[p - 1][id]
  <2> DEFINE n == CHOOSE i \in 1..k : order[i] = id
  <2>1. ASSUME NEW p \in (l + 1)..(l + k), p # l + n
        PROVE  server'[p][id] = server'[p - 1][id]
    <3>0. p - l \in 1..k /\ (p - l) - 1 = (p - 1) - l /\ p = l + (p - l)
      BY <1>1, <1>3
    <3>1. PICK i \in 1..k : i = p - l /\ i - 1 = (p - 1) - l /\ p = l + i
      BY <3>0
    <3>2. i # n
      BY <2>1, <3>1
    <3>3. order[i] # id
      BY <1>3, <3>1, <3>2
    <3>4. server'[p] = After(i) /\ server'[p - 1] = After(i - 1)
      <4>1. p \in l..(l + k) /\ p - 1 \in l..(l + k)
        BY <1>1, <1>3
      <4> QED BY <1>10, <3>1, <4>1
    <3>5. \A j \in Ids : j # order[i] => After(i)[j] = After(i - 1)[j]
      BY <1>6
    <3> QED BY <3>3, <3>4, <3>5
  <2> QED BY <2>1
<1>15. Grows
  <2>1. Len(server') >= Len(server)
    BY <1>1, <1>3, <1>9
  <2>2. \A id \in Ids : \E d : \A p \in (Len(server) + 1)..Len(server') :
          p # d => server'[p][id] = server'[p - 1][id]
    <3> SUFFICES ASSUME NEW id \in Ids
                 PROVE  \E d : \A p \in (l + 1)..Len(server') :
                          p # d => server'[p][id] = server'[p - 1][id]
      OBVIOUS
    <3>1. PICK d : \A p \in (l + 1)..(l + k) : p # d => server'[p][id] = server'[p - 1][id]
      BY <1>14
    <3>2. \A p \in (l + 1)..Len(server') : p # d => server'[p][id] = server'[p - 1][id]
      BY <1>9, <3>1
    <3> QED BY <3>2
  <2> QED BY <1>9, <2>1, <2>2 DEF Grows
<1>16. \A id \in Ids \ doomed : Latest'[id] = Latest[id]
  <2>1. l + k \in l..(l + k) /\ (l + k) - l = k /\ Len(server') = l + k
    BY <1>1, <1>3, <1>9
  <2>2. Latest' = After(k)
    BY <1>10, <2>1 DEF Latest, Last
  <2>3. \A id \in Ids \ doomed : After(k)[id] = Latest[id]
    BY <1>3 DEF After
  <2> QED BY <2>2, <2>3
<1> QED BY <1>13, <1>15, <1>16

\* The actions of a fake are on its own resource.
LEMMA FakeClientIs ==
  ASSUME NEW resource, NEW scope, NEW m \in Methods
  PROVE  /\ FakeClient(resource, scope)[m].resource = resource
         /\ FakeClient(resource, scope)[m].scope = scope
<1>1. CASE m = "Get"
  BY <1>1 DEF FakeClient
<1>2. CASE m = "List"
  BY <1>2 DEF FakeClient
<1>3. CASE m = "Watch"
  BY <1>3 DEF FakeClient
<1>4. CASE m = "Create"
  BY <1>4 DEF FakeClient
<1>5. CASE m = "Update"
  BY <1>5 DEF FakeClient
<1>6. CASE m = "UpdateStatus"
  BY <1>6 DEF FakeClient
<1>7. CASE m = "Delete"
  BY <1>7 DEF FakeClient
<1>8. CASE m = "DeleteCollection"
  BY <1>8 DEF FakeClient
<1>9. CASE m = "Patch"
  BY <1>9 DEF FakeClient
<1> QED BY <1>1, <1>2, <1>3, <1>4, <1>5, <1>6, <1>7, <1>8, <1>9 DEF Methods

\* What the fake does with a call: the objects of the kind, by their ids.
LEMMA FakeActs ==
  ASSUME SetupOK
  PROVE  LET fake == FakeNetworkingV1alpha1[kind] IN
         /\ \A m \in Methods : fake[m].resource = Plural[kind]
         /\ \A m \in Methods, id \in Ids : TrackerKey(fake[m], id) = <<Plural[kind], id>>
         /\ fake["Create"].verb = "create" /\ fake["Update"].verb = "update"
         /\ fake["UpdateStatus"].verb = "update" /\ fake["Patch"].verb = "patch"
         /\ fake["Delete"].verb = "delete"
         /\ fake["DeleteCollection"].verb = "delete-collection"
<1> DEFINE fake == FakeClient(Plural[kind], Scope(kind))
<1>1. FakeNetworkingV1alpha1[kind] = fake
  <2>1. kind \in Kinds
    BY DEF SetupOK, kind
  <2> QED BY <2>1, FakeOfKind
<1>2. \A m \in Methods : fake[m].resource = Plural[kind] /\ fake[m].scope = Scope(kind)
  BY FakeClientIs
<1>3. ASSUME NEW m \in Methods, NEW id \in Ids PROVE TrackerKey(fake[m], id) = <<Plural[kind], id>>
  <2>1. id = <<id[1], id[2]>> /\ (Namespaced(kind) <=> id[1] # "")
    BY IdsArePairs
  <2>2. CASE Namespaced(kind)
    <3>1. "namespace" \in fake[m].scope
      BY <1>2, <2>2 DEF Scope
    <3> QED BY <1>2, <3>1 DEF TrackerKey
  <2>3. CASE ~Namespaced(kind)
    <3>1. "namespace" \notin fake[m].scope
      BY <1>2, <2>3 DEF Scope
    <3>2. <<"", id[2]>> = id
      BY <2>1, <2>3
    <3> QED BY <1>2, <3>1, <3>2 DEF TrackerKey
  <2> QED BY <2>2, <2>3
<1>4. /\ fake["Create"].verb = "create" /\ fake["Update"].verb = "update"
      /\ fake["UpdateStatus"].verb = "update" /\ fake["Patch"].verb = "patch"
      /\ fake["Delete"].verb = "delete"
      /\ fake["DeleteCollection"].verb = "delete-collection"
  BY DEF FakeClient
<1> QED BY <1>1, <1>2, <1>3, <1>4

\* A call on the fake concerns the object it is for.
LEMMA ReactKeeps ==
  ASSUME TrackerKeys, NEW act, NEW id, NEW body, tracker' = React(act, id, body)
  PROVE  /\ TrackerKeys'
         /\ \A key : key # TrackerKey(act, id) =>
              /\ key \in DOMAIN tracker' <=> key \in DOMAIN tracker
              /\ key \in DOMAIN tracker => tracker'[key] = tracker[key]
<1> DEFINE key == TrackerKey(act, id)
           has == key \in DOMAIN tracker
<1>1. key = <<key[1], key[2]>>
  BY DEF TrackerKey
<1> HIDE DEF key
<1>2. CASE act.verb = "create" /\ ~has
  <2>1. tracker' = [x \in DOMAIN tracker \cup {key} |-> IF x = key THEN body ELSE tracker[x]]
    BY <1>2 DEF React, key
  <2> QED BY <1>1, <2>1 DEF TrackerKeys, key
<1>3. CASE act.verb = "update" /\ has
  <2>1. tracker' = [tracker EXCEPT ![key] = body]
    BY <1>3 DEF React, key
  <2> QED BY <1>1, <2>1 DEF TrackerKeys, key
<1>4. CASE act.verb = "patch" /\ has
  <2>1. \E new : tracker' = [tracker EXCEPT ![key] = new]
    BY <1>4 DEF React, key
  <2> QED BY <1>1, <2>1 DEF TrackerKeys, key
<1>5. CASE act.verb = "delete"
  <2>1. tracker' = [x \in DOMAIN tracker \ {key} |-> tracker[x]]
    BY <1>5 DEF React, key, Restrict
  <2> QED BY <1>1, <2>1 DEF TrackerKeys, key
<1>6. CASE /\ ~(act.verb = "create" /\ ~has) /\ ~(act.verb = "update" /\ has)
           /\ ~(act.verb = "patch" /\ has) /\ act.verb # "delete"
  <2>1. tracker' = tracker
    BY <1>6 DEF React, key
  <2> QED BY <2>1 DEF TrackerKeys, key
<1> QED BY <1>2, <1>3, <1>4, <1>5, <1>6

\* A call reaches the server, and the tracker when there is a fake.
LEMMA CallMeans ==
  ASSUME SetupOK, TrackerOK, NEW m \in Methods, NEW id, NEW body, NEW stores, NEW same,
         Call(m, id, body, stores, same)
  PROVE  /\ setup' = setup /\ informers' = informers /\ threads' = threads
         /\ server' = server \o stores
         /\ \/ /\ tracker' = React(FakeNetworkingV1alpha1[kind][m], id, body)
               /\ alike' = same /\ setup.mode = "fake"
            \/ tracker' = tracker /\ alike' = alike /\ alike = {}
<1>1. Reaches(NetworkingV1alpha1[kind][m])
  BY MethodsReach
<1> QED BY <1>1 DEF Call, TrackerOK

\* The effect of each method on the server, and that the fake keeps up.
CallOK == Grows /\ ServerOK' /\ TrackerOK'

\* It does when it keeps up with the object of the call.
LEMMA CallKeeps ==
  ASSUME SetupOK, TrackerOK, Grows, ServerOK',
         NEW m \in Methods, NEW id \in Ids, NEW body, NEW stores, NEW same,
         Call(m, id, body, stores, same),
         same \subseteq alike \cup {id},
         \A j \in Ids : j # id => Latest'[j] = Latest[j],
         tracker' = React(FakeNetworkingV1alpha1[kind][m], id, body) /\ id \in same
           => AlikeAt(id)'
  PROVE  CallOK
<1> DEFINE act == FakeNetworkingV1alpha1[kind][m]
<1>1. /\ setup' = setup
      /\ \/ tracker' = React(act, id, body) /\ alike' = same /\ setup.mode = "fake"
         \/ tracker' = tracker /\ alike' = alike /\ alike = {}
  BY CallMeans
<1>2. kind' = kind /\ Ids' = Ids
  BY <1>1, SetupStays
<1>3. TrackerKey(act, id) = <<Plural[kind], id>>
  BY FakeActs
<1> HIDE DEF act
<1>4. CASE tracker' = React(act, id, body) /\ alike' = same /\ setup.mode = "fake"
  <2>1. /\ TrackerKeys'
        /\ \A key : key # <<Plural[kind], id>> =>
             /\ key \in DOMAIN tracker' <=> key \in DOMAIN tracker
             /\ key \in DOMAIN tracker => tracker'[key] = tracker[key]
    BY <1>3, <1>4, ReactKeeps DEF TrackerOK
  <2>2. alike' \subseteq Ids
    BY <1>4 DEF TrackerOK
  <2>3. ASSUME NEW j \in alike' PROVE AlikeAt(j)'
    <3>1. CASE j = id
      BY <1>4, <3>1 DEF act
    <3>2. CASE j # id
      <4>1. j \in alike /\ j \in Ids /\ AlikeAt(j) /\ Latest'[j] = Latest[j]
        BY <1>4, <3>2 DEF TrackerOK
      <4>2. <<Plural[kind], j>> # <<Plural[kind], id>>
        BY <3>2
      <4> QED BY <1>2, <2>1, <4>1, <4>2 DEF AlikeAt, Content
    <3> QED BY <3>1, <3>2
  <2> QED BY <1>1, <1>2, <1>4, <2>1, <2>2, <2>3 DEF TrackerOK, CallOK
<1>5. CASE tracker' = tracker /\ alike' = alike /\ alike = {}
  BY <1>1, <1>2, <1>5 DEF TrackerOK, TrackerKeys, CallOK
<1> QED BY <1>1, <1>4, <1>5

\* What the server and the fake hold of a kind's object.
LEMMA LatestIs ==
  ASSUME ServerOK, NEW id \in Ids
  PROVE  /\ Latest[id] \in Objects(Ids) \cup {None}
         /\ Latest[id] # None => Latest[id] \in Objects(Ids) /\ Latest[id].id = id
BY DEF ServerOK, Latest, Last, Stores

LEMMA BodyIs ==
  ASSUME NEW body \in Bodies
  PROVE  /\ body \in [spec : {0, 1, 2}, status : {0, 1}, label : Labels]
         /\ SchemaAllows(body.spec) => body.spec \in {0, 1}
         /\ body = [label |-> body.label, spec |-> body.spec, status |-> body.status]
BY BodiesAssumption DEF SchemaAllows

\* An object both sides hold alike after a call.
LEMMA BothHold ==
  ASSUME SetupOK, setup' = setup, NEW id \in Ids, NEW content,
         Latest'[id] # None, Content(Latest'[id]) = content,
         <<Plural[kind], id>> \in DOMAIN tracker',
         tracker'[<<Plural[kind], id>>] = content
  PROVE  AlikeAt(id)'
<1>1. kind' = kind
  BY SetupStays
<1> QED BY <1>1 DEF AlikeAt, Content

LEMMA NeitherHolds ==
  ASSUME SetupOK, setup' = setup, NEW id \in Ids,
         Latest'[id] = None, <<Plural[kind], id>> \notin DOMAIN tracker'
  PROVE  AlikeAt(id)'
<1>1. kind' = kind
  BY SetupStays
<1> QED BY <1>1 DEF AlikeAt

LEMMA CreateCall ==
  ASSUME SetupOK, ServerOK, TrackerOK, NEW id \in Ids, NEW body \in Bodies, Create(id, body)
  PROVE  CallOK
<1> DEFINE free == Latest[id] = None
           new == [id |-> id, rv |-> 0, spec |-> body.spec, status |-> 0, label |-> body.label]
           stores == IF free /\ SchemaAllows(body.spec) THEN Stored(id, new) ELSE << >>
           agreed == free => SchemaAllows(body.spec) /\ body.status = 0
           key == <<Plural[kind], id>>
           act == FakeNetworkingV1alpha1[kind]["Create"]
           reacts == tracker' = React(act, id, body) /\ id \in If(agreed, id)
<1>1. Call("Create", id, body, stores, If(agreed, id)) /\ "Create" \in Methods
  BY DEF Create, Methods
<1>2. setup' = setup /\ informers' = informers /\ threads' = threads /\ server' = server \o stores
  BY <1>1, CallMeans
<1>3. TrackerKey(act, id) = key /\ act.verb = "create"
  BY <1>1, FakeActs
<1>4. If(agreed, id) \subseteq alike \cup {id}
  BY DEF If
<1>5. reacts => agreed /\ AlikeAt(id)
  BY DEF If, TrackerOK
<1>6. ASSUME SchemaAllows(body.spec)
      PROVE  /\ new \in Objects(Ids) /\ new # None /\ new.id = id
             /\ body.status = 0 => Content(new) = body
  <2>1. new \in Objects(Ids)
    BY <1>6, BodyIs DEF Objects
  <2> QED BY <2>1, BodyIs, NoneIsNoObject DEF Content
<1> HIDE DEF act, new
<1>7. CASE free /\ SchemaAllows(body.spec)
  <2>1. Grows /\ ServerOK' /\ StoredAt(id, new)
    BY <1>2, <1>6, <1>7, StoreOne
  <2>2. ASSUME reacts PROVE AlikeAt(id)'
    <3>1. key \notin DOMAIN tracker /\ body.status = 0
      BY <1>5, <1>7, <2>2 DEF AlikeAt
    <3>2. tracker' = [x \in DOMAIN tracker \cup {key} |-> IF x = key THEN body ELSE tracker[x]]
      BY <1>3, <2>2, <3>1 DEF React
    <3>3. Latest'[id] # None /\ Content(Latest'[id]) = body
      BY <1>6, <1>7, <2>1, <3>1 DEF StoredAt
    <3> QED BY <1>2, <3>2, <3>3, BothHold
  <2>3. \A j \in Ids : j # id => Latest'[j] = Latest[j]
    BY <2>1 DEF StoredAt
  <2> HIDE DEF stores, agreed
  <2> QED BY <1>1, <1>4, <2>1, <2>2, <2>3, CallKeeps DEF act
<1>8. CASE ~(free /\ SchemaAllows(body.spec))
  <2>1. Grows /\ ServerOK' /\ Latest' = Latest
    BY <1>2, <1>8, StoreNone
  <2>2. ASSUME reacts PROVE AlikeAt(id)'
    <3>1. ~free /\ key \in DOMAIN tracker
      BY <1>5, <1>8, <2>2 DEF AlikeAt
    <3>2. tracker' = tracker
      BY <1>3, <2>2, <3>1 DEF React
    <3> QED BY <1>2, <1>5, <2>1, <2>2, <3>2, SetupStays DEF AlikeAt, Content
  <2>3. \A j \in Ids : j # id => Latest'[j] = Latest[j]
    BY <2>1
  <2> HIDE DEF stores, agreed
  <2> QED BY <1>1, <1>4, <2>1, <2>2, <2>3, CallKeeps DEF act
<1> QED BY <1>7, <1>8

\* Content of an updated object.
LEMMA CopyIs ==
  ASSUME SetupOK, ServerOK, NEW id \in Ids, NEW copy \in Copies(id)
  PROVE  copy \in Objects(Ids) /\ copy.id = id /\ copy # None
<1>1. PICK p \in DOMAIN server : copy = server[p][id] /\ copy # None
  BY DEF Copies
<1>2. server[p] \in Stores
  BY LenProperties, ElementOfSeq DEF ServerOK
<1> QED BY <1>1, <1>2 DEF Stores

LEMMA UpdateCall ==
  ASSUME SetupOK, ServerOK, TrackerOK, NEW id \in Ids, NEW copy \in Copies(id),
         NEW body \in Bodies, Update(id, copy, body)
  PROVE  CallOK
<1> DEFINE old == Latest[id]
           new == [copy EXCEPT !.spec = body.spec, !.label = body.label]
           accepted == old = copy /\ SchemaAllows(body.spec)
           stores == IF accepted THEN Stored(id, new) ELSE << >>
           agreed == old # None =>
                       old = copy /\ SchemaAllows(body.spec) /\ body.status = old.status
           key == <<Plural[kind], id>>
           act == FakeNetworkingV1alpha1[kind]["Update"]
           reacts == tracker' = React(act, id, body) /\ id \in If(agreed, id)
<1>1. Call("Update", id, body, stores, If(agreed, id)) /\ "Update" \in Methods
  BY DEF Update, Methods
<1>2. setup' = setup /\ informers' = informers /\ threads' = threads /\ server' = server \o stores
  BY <1>1, CallMeans
<1>3. TrackerKey(act, id) = key /\ act.verb = "update"
  BY <1>1, FakeActs
<1>4. If(agreed, id) \subseteq alike \cup {id}
  BY DEF If
<1>5. reacts => agreed /\ AlikeAt(id)
  BY DEF If, TrackerOK
<1>6. copy \in Objects(Ids) /\ copy.id = id /\ copy # None
  BY CopyIs
<1>7. ASSUME SchemaAllows(body.spec)
      PROVE  /\ new \in Objects(Ids) /\ new # None /\ new.id = id
             /\ new # copy => new.spec # copy.spec \/ new.label # copy.label
             /\ body.status = copy.status => Content(new) = body
  <2>1. new \in Objects(Ids) /\ new.id = id /\ new.spec = body.spec /\ new.label = body.label
        /\ new.status = copy.status /\ new.rv = copy.rv
    BY <1>6, <1>7, BodyIs DEF Objects
  <2>2. new.spec = copy.spec /\ new.label = copy.label => new = copy
    <3> HIDE DEF new
    <3> QED BY <1>6, <2>1 DEF Objects
  <2> QED BY <2>1, <2>2, BodyIs, NoneIsNoObject DEF Content
<1> HIDE DEF act, new
<1>8. CASE accepted
  <2>1. Grows /\ ServerOK' /\ StoredAt(id, new)
    BY <1>2, <1>7, <1>8, StoreOne
  <2>2. ASSUME reacts PROVE AlikeAt(id)'
    <3>1. key \in DOMAIN tracker /\ body.status = copy.status
      BY <1>5, <1>6, <1>8, <2>2 DEF AlikeAt
    <3>2. tracker' = [tracker EXCEPT ![key] = body]
      BY <1>3, <2>2, <3>1 DEF React
    <3>3. Latest'[id] # None /\ Content(Latest'[id]) = body
      BY <1>7, <1>8, <2>1, <3>1 DEF StoredAt
    <3>4. key \in DOMAIN tracker' /\ tracker'[key] = body
      BY <3>1, <3>2
    <3> QED BY <1>2, <3>3, <3>4, BothHold
  <2>3. \A j \in Ids : j # id => Latest'[j] = Latest[j]
    BY <2>1 DEF StoredAt
  <2> HIDE DEF stores, agreed
  <2> QED BY <1>1, <1>4, <2>1, <2>2, <2>3, CallKeeps DEF act
<1>9. CASE ~accepted
  <2>1. Grows /\ ServerOK' /\ Latest' = Latest
    BY <1>2, <1>9, StoreNone
  <2>2. ASSUME reacts PROVE AlikeAt(id)'
    <3>1. old = None /\ key \notin DOMAIN tracker
      BY <1>5, <1>9, <2>2 DEF AlikeAt
    <3>2. tracker' = tracker
      BY <1>3, <2>2, <3>1 DEF React
    <3> QED BY <1>2, <2>1, <3>1, <3>2, NeitherHolds
  <2>3. \A j \in Ids : j # id => Latest'[j] = Latest[j]
    BY <2>1
  <2> HIDE DEF stores, agreed
  <2> QED BY <1>1, <1>4, <2>1, <2>2, <2>3, CallKeeps DEF act
<1> QED BY <1>8, <1>9

LEMMA UpdateStatusCall ==
  ASSUME SetupOK, ServerOK, TrackerOK, NEW id \in Ids, NEW copy \in Copies(id),
         NEW body \in Bodies, UpdateStatus(id, copy, body)
  PROVE  CallOK
<1> DEFINE old == Latest[id]
           new == [copy EXCEPT !.status = body.status]
           stores == IF old = copy THEN Stored(id, new) ELSE << >>
           agreed == old # None =>
                       old = copy /\ body.spec = old.spec /\ body.label = old.label
           key == <<Plural[kind], id>>
           act == FakeNetworkingV1alpha1[kind]["UpdateStatus"]
           reacts == tracker' = React(act, id, body) /\ id \in If(agreed, id)
<1>1. Call("UpdateStatus", id, body, stores, If(agreed, id)) /\ "UpdateStatus" \in Methods
  BY DEF UpdateStatus, Methods
<1>2. setup' = setup /\ informers' = informers /\ threads' = threads /\ server' = server \o stores
  BY <1>1, CallMeans
<1>3. TrackerKey(act, id) = key /\ act.verb = "update"
  BY <1>1, FakeActs
<1>4. If(agreed, id) \subseteq alike \cup {id}
  BY DEF If
<1>5. reacts => agreed /\ AlikeAt(id)
  BY DEF If, TrackerOK
<1>6. copy \in Objects(Ids) /\ copy.id = id /\ copy # None
  BY CopyIs
<1>7. /\ new \in Objects(Ids) /\ new # None /\ new.id = id
      /\ new # copy => new.status # copy.status
      /\ body.spec = copy.spec /\ body.label = copy.label => Content(new) = body
  <2>1. new \in Objects(Ids) /\ new.id = id /\ new.spec = copy.spec /\ new.label = copy.label
        /\ new.status = body.status /\ new.rv = copy.rv
    BY <1>6, BodyIs DEF Objects
  <2>2. new.status = copy.status => new = copy
    <3> HIDE DEF new
    <3> QED BY <1>6, <2>1 DEF Objects
  <2> QED BY <2>1, <2>2, BodyIs, NoneIsNoObject DEF Content
<1> HIDE DEF act, new
<1>8. CASE old = copy
  <2>1. Grows /\ ServerOK' /\ StoredAt(id, new)
    BY <1>2, <1>7, <1>8, StoreOne
  <2>2. ASSUME reacts PROVE AlikeAt(id)'
    <3>1. key \in DOMAIN tracker /\ body.spec = copy.spec /\ body.label = copy.label
      BY <1>5, <1>6, <1>8, <2>2 DEF AlikeAt
    <3>2. tracker' = [tracker EXCEPT ![key] = body]
      BY <1>3, <2>2, <3>1 DEF React
    <3>3. Latest'[id] # None /\ Content(Latest'[id]) = body
      BY <1>7, <2>1, <3>1 DEF StoredAt
    <3>4. key \in DOMAIN tracker' /\ tracker'[key] = body
      BY <3>1, <3>2
    <3> QED BY <1>2, <3>3, <3>4, BothHold
  <2>3. \A j \in Ids : j # id => Latest'[j] = Latest[j]
    BY <2>1 DEF StoredAt
  <2> HIDE DEF stores, agreed
  <2> QED BY <1>1, <1>4, <2>1, <2>2, <2>3, CallKeeps DEF act
<1>9. CASE old # copy
  <2>1. Grows /\ ServerOK' /\ Latest' = Latest
    BY <1>2, <1>9, StoreNone
  <2>2. ASSUME reacts PROVE AlikeAt(id)'
    <3>1. old = None /\ key \notin DOMAIN tracker
      BY <1>5, <1>9, <2>2 DEF AlikeAt
    <3>2. tracker' = tracker
      BY <1>3, <2>2, <3>1 DEF React
    <3> QED BY <1>2, <2>1, <3>1, <3>2, NeitherHolds
  <2>3. \A j \in Ids : j # id => Latest'[j] = Latest[j]
    BY <2>1
  <2> HIDE DEF stores, agreed
  <2> QED BY <1>1, <1>4, <2>1, <2>2, <2>3, CallKeeps DEF act
<1> QED BY <1>8, <1>9

Fields == {"spec", "status", "label"}

LEMMA PatchCall ==
  ASSUME SetupOK, ServerOK, TrackerOK, NEW id \in Ids, NEW body \in Bodies,
         NEW field \in Fields, Patch(id, field, body[field])
  PROVE  CallOK
<1> DEFINE value == body[field]
           old == Latest[id]
           new == [old EXCEPT ![field] = value]
           allowed == field = "spec" => SchemaAllows(value)
           accepted == old # None /\ field # "status" /\ allowed
           stores == IF accepted THEN Stored(id, new) ELSE << >>
           agreed == old # None => allowed /\ (field = "status" => value = old.status)
           key == <<Plural[kind], id>>
           act == FakeNetworkingV1alpha1[kind]["Patch"]
           sent == [field |-> field, value |-> value]
           reacts == tracker' = React(act, id, sent) /\ id \in If(agreed, id)
<1>1. Call("Patch", id, sent, stores, If(agreed, id)) /\ "Patch" \in Methods
  BY DEF Patch, Methods
<1>2. setup' = setup /\ informers' = informers /\ threads' = threads /\ server' = server \o stores
  BY <1>1, CallMeans
<1>3. TrackerKey(act, id) = key /\ act.verb = "patch" /\ sent.field = field /\ sent.value = value
  BY <1>1, FakeActs
<1>4. If(agreed, id) \subseteq alike \cup {id}
  BY DEF If
<1>5. reacts => agreed /\ AlikeAt(id)
  BY DEF If, TrackerOK
<1>6. old # None => old \in Objects(Ids) /\ old.id = id
  BY LatestIs
<1>7. ASSUME accepted
      PROVE  /\ new \in Objects(Ids) /\ new # None /\ new.id = id
             /\ new # old => new.spec # old.spec \/ new.label # old.label
             /\ [Content(old) EXCEPT ![field] = value] = Content(new)
  <2>1. CASE field = "spec"
    <3>1. new = [old EXCEPT !.spec = body.spec] /\ SchemaAllows(body.spec)
      BY <1>7, <2>1
    <3>2. /\ new \in Objects(Ids) /\ new.id = id /\ new.spec = body.spec
          /\ new.label = old.label /\ new.status = old.status /\ new.rv = old.rv
      BY <1>6, <1>7, <3>1, BodyIs DEF Objects
    <3>3. new.spec = old.spec => new = old
      <4> HIDE DEF new, old
      <4> QED BY <1>6, <1>7, <3>2 DEF Objects
    <3>4. [Content(old) EXCEPT !.spec = body.spec] = Content(new)
      BY <3>2 DEF Content
    <3> QED BY <2>1, <3>2, <3>3, <3>4, NoneIsNoObject
  <2>2. CASE field = "label"
    <3>1. new = [old EXCEPT !.label = body.label]
      BY <2>2
    <3>2. /\ new \in Objects(Ids) /\ new.id = id /\ new.label = body.label
          /\ new.spec = old.spec /\ new.status = old.status /\ new.rv = old.rv
      BY <1>6, <1>7, <3>1, BodyIs DEF Objects
    <3>3. new.label = old.label => new = old
      <4> HIDE DEF new, old
      <4> QED BY <1>6, <1>7, <3>2 DEF Objects
    <3>4. [Content(old) EXCEPT !.label = body.label] = Content(new)
      BY <3>2 DEF Content
    <3> QED BY <2>2, <3>2, <3>3, <3>4, NoneIsNoObject
  <2> QED BY <1>7, <2>1, <2>2 DEF Fields
<1>8. [Content(old) EXCEPT !.status = old.status] = Content(old)
  BY DEF Content
<1> HIDE DEF act, sent
<1>9. CASE accepted
  <2>1. Grows /\ ServerOK' /\ StoredAt(id, new)
    <3> HIDE DEF new
    <3> QED BY <1>2, <1>7, <1>9, StoreOne
  <2>2. ASSUME reacts PROVE AlikeAt(id)'
    <3>1. key \in DOMAIN tracker /\ tracker[key] = Content(old)
      BY <1>5, <1>9, <2>2 DEF AlikeAt
    <3>2. tracker' = [tracker EXCEPT ![key] = [tracker[key] EXCEPT ![field] = value]]
      BY <1>3, <2>2, <3>1 DEF React
    <3>3. tracker' = [tracker EXCEPT ![key] = Content(new)]
      <4>1. [tracker[key] EXCEPT ![field] = value] = Content(new)
        BY <1>7, <1>9, <3>1
      <4> QED BY <3>2, <4>1
    <3>4. Latest'[id] # None /\ Content(Latest'[id]) = Content(new)
      BY <1>7, <1>9, <2>1 DEF StoredAt
    <3>5. key \in DOMAIN tracker' /\ tracker'[key] = Content(new)
      BY <3>1, <3>3
    <3> QED BY <1>2, <3>4, <3>5, BothHold
  <2>3. \A j \in Ids : j # id => Latest'[j] = Latest[j]
    BY <2>1 DEF StoredAt
  <2> HIDE DEF stores, agreed
  <2> QED BY <1>1, <1>4, <2>1, <2>2, <2>3, CallKeeps DEF act
<1>10. CASE ~accepted
  <2>1. Grows /\ ServerOK' /\ Latest' = Latest
    BY <1>2, <1>10, StoreNone
  <2>2. ASSUME reacts PROVE AlikeAt(id)'
    <3>1. CASE old = None
      <4>1. key \notin DOMAIN tracker
        BY <1>5, <2>2, <3>1 DEF AlikeAt
      <4>2. tracker' = tracker
        BY <1>3, <2>2, <4>1 DEF React
      <4> QED BY <1>2, <2>1, <3>1, <4>1, <4>2, NeitherHolds
    <3>2. CASE old # None
      <4>1. field = "status" /\ value = old.status
        BY <1>5, <1>10, <2>2, <3>2
      <4>2. key \in DOMAIN tracker /\ tracker[key] = Content(old)
        BY <1>5, <2>2, <3>2 DEF AlikeAt
      <4>3. tracker' = [tracker EXCEPT ![key] = [tracker[key] EXCEPT ![field] = value]]
        BY <1>3, <2>2, <4>2 DEF React
      <4>4. tracker' = [tracker EXCEPT ![key] = Content(old)]
        <5>1. [tracker[key] EXCEPT ![field] = value] = Content(old)
          BY <1>8, <4>1, <4>2
        <5> QED BY <4>3, <5>1
      <4>5. key \in DOMAIN tracker' /\ tracker'[key] = Content(old)
        BY <4>2, <4>4
      <4> QED BY <1>2, <2>1, <3>2, <4>5, BothHold
    <3> QED BY <3>1, <3>2
  <2>3. \A j \in Ids : j # id => Latest'[j] = Latest[j]
    BY <2>1
  <2> HIDE DEF stores, agreed
  <2> QED BY <1>1, <1>4, <2>1, <2>2, <2>3, CallKeeps DEF act
<1> QED BY <1>9, <1>10

LEMMA DeleteCall ==
  ASSUME SetupOK, ServerOK, TrackerOK, NEW id \in Ids, Delete(id)
  PROVE  CallOK
<1> DEFINE key == <<Plural[kind], id>>
           act == FakeNetworkingV1alpha1[kind]["Delete"]
<1>1. Call("Delete", id, None, Stored(id, None), alike \cup {id}) /\ "Delete" \in Methods
  BY DEF Delete, Methods
<1>2. /\ setup' = setup /\ informers' = informers /\ threads' = threads
      /\ server' = server \o Stored(id, None)
  BY <1>1, CallMeans
<1>3. TrackerKey(act, id) = key /\ act.verb = "delete"
  BY <1>1, FakeActs
<1> HIDE DEF act
<1>4. Grows /\ ServerOK' /\ StoredAt(id, None)
  BY <1>2, StoreOne
<1>5. ASSUME tracker' = React(act, id, None) PROVE AlikeAt(id)'
  <2>1. tracker' = Restrict(tracker, DOMAIN tracker \ {key})
    BY <1>3, <1>5 DEF React
  <2>2. key \notin DOMAIN tracker'
    BY <2>1 DEF Restrict
  <2> QED BY <1>2, <1>4, <2>2, NeitherHolds DEF StoredAt
<1>6. \A j \in Ids : j # id => Latest'[j] = Latest[j]
  BY <1>4 DEF StoredAt
<1> QED BY <1>1, <1>4, <1>5, <1>6, CallKeeps DEF act

LEMMA DeleteCollectionCall ==
  ASSUME SetupOK, ServerOK, TrackerOK, NEW ns, NEW selector, DeleteCollection(ns, selector)
  PROVE  CallOK
<1> DEFINE doomed == {id \in Ids : InScope(Latest[id], ns, selector)}
           order == SetToSeq(doomed)
           stores == [n \in 1..Len(order) |->
                        [id \in Ids |-> IF \E m \in 1..n : order[m] = id
                                        THEN None ELSE Latest[id]]]
           act == FakeNetworkingV1alpha1[kind]["DeleteCollection"]
<1>1. /\ Call("DeleteCollection", <<ns, "">>, None, stores, alike \ doomed)
      /\ "DeleteCollection" \in Methods
  BY DEF DeleteCollection, Methods
<1>2. doomed \in SUBSET Ids /\ \A id \in doomed : Latest[id] # None
  BY DEF InScope
<1>3. /\ setup' = setup /\ informers' = informers /\ threads' = threads
      /\ server' = server \o stores
      /\ \/ /\ tracker' = React(act, <<ns, "">>, None)
            /\ alike' = alike \ doomed /\ setup.mode = "fake"
         \/ tracker' = tracker /\ alike' = alike /\ alike = {}
  <2> HIDE DEF stores, doomed
  <2> QED BY <1>1, CallMeans
<1>4. Grows /\ ServerOK' /\ \A id \in Ids \ doomed : Latest'[id] = Latest[id]
  <2> HIDE DEF doomed
  <2> QED BY <1>2, <1>3, StoreDeleted
<1>5. tracker' = tracker
  <2>1. act.verb = "delete-collection"
    BY FakeActs
  <2> QED BY <1>3, <2>1 DEF React
<1>6. kind' = kind /\ Ids' = Ids
  BY <1>3, SetupStays
<1>7. /\ alike' \subseteq alike /\ alike' \subseteq Ids \ doomed
      /\ setup.mode # "fake" => alike' = {}
  BY <1>3 DEF TrackerOK
<1> HIDE DEF doomed
<1>8. \A id \in alike' : AlikeAt(id)'
  BY <1>4, <1>5, <1>6, <1>7 DEF TrackerOK, AlikeAt, Content
<1> QED BY <1>3, <1>4, <1>5, <1>6, <1>7, <1>8 DEF CallOK, TrackerOK, TrackerKeys

\* Versions the caches are at stay what they were.
LEMMA GrowsKeeps ==
  ASSUME CacheInv, Grows
  PROVE  SetupOK' /\ OneSelector' /\ InformersOK' /\ ThreadsOK'
<1> USE DEF CacheInv
<1>1. /\ kind' = kind /\ Ids' = Ids /\ SetupOK' /\ setup' = setup
      /\ ScopeNamespace' = ScopeNamespace /\ OneSelector'
      /\ \A s : InformerDef(s)' = InformerDef(s)
  BY SetupStays DEF Grows
<1>2. /\ informers' = informers /\ threads' = threads
      /\ Len(server) \in Nat /\ Len(server') >= Len(server)
      /\ \A p \in 1..Len(server) : server'[p] = server[p]
  BY DEF Grows, ServerOK
<1>3. \A s : \A p \in 1..Len(server) : Visible(s, p)' = Visible(s, p)
  BY <1>1, <1>2 DEF Visible, InScope
<1>4. ASSUME NEW ref \in DOMAIN informers PROVE InformerOK(ref, informers[ref])'
  <2> DEFINE inf == informers[ref]
  <2>1. InformerOK(ref, inf)
    BY DEF InformersOK
  <2>2. inf.at \in 1..Len(server)
    BY <2>1 DEF InformerOK
  <2>3. inf.at \in 1..Len(server')
    <3>1. Len(server') \in Nat \/ Len(server') \in Int
      BY <1>2, <2>2
    <3> QED BY <1>2, <2>2, <3>1
  <2>4. ShowsVersion(inf.store, ref[1], inf.at) => ShowsVersion(inf.store, ref[1], inf.at)'
    BY <1>2, <1>3, <2>2 DEF ShowsVersion
  <2> QED BY <1>1, <1>2, <2>1, <2>3, <2>4 DEF InformerOK
<1>5. InformersOK'
  BY <1>2, <1>4 DEF InformersOK
<1>6. ThreadsOK'
  BY <1>1, <1>2 DEF ThreadsOK, ThreadOK
<1> QED BY <1>1, <1>5, <1>6

-----------------------------------------------------------------------------
(* Start-up and reflectors.                                                *)

\* There are selectors, and informers are of the kind.
LEMMA SelectorsAre ==
  ASSUME SetupOK
  PROVE  /\ kind \in Kinds
         /\ Len(setup.selectors) \in Nat /\ DOMAIN setup.selectors = 1..Len(setup.selectors)
         /\ \A s : InformerDef(s).type = kind
<1>1. kind \in Kinds
  BY DEF SetupOK, kind
<1>2. Len(setup.selectors) \in Nat /\ DOMAIN setup.selectors = 1..Len(setup.selectors)
  BY LenProperties DEF SetupOK
<1>3. \A s : InformerDef(s).type = kind
  BY DEF InformerDef, NewFilteredInformer
<1> QED BY <1>1, <1>2, <1>3

\* One selector to inject is the only one there is, and is given once.
LEMMA OneIs ==
  ASSUME SetupOK, OneSelector, setup.mode = "injection", NEW s \in Range(setup.selectors)
  PROVE  /\ setup.selectors[Len(setup.selectors)] = s
         /\ Range(setup.selectors) = {s}
         /\ Cardinality({i \in DOMAIN setup.selectors : setup.selectors[i] = s}) = 1
<1>1. Len(setup.selectors) = 1 /\ DOMAIN setup.selectors = 1..1
  BY SelectorsAre DEF OneSelector
<1>2. setup.selectors[1] = s /\ Range(setup.selectors) = {s}
  BY <1>1 DEF Range
<1>3. {i \in DOMAIN setup.selectors : setup.selectors[i] = s} = {1}
  BY <1>1, <1>2
<1> QED BY <1>1, <1>2, <1>3, FS_Singleton

LEMMA RangeOfOne ==
  ASSUME NEW x
  PROVE  Range(<<x>>) = {x}
<1>1. DOMAIN <<x>> = {1} /\ <<x>>[1] = x
  OBVIOUS
<1> QED BY <1>1 DEF Range

\* Every factory makes the informer it is to make.
LEMMA FactoryIs ==
  ASSUME SetupOK, OneSelector, setup.mode # "fake"
  PROVE  /\ DOMAIN Factories = Range(setup.selectors)
         /\ \A s \in Range(setup.selectors) : V1alpha1(Factories[s])[kind] = InformerDef(s)
<1>0. kind \in Kinds
  BY SelectorsAre
<1>1. /\ DOMAIN Factories = Range(setup.selectors)
      /\ \A s \in Range(setup.selectors) :
           Factories[s].namespace = setup.scope /\ Factories[s].selector = s
  <2>1. CASE setup.mode = "factory"
    BY <2>1 DEF Factories, NewSharedInformerFactory
  <2>2. CASE setup.mode = "injection" /\ setup.selectors = <<"">>
    <3>1. Range(setup.selectors) = {""}
      BY <2>2, RangeOfOne
    <3>2. Factories = [s \in {""} |-> withInformerFactory(setup.scope)]
      BY <2>2 DEF Factories
    <3> QED BY <3>1, <3>2 DEF withInformerFactory
  <2>3. CASE setup.mode = "injection" /\ setup.selectors # <<"">>
    <3>1. Factories = [s \in Range(setup.selectors) |->
             [namespace |-> setup.scope, selector |-> setup.selectors[Len(setup.selectors)]]]
      BY <2>3 DEF Factories, withFilteredInformerFactories
    <3> QED BY <2>3, <3>1, OneIs
  <2> QED BY <2>1, <2>2, <2>3 DEF SetupOK
<1>2. ASSUME NEW s \in Range(setup.selectors) PROVE V1alpha1(Factories[s])[kind] = InformerDef(s)
  <2>1. V1alpha1(Factories[s])[kind] = KindInformer(Factories[s], kind)
    BY <1>0, InformerOfKind
  <2> QED BY <1>1, <2>1 DEF KindInformer, InformerDef, ScopeNamespace
<1> QED BY <1>1, <1>2

\* A new informer is in order.
LEMMA NewInformerOK ==
  ASSUME SetupOK, ServerOK, NEW s \in Range(setup.selectors)
  PROVE  /\ InformerOK(<<s, kind>>, NewInformer(InformerDef(s)))
         /\ ~NewInformer(InformerDef(s)).started
<1>1. 1 \in 1..Len(server)
  BY DEF ServerOK
<1>2. << >> \in Seq([phase : {"list", "watch"}, pos : {1}]) /\ Len(<< >>) = 0
  OBVIOUS
<1> HIDE DEF InformerDef
<1> QED BY <1>1, <1>2 DEF InformerOK, NewInformer

\* So is an informer that is run for the first time, once.
LEMMA RunOK ==
  ASSUME NEW ref, NEW inf, InformerOK(ref, inf), ~inf.started
  PROVE  InformerOK(ref, Run(inf, 1)) /\ Run(inf, 1).started
         /\ Run(inf, 1).synced = inf.synced /\ Run(inf, 1).at = inf.at
<1> DEFINE R == [phase : {"list", "watch"}, pos : {inf.at}]
           first == [n \in 1..1 |-> [phase |-> "list", pos |-> 1]]
           run == Run(inf, 1)
<1>1. inf.reflectors \in Seq(R) /\ Len(inf.reflectors) = 0 /\ inf.at = 1
  BY DEF InformerOK
<1>2. first \in Seq(R) /\ Len(first) = 1
  BY <1>1
<1>3. inf.reflectors \o first \in Seq(R) /\ Len(inf.reflectors \o first) = 1
  <2> HIDE DEF R, first
  <2>1. \A u, v \in Seq(R) : u \o v \in Seq(R) /\ Len(u \o v) = Len(u) + Len(v)
    OBVIOUS
  <2>2. PICK old : old = inf.reflectors
    OBVIOUS
  <2>3. old \o first \in Seq(R) /\ Len(old \o first) = Len(old) + Len(first)
    BY ONLY <1>1, <1>2, <2>1, <2>2
  <2> QED BY ONLY <1>1, <1>2, <2>2, <2>3
<1>4. /\ run.def = inf.def /\ run.store = inf.store /\ run.at = inf.at
      /\ run.synced = inf.synced /\ run.started = TRUE /\ run.expiries = inf.expiries
      /\ run.reflectors = inf.reflectors \o first
  BY DEF InformerOK, Run
<1>5. InformerOK(ref, run)
  <2> HIDE DEF first
  <2> QED BY <1>1, <1>3, <1>4 DEF InformerOK, Run
<1>6. run.started
  BY <1>4
<1> HIDE DEF run
<1> QED BY <1>4, <1>5, <1>6 DEF run

\* An informer that is in order stays so while the server's history does.
LEMMA InformerStays ==
  ASSUME SetupOK, setup' = setup, server' = server,
         NEW ref, NEW inf, InformerOK(ref, inf), informers'[ref] = inf
  PROVE  InformerOK(ref, informers[ref])'
<1>1. /\ kind' = kind /\ Ids' = Ids
      /\ ScopeNamespace' = ScopeNamespace
      /\ \A s : InformerDef(s)' = InformerDef(s)
  BY SetupStays
<1>3. ShowsVersion(inf.store, ref[1], inf.at)
        => ShowsVersion(informers[ref].store, ref[1], informers[ref].at)'
  BY <1>1 DEF ShowsVersion, Visible, InScope
<1> QED BY <1>1, <1>3 DEF InformerOK

LEMMA RequestStep ==
  ASSUME CacheInv, NEW t \in DOMAIN threads, NEW s \in Range(setup.selectors),
         NEW def, def = InformerDef(s), Request(t, s, def)
  PROVE  InformersOK' /\ ThreadsOK'
<1> DEFINE ref == <<s, kind>>
<1>1. /\ setup.mode = "factory" /\ threads[t].pc = "init"
      /\ informers' = InformerFor(s, def)
      /\ threads' = [threads EXCEPT ![t] = [pc |-> "requested", reads |-> {<<s, def.type>>}]]
      /\ setup' = setup /\ server' = server
  BY DEF Request
<1>2. def.type = kind
  BY SelectorsAre DEF CacheInv
<1>3. /\ DOMAIN informers' = DOMAIN informers \cup {ref}
      /\ \A r \in DOMAIN informers : informers'[r] = informers[r]
      /\ ref \notin DOMAIN informers => informers'[ref] = NewInformer(InformerDef(s))
  BY <1>1, <1>2 DEF InformerFor
<1>4. InformersOK'
  <2> SUFFICES ASSUME NEW r \in DOMAIN informers' PROVE InformerOK(r, informers[r])'
    BY DEF InformersOK
  <2>1. CASE r \in DOMAIN informers
    BY <1>1, <1>3, <2>1, InformerStays DEF CacheInv, InformersOK
  <2>2. CASE r \notin DOMAIN informers
    <3>1. r = ref /\ InformerOK(ref, NewInformer(InformerDef(s)))
      BY <1>2, <1>3, <2>2, NewInformerOK DEF CacheInv
    <3> QED BY <1>1, <1>3, <2>2, <3>1, InformerStays DEF CacheInv
  <2> QED BY <2>1, <2>2
<1>5. ThreadsOK'
  <2> SUFFICES ASSUME NEW u \in DOMAIN threads PROVE ThreadOK(u, threads[u])'
    BY <1>1 DEF ThreadsOK
  <2>1. ThreadOK(u, threads[u])
    BY DEF CacheInv, ThreadsOK
  <2>2. CASE u = t
    BY <1>1, <1>2, <1>3, <2>1, <2>2 DEF ThreadOK
  <2>3. CASE u # t
    BY <1>1, <1>3, <2>1, <2>3 DEF ThreadOK
  <2> QED BY <2>2, <2>3
<1> QED BY <1>4, <1>5

LEMMA SetupInformersStep ==
  ASSUME CacheInv, NEW t \in DOMAIN threads, SetupInformers(t)
  PROVE  /\ InformersOK' /\ ThreadsOK'
         /\ DOMAIN informers = {} /\ \A ref \in DOMAIN informers' : ~informers'[ref].synced
<1> DEFINE S == Range(setup.selectors)
           defs == IF setup.selectors = <<"">>
                   THEN [s \in {""} |-> Injected(Factories[s])[kind]]
                   ELSE InjectedFiltered(Factories)[kind]
           refs == {<<s, defs[s].type>> : s \in DOMAIN defs}
<1>1. /\ setup.mode = "injection" /\ threads[t].pc = "init"
      /\ informers' = [ref \in refs |-> NewInformer(defs[ref[1]])]
      /\ threads' = [threads EXCEPT ![t] = [pc |-> "injected", reads |-> refs]]
      /\ setup' = setup /\ server' = server
  BY DEF SetupInformers
<1>2. kind \in Kinds
  BY SelectorsAre DEF CacheInv
<1>3. DOMAIN defs = S /\ \A s \in S : defs[s] = InformerDef(s)
  <2>1. /\ DOMAIN Factories = S
        /\ \A s \in S : V1alpha1(Factories[s])[kind] = InformerDef(s)
    BY <1>1, FactoryIs DEF CacheInv
  <2>2. CASE setup.selectors = <<"">>
    <3>1. S = {""}
      BY <2>2, RangeOfOne
    <3>2. defs = [s \in {""} |-> V1alpha1(Factories[s])[kind]]
      BY <1>2, <2>2, InjectedOfKind
    <3> HIDE DEF defs, S
    <3> QED BY <2>1, <3>1, <3>2
  <2>3. CASE setup.selectors # <<"">>
    <3>1. defs = [s \in DOMAIN Factories |-> V1alpha1(Factories[s])[kind]]
      BY <1>2, <2>3, FilteredOfKind
    <3> HIDE DEF defs
    <3> QED BY <2>1, <3>1
  <2> QED BY <2>2, <2>3
<1> HIDE DEF defs
<1>4. \A s \in S : defs[s].type = kind
  BY <1>3, SelectorsAre DEF CacheInv
<1>5. /\ DOMAIN informers' = refs
      /\ \A ref \in refs : \E s \in S : ref = <<s, kind>> /\ informers'[ref] = NewInformer(InformerDef(s))
  <2>1. ASSUME NEW ref \in refs
        PROVE  \E s \in S : ref = <<s, kind>> /\ informers'[ref] = NewInformer(InformerDef(s))
    <3>1. PICK s \in S : ref = <<s, kind>>
      BY <1>3, <1>4
    <3>2. informers'[ref] = NewInformer(defs[s])
      BY <1>1, <3>1
    <3> QED BY <1>3, <3>1, <3>2
  <2> QED BY <1>1, <2>1
<1>6. \A ref \in DOMAIN informers' : ~informers'[ref].started /\ ~informers'[ref].synced
  <2>1. \A d : ~NewInformer(d).started /\ ~NewInformer(d).synced
    BY DEF NewInformer
  <2> QED BY <1>5, <2>1
<1> HIDE DEF refs
<1>7. InformersOK'
  <2> SUFFICES ASSUME NEW ref \in DOMAIN informers' PROVE InformerOK(ref, informers[ref])'
    BY DEF InformersOK
  <2>1. PICK s \in S : ref = <<s, kind>> /\ informers'[ref] = NewInformer(InformerDef(s))
    BY <1>5
  <2>2. InformerOK(ref, NewInformer(InformerDef(s)))
    BY <2>1, NewInformerOK DEF CacheInv
  <2> QED BY <1>1, <2>1, <2>2, InformerStays DEF CacheInv
<1>8. \A u \in DOMAIN threads : u = t
  BY <1>1 DEF CacheInv, ThreadsOK, ThreadOK
<1>9. DOMAIN informers = {}
  BY <1>1 DEF CacheInv, ThreadsOK, ThreadOK
<1>10. ThreadsOK'
  <2> SUFFICES ASSUME NEW u \in DOMAIN threads PROVE ThreadOK(u, threads[u])'
    BY <1>1 DEF ThreadsOK
  <2>1. ThreadOK(u, threads[u])
    BY DEF CacheInv, ThreadsOK
  <2> QED BY <1>1, <1>5, <1>6, <1>8, <2>1 DEF ThreadOK
<1> QED BY <1>6, <1>7, <1>9, <1>10

\* Running informers that have not been started.
LEMMA StartStep ==
  ASSUME CacheInv, NEW t \in DOMAIN threads, Start(t)
  PROVE  InformersOK' /\ ThreadsOK'
<1>1. /\ threads[t].pc = "requested"
      /\ informers' = [ref \in DOMAIN informers |->
                         IF ref \in OfFactory(t) /\ ~informers[ref].started
                         THEN Run(informers[ref], 1) ELSE informers[ref]]
      /\ threads' = [threads EXCEPT ![t].pc = "waiting"]
      /\ setup' = setup /\ server' = server
  BY DEF Start
<1>2. \A ref \in DOMAIN informers : InformerOK(ref, informers[ref])
  BY DEF CacheInv, InformersOK
<1>3. ASSUME NEW ref \in DOMAIN informers
      PROVE  /\ InformerOK(ref, informers'[ref])
             /\ informers[ref].started \/ ref \in OfFactory(t) => informers'[ref].started
             /\ informers'[ref].synced = informers[ref].synced
             /\ informers'[ref].at = informers[ref].at
  <2>1. CASE ~(ref \in OfFactory(t) /\ ~informers[ref].started)
    <3>1. informers'[ref] = informers[ref]
      BY <1>1, <2>1
    <3> QED BY <1>2, <2>1, <3>1
  <2>2. CASE ref \in OfFactory(t) /\ ~informers[ref].started
    <3>1. informers'[ref] = Run(informers[ref], 1)
      BY <1>1, <2>2
    <3> QED BY <1>2, <2>2, <3>1, RunOK
  <2> QED BY <2>1, <2>2
<1>4. InformersOK'
  <2> SUFFICES ASSUME NEW ref \in DOMAIN informers PROVE InformerOK(ref, informers[ref])'
    BY <1>1 DEF InformersOK
  <2>1. PICK inf : inf = informers'[ref] /\ InformerOK(ref, inf)
    BY <1>3
  <2> QED BY <1>1, <2>1, InformerStays DEF CacheInv
<1>5. ThreadsOK'
  <2> SUFFICES ASSUME NEW u \in DOMAIN threads PROVE ThreadOK(u, threads[u])'
    BY <1>1 DEF ThreadsOK
  <2>1. ThreadOK(u, threads[u])
    BY DEF CacheInv, ThreadsOK
  <2>2. DOMAIN informers' = DOMAIN informers
    BY <1>1
  <2>3. setup.mode # "injection"
    BY <1>1 DEF CacheInv, ThreadsOK, ThreadOK
  <2>4. threads'[u] = IF u = t THEN [threads[t] EXCEPT !.pc = "waiting"] ELSE threads[u]
    BY <1>1
  <2>5. threads'[u].reads = threads[u].reads
    BY <2>1, <2>4 DEF ThreadOK
  <2>6. threads'[u].pc \in {"init", "requested", "waiting", "ready"} /\ threads'[u].pc # "injected"
    BY <2>1, <2>3, <2>4 DEF ThreadOK
  <2>7. threads'[u].pc = "ready" => threads[u].pc = "ready"
    BY <2>1, <2>4 DEF ThreadOK
  <2>8. threads'[u] \in [pc : {"init", "waiting", "ready", "requested"},
                         reads : SUBSET DOMAIN informers]
    BY <2>1, <2>3, <2>4 DEF ThreadOK
  <2>9. \A ref \in threads[t].reads : ref \in OfFactory(t)
    BY DEF CacheInv, ThreadsOK, ThreadOK, OfFactory
  <2> QED BY <1>1, <1>3, <2>1, <2>2, <2>3, <2>4, <2>5, <2>6, <2>7, <2>8, <2>9 DEF ThreadOK
<1> QED BY <1>4, <1>5

\* How often StartInformers runs the informer of a selector.
Times(s) == Cardinality({i \in DOMAIN setup.selectors : setup.selectors[i] = s})

LEMMA StartInformersStep ==
  ASSUME CacheInv, NEW t \in DOMAIN threads, StartInformers(t)
  PROVE  InformersOK' /\ ThreadsOK'
<1>1. /\ threads[t].pc = "injected"
      /\ informers' = [ref \in DOMAIN informers |-> Run(informers[ref], Times(ref[1]))]
      /\ threads' = [threads EXCEPT ![t].pc = "waiting"]
      /\ setup' = setup /\ server' = server
  BY DEF StartInformers, Times
<1>2. \A ref \in DOMAIN informers : InformerOK(ref, informers[ref]) /\ ~informers[ref].started
  BY <1>1 DEF CacheInv, InformersOK, ThreadsOK, ThreadOK
<1>3. ASSUME NEW ref \in DOMAIN informers
      PROVE  /\ InformerOK(ref, informers'[ref]) /\ informers'[ref].started
             /\ informers'[ref].synced = informers[ref].synced
             /\ informers'[ref].at = informers[ref].at
  <2>1. setup.mode = "injection" /\ ref[1] \in Range(setup.selectors)
    BY <1>1, <1>2 DEF CacheInv, ThreadsOK, ThreadOK, InformerOK
  <2>2. Times(ref[1]) = 1
    BY <2>1, OneIs DEF CacheInv, Times
  <2>3. informers'[ref] = Run(informers[ref], 1)
    BY <1>1, <2>2
  <2> QED BY <1>2, <2>3, RunOK
<1>4. InformersOK'
  <2> SUFFICES ASSUME NEW ref \in DOMAIN informers PROVE InformerOK(ref, informers[ref])'
    BY <1>1 DEF InformersOK
  <2>1. PICK inf : inf = informers'[ref] /\ InformerOK(ref, inf)
    BY <1>3
  <2> QED BY <1>1, <2>1, InformerStays DEF CacheInv
<1>5. ThreadsOK'
  <2>1. setup.mode = "injection"
    BY <1>1 DEF CacheInv, ThreadsOK, ThreadOK
  <2>2. \A u \in DOMAIN threads : u = t
    BY <2>1 DEF CacheInv, ThreadsOK, ThreadOK
  <2> SUFFICES ThreadOK(t, threads[t])'
    BY <1>1, <2>2 DEF ThreadsOK
  <2>3. ThreadOK(t, threads[t])
    BY DEF CacheInv, ThreadsOK
  <2>4. DOMAIN informers' = DOMAIN informers
    BY <1>1
  <2>5. threads'[t] = [threads[t] EXCEPT !.pc = "waiting"]
    BY <1>1
  <2>6. threads'[t].reads = threads[t].reads /\ threads'[t].pc = "waiting"
    BY <2>3, <2>5 DEF ThreadOK
  <2>7. threads'[t] \in [pc : {"init", "waiting", "ready", "injected"},
                         reads : SUBSET DOMAIN informers]
    BY <2>1, <2>3, <2>5 DEF ThreadOK
  <2> QED BY <1>1, <1>3, <2>1, <2>3, <2>4, <2>6, <2>7 DEF ThreadOK
<1> QED BY <1>4, <1>5

LEMMA WaitStep ==
  ASSUME CacheInv, NEW t \in DOMAIN threads, WaitForCacheSync(t)
  PROVE  InformersOK' /\ ThreadsOK'
<1>1. /\ threads[t].pc = "waiting"
      /\ \A ref \in OfFactory(t) : informers[ref].started => informers[ref].synced
      /\ threads' = [threads EXCEPT ![t].pc = "ready"]
      /\ setup' = setup /\ server' = server /\ informers' = informers
  BY DEF WaitForCacheSync
<1>2. InformersOK'
  <2> SUFFICES ASSUME NEW ref \in DOMAIN informers PROVE InformerOK(ref, informers[ref])'
    BY <1>1 DEF InformersOK
  <2>1. PICK inf : inf = informers[ref] /\ InformerOK(ref, inf)
    BY DEF CacheInv, InformersOK
  <2> QED BY <1>1, <2>1, InformerStays DEF CacheInv
<1>3. ThreadsOK'
  <2> SUFFICES ASSUME NEW u \in DOMAIN threads PROVE ThreadOK(u, threads[u])'
    BY <1>1 DEF ThreadsOK
  <2>1. ThreadOK(u, threads[u])
    BY DEF CacheInv, ThreadsOK
  <2>2. CASE u # t
    BY <1>1, <2>1, <2>2 DEF ThreadOK
  <2>3. CASE u = t
    <3>1. threads'[t] = [threads[t] EXCEPT !.pc = "ready"]
      BY <1>1
    <3>2. threads'[t].reads = threads[t].reads /\ threads'[t].pc = "ready"
      BY <2>1, <2>3, <3>1 DEF ThreadOK
    <3>3. threads'[t] \in [pc : {"init", "waiting", "ready",
                                 IF setup.mode = "injection" THEN "injected" ELSE "requested"},
                           reads : SUBSET DOMAIN informers]
      BY <2>1, <2>3, <3>1 DEF ThreadOK
    <3>4. \A ref \in threads[t].reads : informers[ref].started /\ informers[ref].synced
      BY <1>1, <2>1, <2>3 DEF ThreadOK, OfFactory
    <3> QED BY <1>1, <2>1, <2>3, <3>2, <3>3, <3>4 DEF ThreadOK
  <2> QED BY <2>2, <2>3
<1> QED BY <1>2, <1>3

\* An informer is at a version the server has had.
LEMMA AtIsVersion ==
  ASSUME CacheInv, NEW x \in DOMAIN informers
  PROVE  /\ InformerOK(x, informers[x]) /\ informers[x].at \in 1..Len(server)
         /\ informers[x].at \in Nat
<1>1. InformerOK(x, informers[x])
  BY DEF CacheInv, InformersOK
<1>2. Len(server) \in Nat
  BY DEF CacheInv, ServerOK
<1>3. informers[x].at \in 1..Len(server)
  BY <1>1 DEF InformerOK
<1> QED BY <1>1, <1>2, <1>3

\* An informer that changes and stays in order, and stays synced.
LEMMA InformerStep ==
  ASSUME CacheInv, setup' = setup, server' = server, threads' = threads,
         NEW ref \in DOMAIN informers, NEW inf, InformerOK(ref, inf),
         informers' = [informers EXCEPT ![ref] = inf],
         inf.started = informers[ref].started, informers[ref].synced => inf.synced
  PROVE  InformersOK' /\ ThreadsOK'
<1>1. /\ DOMAIN informers' = DOMAIN informers /\ informers'[ref] = inf
      /\ \A x \in DOMAIN informers : x # ref => informers'[x] = informers[x]
  OBVIOUS
<1>2. InformersOK'
  <2> SUFFICES ASSUME NEW x \in DOMAIN informers PROVE InformerOK(x, informers[x])'
    BY <1>1 DEF InformersOK
  <2>1. PICK new : new = informers'[x] /\ InformerOK(x, new)
    BY <1>1 DEF CacheInv, InformersOK
  <2> QED BY <2>1, InformerStays DEF CacheInv
<1>3. ThreadsOK'
  <2> SUFFICES ASSUME NEW u \in DOMAIN threads PROVE ThreadOK(u, threads[u])'
    BY DEF ThreadsOK
  <2>1. ThreadOK(u, threads[u])
    BY DEF CacheInv, ThreadsOK
  <2> QED BY <1>1, <2>1 DEF ThreadOK
<1> QED BY <1>2, <1>3

\* The one reflector of a started informer is where the store is.
LEMMA ReflectorIs ==
  ASSUME CacheInv, NEW ref \in DOMAIN informers, NEW r \in DOMAIN informers[ref].reflectors
  PROVE  /\ InformerOK(ref, informers[ref]) /\ r = 1 /\ informers[ref].started
         /\ informers[ref].reflectors \in [1..1 -> [phase : {"list", "watch"},
                                                    pos : {informers[ref].at}]]
         /\ informers[ref].reflectors[r].pos = informers[ref].at
<1> DEFINE R == [phase : {"list", "watch"}, pos : {informers[ref].at}]
<1>1. InformerOK(ref, informers[ref])
  BY DEF CacheInv, InformersOK
<1>2. /\ informers[ref].reflectors \in Seq(R)
      /\ Len(informers[ref].reflectors) = IF informers[ref].started THEN 1 ELSE 0
  BY <1>1 DEF InformerOK
<1> HIDE DEF R
<1>3. informers[ref].reflectors \in [1..Len(informers[ref].reflectors) -> R]
  BY <1>2
<1>4. informers[ref].started
  BY <1>2, <1>3
<1>5. informers[ref].reflectors \in [1..1 -> R] /\ r = 1
  BY <1>2, <1>3, <1>4
<1>6. informers[ref].reflectors[r] \in R
  BY <1>5
<1> QED BY <1>1, <1>4, <1>5, <1>6 DEF R

\* A sequence of one reflector that is at p.
LEMMA OneReflector ==
  ASSUME NEW p, NEW s \in [1..1 -> [phase : {"list", "watch"}, pos : {p}]]
  PROVE  s \in Seq([phase : {"list", "watch"}, pos : {p}]) /\ Len(s) = 1
<1> DEFINE R == [phase : {"list", "watch"}, pos : {p}]
<1> HIDE DEF R
<1>1. s \in [1..1 -> R]
  BY DEF R
<1>2. s \in Seq(R)
  <2>1. 1 \in Nat
    OBVIOUS
  <2> QED BY <1>1, <2>1, SeqDef
<1>3. Len(s) = 1
  BY <1>1, <1>2, LenProperties
<1> QED BY <1>2, <1>3 DEF R

\* The informer's list and watch requests reach the server's store.
LEMMA InformerReaches ==
  ASSUME SetupOK, NEW s
  PROVE  /\ Reaches(InformerDef(s).list) /\ Reaches(InformerDef(s).watch)
         /\ InformerDef(s).namespace = ScopeNamespace /\ InformerDef(s).selector = s
<1> DEFINE client == TypedClient(Plural[kind], Scope(kind))
<1>1. NetworkingV1alpha1[kind] = client
  BY ClientOfKind DEF SetupOK, kind
<1>2. Reaches(client.List) /\ Reaches(client.Watch)
  BY <1>1, MethodsReach DEF Methods
<1> HIDE DEF client
<1> QED BY <1>2 DEF InformerDef, NewFilteredInformer, client

LEMMA WatchExpiresStep ==
  ASSUME CacheInv, NEW ref \in DOMAIN informers, NEW r \in DOMAIN informers[ref].reflectors,
         WatchExpires(ref, r)
  PROVE  /\ InformersOK' /\ ThreadsOK' /\ DOMAIN informers' = DOMAIN informers
         /\ \A x \in DOMAIN informers :
              informers'[x].at = informers[x].at /\ informers'[x].synced = informers[x].synced
<1> DEFINE inf == informers[ref]
<1>1. PICK new : new = [inf EXCEPT !.expiries = @ + 1, !.reflectors[r].phase = "list"]
  OBVIOUS
<1>2. informers' = [informers EXCEPT ![ref] = new]
  BY <1>1 DEF WatchExpires
<1>3. /\ InformerOK(ref, inf) /\ r = 1 /\ inf.started
      /\ inf.reflectors \in [1..1 -> [phase : {"list", "watch"}, pos : {inf.at}]]
  BY ReflectorIs
<1>4. new = [inf EXCEPT !.expiries = inf.expiries + 1,
                        !.reflectors = [inf.reflectors EXCEPT ![r].phase = "list"]]
  BY <1>1, <1>3 DEF InformerOK
<1>5. /\ new.def = inf.def /\ new.store = inf.store /\ new.at = inf.at
      /\ new.synced = inf.synced /\ new.started = inf.started
      /\ new.reflectors = [inf.reflectors EXCEPT ![r].phase = "list"]
  BY <1>3, <1>4 DEF InformerOK
<1>6. new.reflectors \in [1..1 -> [phase : {"list", "watch"}, pos : {inf.at}]]
  BY <1>3, <1>5
<1>7. new.reflectors \in Seq([phase : {"list", "watch"}, pos : {inf.at}]) /\ Len(new.reflectors) = 1
  BY <1>6, OneReflector
<1>8. InformerOK(ref, new)
  BY <1>3, <1>4, <1>5, <1>7 DEF InformerOK
<1>9. InformersOK' /\ ThreadsOK'
  BY <1>2, <1>5, <1>8, InformerStep DEF WatchExpires
<1> QED BY <1>2, <1>5, <1>9

\* What a reflector's step does to the caches: they move forward.
Forward ==
  /\ setup' = setup /\ server' = server
  /\ DOMAIN informers' = DOMAIN informers
  /\ \A x \in DOMAIN informers : /\ informers'[x].at >= informers[x].at
                                 /\ informers[x].synced => informers'[x].synced

\* The objects a list returns are those the informer is to show.
LEMMA ListShows ==
  ASSUME SetupOK, ServerOK, NEW s, NEW p \in 1..Len(server), NEW items, NEW store,
         items = ListAt(p, InformerDef(s).list, InformerDef(s).namespace,
                        InformerDef(s).selector),
         store = [key \in {MetaNamespaceKey(o.id) : o \in items} |->
                    CHOOSE o \in items : MetaNamespaceKey(o.id) = key]
  PROVE  ShowsVersion(store, s, p)
<1>1. items = {o \in Range(server[p]) : InScope(o, ScopeNamespace, s)}
  BY InformerReaches DEF ListAt
<1>2. DOMAIN server[p] = Ids /\ \A id \in Ids : server[p][id] # None => server[p][id].id = id
  <2>1. server[p] \in Stores
    BY DEF ServerOK
  <2> QED BY <2>1 DEF Stores
<1>3. \A o : o \in items <=> \E id \in Visible(s, p) : o = server[p][id]
  BY <1>1, <1>2 DEF Range, Visible
<1>4. \A id \in Visible(s, p) : id \in Ids /\ server[p][id].id = id
  BY <1>2 DEF Visible, InScope
<1>5. {MetaNamespaceKey(o.id) : o \in items} = {MetaNamespaceKey(id) : id \in Visible(s, p)}
  BY <1>3, <1>4
<1>6. ASSUME NEW id \in Visible(s, p) PROVE store[MetaNamespaceKey(id)] = server[p][id]
  <2>1. server[p][id] \in items /\ server[p][id].id = id
    BY <1>3, <1>4
  <2>2. ASSUME NEW o \in items, MetaNamespaceKey(o.id) = MetaNamespaceKey(id)
        PROVE  o = server[p][id]
    <3>1. PICK j \in Visible(s, p) : o = server[p][j]
      BY <1>3
    <3>2. j \in Ids /\ id \in Ids /\ o.id = j
      BY <1>4, <3>1
    <3>3. j = id
      BY <2>2, <3>2, KeysDiffer
    <3> QED BY <3>1, <3>3
  <2>3. (CHOOSE o \in items : MetaNamespaceKey(o.id) = MetaNamespaceKey(id)) = server[p][id]
    BY <2>1, <2>2
  <2>4. MetaNamespaceKey(id) \in {MetaNamespaceKey(o.id) : o \in items}
    BY <2>1
  <2> QED BY <2>3, <2>4
<1> QED BY <1>5, <1>6 DEF ShowsVersion

LEMMA ListStep ==
  ASSUME CacheInv, NEW ref \in DOMAIN informers, NEW r \in DOMAIN informers[ref].reflectors,
         NEW p \in DOMAIN server, List(ref, r, p)
  PROVE  InformersOK' /\ ThreadsOK' /\ Forward
<1> DEFINE inf == informers[ref]
           s == ref[1]
           items == ListAt(p, inf.def.list, inf.def.namespace, inf.def.selector)
           store == [key \in {MetaNamespaceKey(o.id) : o \in items} |->
                       CHOOSE o \in items : MetaNamespaceKey(o.id) = key]
<1>0. p \in 1..Len(server)
  BY LenProperties DEF CacheInv, ServerOK
<1>1. PICK new : new = Listed(ref, r, p)
  OBVIOUS
<1>2. informers' = [informers EXCEPT ![ref] = new] /\ p >= inf.reflectors[r].pos
  BY <1>1 DEF List
<1>3. /\ InformerOK(ref, inf) /\ r = 1 /\ inf.started /\ inf.reflectors[r].pos = inf.at
      /\ inf.reflectors \in [1..1 -> [phase : {"list", "watch"}, pos : {inf.at}]]
  BY ReflectorIs
<1>4. inf.def = InformerDef(s)
  BY <1>3 DEF InformerOK
<1>5. ShowsVersion(store, s, p)
  <2>1. PICK its, st : its = items /\ st = store
    OBVIOUS
  <2> QED BY <1>0, <1>4, <2>1, ListShows DEF CacheInv
<1> HIDE DEF store, items
<1>6. new = [inf EXCEPT !.store = store, !.at = p, !.synced = TRUE,
                        !.reflectors[r] = [phase |-> "watch", pos |-> p]]
  BY <1>1 DEF Listed, store, items
<1>7. new = [inf EXCEPT !.store = store, !.at = p, !.synced = TRUE,
               !.reflectors = [inf.reflectors EXCEPT ![r] = [phase |-> "watch", pos |-> p]]]
  BY <1>3, <1>6 DEF InformerOK
<1>8. /\ new.def = inf.def /\ new.store = store /\ new.at = p
      /\ new.synced = TRUE /\ new.started = inf.started
      /\ new.reflectors = [inf.reflectors EXCEPT ![r] = [phase |-> "watch", pos |-> p]]
  BY <1>3, <1>7 DEF InformerOK
<1>9. new.reflectors \in [1..1 -> [phase : {"list", "watch"}, pos : {p}]]
  BY <1>3, <1>8
<1>10. new.reflectors \in Seq([phase : {"list", "watch"}, pos : {p}]) /\ Len(new.reflectors) = 1
  BY <1>9, OneReflector
<1>11. new.synced
  BY <1>8
<1>12. InformerOK(ref, new)
  BY <1>0, <1>3, <1>5, <1>7, <1>8, <1>10 DEF InformerOK
<1>13. InformersOK' /\ ThreadsOK'
  BY <1>2, <1>8, <1>11, <1>12, InformerStep DEF List
<1>14. Forward
  <2>1. \A x \in DOMAIN informers : informers[x].at \in Nat
    BY AtIsVersion
  <2> QED BY <1>2, <1>3, <1>8, <1>11, <2>1 DEF List, Forward
<1> QED BY <1>13, <1>14

\* A watch event makes the next version of the shown one.
LEMMA WatchShows ==
  ASSUME SetupOK, ServerOK, NEW s, NEW p \in 1..(Len(server) - 1), NEW old, NEW new,
         ShowsVersion(old, s, p), NEW key, key = MetaNamespaceKey(Changed(p)),
         NEW now, now = server[p + 1][Changed(p)],
         DOMAIN new = (DOMAIN old \ {key}) \cup
           (IF InScope(now, ScopeNamespace, s) THEN {key} ELSE {}),
         \A k \in DOMAIN new : new[k] = IF k = key THEN now ELSE old[k]
  PROVE  ShowsVersion(new, s, p + 1)
<1> DEFINE id == Changed(p)
           seen == InScope(now, ScopeNamespace, s)
<1>1. /\ id \in Ids /\ server[p][id] # server[p + 1][id]
      /\ \A j \in Ids : j # id => server[p][j] = server[p + 1][j]
  <2>1. DifferInOne(server[p], server[p + 1])
    BY DEF ServerOK
  <2> QED BY <2>1 DEF DifferInOne, Changed
<1>2. \A j \in Ids : j # id => MetaNamespaceKey(j) # key
  BY <1>1, KeysDiffer
<1>3. \A j \in Ids : j # id => (j \in Visible(s, p + 1) <=> j \in Visible(s, p))
  BY <1>1 DEF Visible
<1>4. id \in Visible(s, p + 1) <=> seen
  BY <1>1 DEF Visible
<1>5. /\ DOMAIN old = {MetaNamespaceKey(j) : j \in Visible(s, p)}
      /\ \A j \in Visible(s, p) : old[MetaNamespaceKey(j)] = server[p][j]
  BY DEF ShowsVersion
<1>6. Visible(s, p) \subseteq Ids /\ Visible(s, p + 1) \subseteq Ids
  BY DEF Visible
<1>7. key = MetaNamespaceKey(id) /\ now = server[p + 1][id]
  OBVIOUS
<1> HIDE DEF seen, id
<1>8. DOMAIN old \ {key} = {MetaNamespaceKey(j) : j \in Visible(s, p) \ {id}}
  BY <1>2, <1>5, <1>6, <1>7
<1>9. Visible(s, p + 1) = (Visible(s, p) \ {id}) \cup (IF seen THEN {id} ELSE {})
  BY <1>1, <1>3, <1>4, <1>6
<1>10. DOMAIN new = {MetaNamespaceKey(j) : j \in Visible(s, p + 1)}
  <2>1. DOMAIN new = (DOMAIN old \ {key}) \cup (IF seen THEN {key} ELSE {})
    BY DEF seen
  <2>2. CASE seen
    BY <1>7, <1>8, <1>9, <2>1, <2>2
  <2>3. CASE ~seen
    BY <1>8, <1>9, <2>1, <2>3
  <2> QED BY <2>2, <2>3
<1>11. ASSUME NEW j \in Visible(s, p + 1) PROVE new[MetaNamespaceKey(j)] = server[p + 1][j]
  <2>1. MetaNamespaceKey(j) \in DOMAIN new
    BY <1>10
  <2>2. CASE j = id
    BY <1>7, <2>1, <2>2
  <2>3. CASE j # id
    BY <1>1, <1>2, <1>3, <1>5, <1>6, <2>1, <2>3
  <2> QED BY <2>2, <2>3
<1> QED BY <1>10, <1>11 DEF ShowsVersion

LEMMA WatchEventStep ==
  ASSUME CacheInv, NEW ref \in DOMAIN informers, NEW r \in DOMAIN informers[ref].reflectors,
         WatchEvent(ref, r)
  PROVE  InformersOK' /\ ThreadsOK' /\ Forward
<1> DEFINE inf == informers[ref]
           s == ref[1]
           p == inf.reflectors[r].pos
           id == Changed(p)
           key == MetaNamespaceKey(id)
           now == server[p + 1][id]
           seen == Reaches(inf.def.watch) /\ InScope(now, inf.def.namespace, inf.def.selector)
           kept == [k \in DOMAIN inf.store \ {key} |-> inf.store[k]]
           store == IF seen THEN [k \in DOMAIN kept \cup {key} |->
                                     IF k = key THEN now ELSE kept[k]]
                    ELSE kept
<1>1. PICK new : new = [inf EXCEPT !.store = store, !.at = p + 1, !.reflectors[r].pos = p + 1]
  OBVIOUS
<1>2. informers' = [informers EXCEPT ![ref] = new] /\ p < Len(server)
  BY <1>1 DEF WatchEvent
<1>3. /\ InformerOK(ref, inf) /\ r = 1 /\ inf.started /\ p = inf.at
      /\ inf.reflectors \in [1..1 -> [phase : {"list", "watch"}, pos : {inf.at}]]
  BY ReflectorIs
<1>4. inf.def = InformerDef(s)
  BY <1>3 DEF InformerOK
<1>5. inf.at \in 1..(Len(server) - 1) /\ inf.at + 1 \in 1..Len(server)
  <2>1. inf.at \in 1..Len(server) /\ inf.at < Len(server) /\ Len(server) \in Nat
    BY <1>2, <1>3 DEF InformerOK, CacheInv, ServerOK
  <2> QED BY <2>1
<1>6. seen <=> InScope(now, ScopeNamespace, s)
  BY <1>4, InformerReaches DEF CacheInv
<1>7. inf.synced => ShowsVersion(store, s, inf.at + 1)
  <2> SUFFICES ASSUME inf.synced PROVE ShowsVersion(store, s, inf.at + 1)
    OBVIOUS
  <2>1. ShowsVersion(inf.store, s, inf.at)
    BY <1>3 DEF InformerOK
  <2>2. /\ DOMAIN store = (DOMAIN inf.store \ {key}) \cup
             (IF InScope(now, ScopeNamespace, s) THEN {key} ELSE {})
        /\ \A k \in DOMAIN store : store[k] = IF k = key THEN now ELSE inf.store[k]
    <3> HIDE DEF seen, key, now
    <3> QED BY <1>6
  <2>3. PICK s0, p0, old, key0, now0, new0 :
          s0 = s /\ p0 = inf.at /\ old = inf.store /\ key0 = key /\ now0 = now /\ new0 = store
    OBVIOUS
  <2>4. /\ p0 \in 1..(Len(server) - 1) /\ ShowsVersion(old, s0, p0)
        /\ key0 = MetaNamespaceKey(Changed(p0)) /\ now0 = server[p0 + 1][Changed(p0)]
    BY <1>3, <1>5, <2>1, <2>3
  <2> HIDE DEF s, inf, key, now, store
  <2>5. /\ DOMAIN new0 = (DOMAIN old \ {key0}) \cup
             (IF InScope(now0, ScopeNamespace, s0) THEN {key0} ELSE {})
        /\ \A k \in DOMAIN new0 : new0[k] = IF k = key0 THEN now0 ELSE old[k]
    BY <2>2, <2>3
  <2>6. ShowsVersion(new0, s0, p0 + 1)
    BY <2>4, <2>5, WatchShows DEF CacheInv
  <2> QED BY <2>3, <2>6
<1> HIDE DEF store
<1>8. new = [inf EXCEPT !.store = store, !.at = inf.at + 1,
                        !.reflectors = [inf.reflectors EXCEPT ![r].pos = inf.at + 1]]
  BY <1>1, <1>3 DEF InformerOK
<1>9. /\ new.def = inf.def /\ new.store = store /\ new.at = inf.at + 1
      /\ new.synced = inf.synced /\ new.started = inf.started
      /\ new.reflectors = [inf.reflectors EXCEPT ![r].pos = inf.at + 1]
  BY <1>3, <1>8 DEF InformerOK
<1>10. new.reflectors \in [1..1 -> [phase : {"list", "watch"}, pos : {inf.at + 1}]]
  BY <1>3, <1>9
<1>11. /\ new.reflectors \in Seq([phase : {"list", "watch"}, pos : {inf.at + 1}])
       /\ Len(new.reflectors) = 1
  BY <1>10, OneReflector
<1>12. InformerOK(ref, new)
  BY <1>3, <1>5, <1>7, <1>8, <1>9, <1>11 DEF InformerOK
<1>13. InformersOK' /\ ThreadsOK'
  BY <1>2, <1>9, <1>12, InformerStep DEF WatchEvent
<1>14. Forward
  <2>1. \A x \in DOMAIN informers : informers[x].at \in Nat
    BY AtIsVersion
  <2>2. setup' = setup /\ server' = server
    BY DEF WatchEvent
  <2>3. DOMAIN informers' = DOMAIN informers
    BY <1>2
  <2>4. \A x \in DOMAIN informers : informers'[x] = IF x = ref THEN new ELSE informers[x]
    BY <1>2
  <2>5. new.at >= inf.at
    BY <1>9, <2>1
  <2> HIDE DEF inf
  <2>6. \A x \in DOMAIN informers : informers'[x].at >= informers[x].at
    BY <2>1, <2>4, <2>5 DEF inf
  <2>7. \A x \in DOMAIN informers : informers[x].synced => informers'[x].synced
    BY <1>9, <2>4 DEF inf
  <2> QED BY <2>2, <2>3, <2>6, <2>7 DEF Forward
<1> QED BY <1>13, <1>14

-----------------------------------------------------------------------------
(* The invariants hold initially, and every step keeps them.               *)

\* The caches are in order when there is one selector to inject; the server
\* and the fake are whatever was injected.
IInv == SetupOK /\ ServerOK /\ TrackerOK /\ (OneSelector => CacheInv)

\* The fake, given the objects of a store, holds those whose resource it
\* guesses right, and none of those the store does not have.
LEMMA NewFake ==
  ASSUME NEW k \in Kinds, NEW ids, NEW store, DOMAIN store = ids,
         NEW id \in ids, store[id] = None \/ UnsafeGuessKindToResource(k) = Plural[k]
  PROVE  LET fake == NewSimpleClientset(k, store)
             key  == <<Plural[k], id>>
         IN  /\ key \in DOMAIN fake <=> store[id] # None
             /\ store[id] # None => fake[key] = Content(store[id])
<1> DEFINE G == UnsafeGuessKindToResource(k)
           keys == {<<G, i>> : i \in {j \in ids : store[j] # None}}
           fake == NewSimpleClientset(k, store)
           key == <<Plural[k], id>>
<1>1. fake = [x \in keys |-> Content(store[x[2]])]
  BY DEF NewSimpleClientset
<1>2. DOMAIN fake = keys
  BY <1>1
<1> HIDE DEF G
<1>3. CASE store[id] = None
  <2>1. key \notin keys
    BY <1>3
  <2> QED BY <1>2, <1>3, <2>1
<1>4. CASE store[id] # None
  <2>1. G = Plural[k]
    BY <1>4 DEF G
  <2>2. key \in keys /\ key[2] = id
    BY <1>4, <2>1
  <2> HIDE DEF keys
  <2>3. fake[key] = Content(store[key[2]])
    BY <1>1, <2>2
  <2> QED BY <1>2, <1>4, <2>2, <2>3
<1> QED BY <1>3, <1>4

LEMMA NewFakeKeys ==
  ASSUME NEW k, NEW store, NEW key \in DOMAIN NewSimpleClientset(k, store)
  PROVE  key = <<key[1], key[2]>>
<1>1. PICK id : key = <<UnsafeGuessKindToResource(k), id>>
  BY DEF NewSimpleClientset
<1> QED BY <1>1

LEMMA CacheInit ==
  ASSUME Init
  PROVE  IInv
<1>1. PICK k \in Kinds, s \in Setups :
    LET ids   == IF Namespaced(k) THEN NamespacedIds ELSE ClusterIds
        first == CHOOSE id \in ids : TRUE
        store == [id \in ids |->
                    IF id = first
                    THEN [id |-> id, rv |-> 1, spec |-> 0, status |-> 0,
                          label |-> CHOOSE l \in Labels : TRUE]
                    ELSE None]
        fake  == s.mode = "fake"
    IN  /\ setup = [kind |-> k, mode |-> s.mode, scope |-> s.scope,
                    selectors |-> s.selectors]
        /\ server = <<store>>
        /\ tracker = IF fake THEN NewSimpleClientset(k, store) ELSE << >>
        /\ alike = IF fake THEN {id \in ids : \/ store[id] = None
                                             \/ UnsafeGuessKindToResource(k) = Plural[k]}
                   ELSE {}
        /\ informers = << >>
        /\ threads = [t \in CASE s.mode = "injection" -> {"main"}
                              [] s.mode = "factory" -> {"t1", "t2"}
                              [] s.mode = "fake" -> {}
                        |-> [pc |-> "init", reads |-> {}]]
  BY DEF Init
<1>2. PICK ids, first, label, store :
        /\ ids = IF Namespaced(k) THEN NamespacedIds ELSE ClusterIds
        /\ first = CHOOSE id \in ids : TRUE
        /\ label = CHOOSE l \in Labels : TRUE
        /\ store = [id \in ids |->
                      IF id = first
                      THEN [id |-> id, rv |-> 1, spec |-> 0, status |-> 0, label |-> label]
                      ELSE None]
  OBVIOUS
<1>3. /\ setup = [kind |-> k, mode |-> s.mode, scope |-> s.scope, selectors |-> s.selectors]
      /\ server = <<store>>
      /\ tracker = IF s.mode = "fake" THEN NewSimpleClientset(k, store) ELSE << >>
      /\ alike = IF s.mode = "fake"
                 THEN {id \in ids : \/ store[id] = None
                                    \/ UnsafeGuessKindToResource(k) = Plural[k]}
                 ELSE {}
      /\ informers = << >>
      /\ threads = [t \in CASE s.mode = "injection" -> {"main"}
                            [] s.mode = "factory" -> {"t1", "t2"}
                            [] s.mode = "fake" -> {}
                      |-> [pc |-> "init", reads |-> {}]]
  BY <1>1, <1>2
<1>4. /\ setup.kind = k /\ setup.mode = s.mode /\ setup.selectors = s.selectors
      /\ kind = k /\ Ids = ids
  BY <1>2, <1>3 DEF kind, Ids
<1>5. SetupOK
  <2>1. /\ s.mode \in {"injection", "factory", "fake"}
        /\ s.selectors \in Seq({""} \cup Labels) /\ s.selectors # << >>
    BY SetupsAssumption
  <2>2. Len(s.selectors) \in Nat \ {0}
    BY <2>1, EmptySeq
  <2>3. Len(s.selectors) >= 1
    BY <2>2
  <2> QED BY <1>4, <2>1, <2>3 DEF SetupOK
<1>6. store \in Stores /\ DOMAIN store = ids
  <2>1. label \in Labels
    BY <1>2, BodiesAssumption
  <2>2. ASSUME NEW id \in ids
        PROVE  store[id] \in Objects(ids) \cup {None} /\ (store[id] # None => store[id].id = id)
    BY <1>2, <2>1 DEF Objects
  <2>3. DOMAIN store = ids
    BY <1>2
  <2>4. store \in [ids -> Objects(ids) \cup {None}]
    <3>1. store = [id \in ids |-> store[id]]
      BY <1>2
    <3> QED BY <2>2, <3>1
  <2> QED BY <1>4, <2>2, <2>3, <2>4 DEF Stores
<1>7. ServerOK
  <2>1. server \in Seq(Stores) /\ Len(server) = 1
    BY <1>3, <1>6
  <2> QED BY <2>1 DEF ServerOK
<1>8. DOMAIN informers = {}
  BY <1>3
<1>9. InformersOK
  BY <1>8 DEF InformersOK
<1>10. ThreadsOK
  <2>1. ASSUME NEW t \in DOMAIN threads
        PROVE  /\ threads[t] = [pc |-> "init", reads |-> {}]
               /\ setup.mode # "fake" /\ (setup.mode = "injection" => t = "main")
    <3>1. CASE s.mode = "injection"
      <4>1. threads = [u \in {"main"} |-> [pc |-> "init", reads |-> {}]]
        BY <1>3, <3>1
      <4> QED BY <1>4, <3>1, <4>1
    <3>2. CASE s.mode = "factory"
      <4>1. threads = [u \in {"t1", "t2"} |-> [pc |-> "init", reads |-> {}]]
        BY <1>3, <3>2
      <4> QED BY <1>4, <3>2, <4>1
    <3>3. CASE s.mode = "fake"
      <4>1. threads = [u \in {} |-> [pc |-> "init", reads |-> {}]]
        BY <1>3, <3>3
      <4> QED BY <4>1
    <3> QED BY <1>4, <1>5, <3>1, <3>2, <3>3 DEF SetupOK
  <2> QED BY <1>8, <2>1 DEF ThreadsOK, ThreadOK
<1>11. TrackerOK
  <2>1. Latest = store
    BY <1>3 DEF Latest, Last
  <2>2. CASE s.mode = "fake"
    <3>1. TrackerKeys
      BY <1>3, <2>2, NewFakeKeys DEF TrackerKeys
    <3>2. ASSUME NEW id \in alike PROVE AlikeAt(id)
      <4>1. id \in ids /\ (store[id] = None \/ UnsafeGuessKindToResource(k) = Plural[k])
        BY <1>3, <2>2
      <4>2. /\ <<Plural[k], id>> \in DOMAIN NewSimpleClientset(k, store) <=> store[id] # None
            /\ store[id] # None =>
                 NewSimpleClientset(k, store)[<<Plural[k], id>>] = Content(store[id])
        BY <1>6, <4>1, NewFake
      <4>3. tracker = NewSimpleClientset(k, store)
        BY <1>3, <2>2
      <4> QED BY <1>4, <2>1, <4>2, <4>3 DEF AlikeAt
    <3>3. alike \subseteq Ids
      BY <1>3, <1>4, <2>2
    <3> QED BY <1>4, <2>2, <3>1, <3>2, <3>3 DEF TrackerOK
  <2>3. CASE s.mode # "fake"
    <3>1. alike = {} /\ DOMAIN tracker = {}
      BY <1>3, <2>3
    <3> QED BY <3>1 DEF TrackerOK, TrackerKeys
  <2> QED BY <2>2, <2>3
<1> QED BY <1>5, <1>7, <1>9, <1>10, <1>11 DEF IInv, CacheInv

\* The version a factory's cache is at, 0 before its first list, and that a
\* step that is not a call moves the caches forward.
CacheAt(s) ==
  IF <<s, kind>> \in DOMAIN informers /\ informers[<<s, kind>>].synced
  THEN informers[<<s, kind>>].at ELSE 0

Advances ==
  /\ setup' = setup /\ server' = server /\ tracker' = tracker /\ alike' = alike
  /\ \A s : CacheAt(s)' >= CacheAt(s)

LEMMA CacheAtType ==
  ASSUME CacheInv, NEW s
  PROVE  CacheAt(s) \in 0..Len(server) /\ Len(server) \in Nat /\ Len(server) >= 1
<1>1. Len(server) \in Nat /\ Len(server) >= 1
  BY DEF CacheInv, ServerOK
<1>2. <<s, kind>> \in DOMAIN informers => informers[<<s, kind>>].at \in 1..Len(server)
  BY DEF CacheInv, InformersOK, InformerOK
<1> QED BY <1>1, <1>2 DEF CacheAt

LEMMA CacheAtNext ==
  ASSUME CacheInv', NEW s
  PROVE  CacheAt(s)' \in 0..Len(server') /\ Len(server') \in Nat /\ CacheAt(s)' \in Nat
<1>1. Len(server') \in Nat
  BY DEF CacheInv, ServerOK
<1>2. (<<s, kind>> \in DOMAIN informers)' => informers'[<<s, kind>>'].at \in 1..Len(server')
  BY DEF CacheInv, InformersOK, InformerOK
<1> QED BY <1>1, <1>2 DEF CacheAt

\* A cache moves forward when its informer does, or is new and not synced.
LEMMA MovesForward ==
  ASSUME CacheInv, CacheInv', setup' = setup,
         \A x \in DOMAIN informers : /\ x \in DOMAIN informers'
                                     /\ informers'[x].at >= informers[x].at
                                     /\ informers[x].synced => informers'[x].synced
  PROVE  \A s : CacheAt(s)' >= CacheAt(s)
<1> SUFFICES ASSUME NEW s PROVE CacheAt(s)' >= CacheAt(s)
  OBVIOUS
<1>1. kind' = kind
  BY DEF kind
<1>2. CacheAt(s) \in Nat /\ CacheAt(s)' \in Nat
  BY CacheAtType, CacheAtNext
<1> DEFINE x == <<s, kind>>
<1>3. CASE x \in DOMAIN informers /\ informers[x].synced
  BY <1>1, <1>3 DEF CacheAt
<1>4. CASE ~(x \in DOMAIN informers /\ informers[x].synced)
  <2>1. CacheAt(s) = 0
    BY <1>4 DEF CacheAt
  <2> QED BY <1>2, <2>1
<1> QED BY <1>3, <1>4

LEMMA StartUpStep ==
  ASSUME CacheInv, NEW t \in DOMAIN threads, StartUp(t)
  PROVE  InformersOK' /\ ThreadsOK'
         /\ \A x \in DOMAIN informers : /\ x \in DOMAIN informers'
                                        /\ informers'[x].at >= informers[x].at
                                        /\ informers[x].synced => informers'[x].synced
<1>0. kind \in Kinds
  BY SelectorsAre DEF CacheInv
<1>1. setup.mode # "fake"
  BY DEF CacheInv, ThreadsOK, ThreadOK
<1>2. DOMAIN Factories = Range(setup.selectors)
      /\ \A s \in DOMAIN Factories :
           /\ V1alpha1(Factories[s])[kind] = InformerDef(s)
           /\ ForResource(Factories[s], Plural[kind]) = InformerDef(s)
  BY <1>0, <1>1, FactoryIs, ResourceOfKind DEF CacheInv
<1>3. \/ SetupInformers(t) \/ StartInformers(t) \/ Start(t) \/ WaitForCacheSync(t)
      \/ \E s \in Range(setup.selectors) : \E def : def = InformerDef(s) /\ Request(t, s, def)
  <2> HIDE DEF InformerDef
  <2> QED BY <1>2 DEF StartUp
<1>4. \A x \in DOMAIN informers : InformerOK(x, informers[x]) /\ informers[x].at \in Nat
  BY AtIsVersion
<1>5. ASSUME NEW x \in DOMAIN informers, ~informers[x].started
      PROVE  /\ Run(informers[x], 1).at >= informers[x].at
             /\ Run(informers[x], 1).synced = informers[x].synced
  <2>1. PICK inf : inf = informers[x]
    OBVIOUS
  <2>2. Run(inf, 1).at = inf.at /\ Run(inf, 1).synced = inf.synced
    BY <1>4, <1>5, <2>1, RunOK
  <2> QED BY <1>4, <2>1, <2>2
<1>6. CASE SetupInformers(t)
  BY <1>6, SetupInformersStep
<1>7. CASE StartInformers(t)
  <2>1. ASSUME NEW x \in DOMAIN informers
        PROVE  x \in DOMAIN informers' /\ informers'[x] = Run(informers[x], 1) /\ ~informers[x].started
    <3>1. ~informers[x].started /\ setup.mode = "injection"
      BY <1>7 DEF StartInformers, CacheInv, ThreadsOK, ThreadOK
    <3>2. x[1] \in Range(setup.selectors)
      BY <1>4 DEF InformerOK
    <3>3. Times(x[1]) = 1
      BY <3>1, <3>2, OneIs DEF CacheInv, Times
    <3>4. x \in DOMAIN informers' /\ informers'[x] = Run(informers[x], Times(x[1]))
      BY <1>7 DEF StartInformers, Times
    <3> QED BY <3>1, <3>3, <3>4
  <2> QED BY <1>5, <1>7, <2>1, StartInformersStep
<1>8. CASE Start(t)
  <2>1. ASSUME NEW x \in DOMAIN informers
        PROVE  /\ x \in DOMAIN informers'
               /\ \/ informers'[x] = informers[x]
                  \/ informers'[x] = Run(informers[x], 1) /\ ~informers[x].started
    BY <1>8 DEF Start
  <2>2. ASSUME NEW x \in DOMAIN informers
        PROVE  /\ informers'[x].at >= informers[x].at
               /\ informers[x].synced => informers'[x].synced
    BY <1>4, <1>5, <2>1
  <2> QED BY <1>8, <2>1, <2>2, StartStep
<1>9. CASE WaitForCacheSync(t)
  <2>1. informers' = informers
    BY <1>9 DEF WaitForCacheSync
  <2> QED BY <1>4, <1>9, <2>1, WaitStep
<1>10. CASE \E s \in Range(setup.selectors) : \E def : def = InformerDef(s) /\ Request(t, s, def)
  <2>1. PICK s \in Range(setup.selectors) : Request(t, s, InformerDef(s))
    BY <1>10
  <2>2. InformersOK' /\ ThreadsOK'
    BY <2>1, RequestStep
  <2>3. \A x \in DOMAIN informers : x \in DOMAIN informers' /\ informers'[x] = informers[x]
    BY <2>1 DEF Request, InformerFor
  <2> QED BY <1>4, <2>2, <2>3
<1> QED BY <1>3, <1>6, <1>7, <1>8, <1>9, <1>10

LEMMA ReflectorStep ==
  ASSUME CacheInv, NEW ref \in DOMAIN informers, NEW r \in DOMAIN informers[ref].reflectors,
         Reflect(ref, r) \/ WatchExpires(ref, r)
  PROVE  InformersOK' /\ ThreadsOK'
         /\ \A x \in DOMAIN informers : /\ x \in DOMAIN informers'
                                        /\ informers'[x].at >= informers[x].at
                                        /\ informers[x].synced => informers'[x].synced
<1>1. ASSUME NEW p \in DOMAIN server, List(ref, r, p) PROVE InformersOK' /\ ThreadsOK' /\ Forward
  BY <1>1, ListStep
<1>2. ASSUME WatchEvent(ref, r) PROVE InformersOK' /\ ThreadsOK' /\ Forward
  BY <1>2, WatchEventStep
<1>3. CASE WatchExpires(ref, r)
  <2>1. /\ InformersOK' /\ ThreadsOK' /\ DOMAIN informers' = DOMAIN informers
        /\ \A x \in DOMAIN informers :
             informers'[x].at = informers[x].at /\ informers'[x].synced = informers[x].synced
    BY <1>3, WatchExpiresStep
  <2>2. \A x \in DOMAIN informers : informers[x].at \in Nat
    BY AtIsVersion
  <2> QED BY <2>1, <2>2
<1>4. CASE Reflect(ref, r)
  BY <1>1, <1>2, <1>4 DEF Reflect, Forward
<1> QED BY <1>3, <1>4

\* The calls of Next, and its other steps.
Calls ==
  \E id \in Ids :
    \/ \E body \in Bodies :
         \/ Create(id, body)
         \/ \E copy \in Copies(id) : Update(id, copy, body) \/ UpdateStatus(id, copy, body)
         \/ \E field \in Fields : Patch(id, field, body[field])
    \/ Delete(id)
    \/ \E sel \in {""} \cup Labels : DeleteCollection(id[1], sel)

Others ==
  \/ \E t \in DOMAIN threads : StartUp(t)
  \/ \E ref \in DOMAIN informers : \E r \in DOMAIN informers[ref].reflectors :
       Reflect(ref, r) \/ WatchExpires(ref, r)

LEMMA CallsStep ==
  ASSUME SetupOK, ServerOK, TrackerOK, Calls
  PROVE  CallOK
<1>1. PICK id \in Ids :
        \/ \E body \in Bodies :
             \/ Create(id, body)
             \/ \E copy \in Copies(id) : Update(id, copy, body) \/ UpdateStatus(id, copy, body)
             \/ \E field \in Fields : Patch(id, field, body[field])
        \/ Delete(id)
        \/ \E sel \in {""} \cup Labels : DeleteCollection(id[1], sel)
  BY DEF Calls
<1>2. ASSUME NEW body \in Bodies, Create(id, body) PROVE CallOK
  BY <1>2, CreateCall
<1>3. ASSUME NEW body \in Bodies, NEW copy \in Copies(id), Update(id, copy, body) PROVE CallOK
  BY <1>3, UpdateCall
<1>4. ASSUME NEW body \in Bodies, NEW copy \in Copies(id), UpdateStatus(id, copy, body)
      PROVE  CallOK
  BY <1>4, UpdateStatusCall
<1>5. ASSUME NEW body \in Bodies, NEW field \in Fields, Patch(id, field, body[field]) PROVE CallOK
  BY <1>5, PatchCall
<1>6. CASE Delete(id)
  BY <1>6, DeleteCall
<1>7. ASSUME NEW sel \in {""} \cup Labels, DeleteCollection(id[1], sel) PROVE CallOK
  <2>1. PICK ns : ns = id[1] /\ DeleteCollection(ns, sel)
    BY <1>7
  <2> QED BY <2>1, DeleteCollectionCall
<1> QED BY <1>1, <1>2, <1>3, <1>4, <1>5, <1>6, <1>7

\* A step that is not a call leaves server and fake as they are.
Same == setup' = setup /\ server' = server /\ tracker' = tracker /\ alike' = alike

LEMMA SameKeeps ==
  ASSUME SetupOK, ServerOK, TrackerOK, Same
  PROVE  SetupOK' /\ ServerOK' /\ TrackerOK'
<1>1. SetupOK' /\ Ids' = Ids /\ kind' = kind /\ Stores' = Stores
  BY SetupStays DEF Same
<1>2. ServerOK'
  BY <1>1 DEF Same, ServerOK, DifferInOne
<1>3. \A id : AlikeAt(id)' = AlikeAt(id)
  BY <1>1 DEF Same, AlikeAt, Latest, Content
<1> QED BY <1>1, <1>2, <1>3 DEF Same, TrackerOK, TrackerKeys

LEMMA OthersSame ==
  ASSUME Others
  PROVE  Same
<1>1. ASSUME NEW t, StartUp(t) PROVE Same
  BY <1>1 DEF Same, StartUp, SetupInformers, StartInformers, Start, WaitForCacheSync, Request
<1>2. ASSUME NEW ref, NEW r, Reflect(ref, r) \/ WatchExpires(ref, r) PROVE Same
  BY <1>2 DEF Same, Reflect, List, WatchEvent, WatchExpires
<1> QED BY <1>1, <1>2 DEF Others

\* Every step is a call, or leaves server and fake alone, and keeps both in
\* order ...
LEMMA ServerStep ==
  ASSUME SetupOK, ServerOK, TrackerOK, [Next]_vars
  PROVE  /\ SetupOK' /\ ServerOK' /\ TrackerOK'
         /\ CallOK \/ (Same /\ (Others \/ UNCHANGED <<informers, threads>>))
<1>1. Calls \/ Others \/ UNCHANGED vars
  BY DEF Next, Calls, Others, Fields
<1>2. CASE Calls
  <2>1. CallOK
    BY <1>2, CallsStep
  <2>2. SetupOK'
    BY <2>1, SetupStays DEF CallOK, Grows
  <2> QED BY <2>1, <2>2 DEF CallOK
<1>3. CASE Others
  BY <1>3, OthersSame, SameKeeps
<1>4. CASE UNCHANGED vars
  <2>1. Same /\ UNCHANGED <<informers, threads>>
    BY <1>4 DEF vars, Same
  <2> QED BY <2>1, SameKeeps
<1> QED BY <1>1, <1>2, <1>3, <1>4

\* ... and the caches too, which only ever move forward.
LEMMA CacheStep ==
  ASSUME CacheInv, TrackerOK, [Next]_vars
  PROVE  CacheInv' /\ (Grows \/ Advances)
<1>1. /\ SetupOK' /\ ServerOK' /\ TrackerOK'
      /\ CallOK \/ (Same /\ (Others \/ UNCHANGED <<informers, threads>>))
  BY ServerStep DEF CacheInv
<1>2. CASE CallOK
  BY <1>1, <1>2, GrowsKeeps DEF CallOK, CacheInv
<1>3. CASE Same /\ (Others \/ UNCHANGED <<informers, threads>>)
  <2>1. OneSelector' = OneSelector
    BY <1>3, SetupStays DEF Same, CacheInv
  <2>2. /\ InformersOK' /\ ThreadsOK'
        /\ \A x \in DOMAIN informers : /\ x \in DOMAIN informers'
                                       /\ informers'[x].at >= informers[x].at
                                       /\ informers[x].synced => informers'[x].synced
    <3>1. CASE Others
      BY <3>1, StartUpStep, ReflectorStep DEF Others
    <3>2. CASE UNCHANGED <<informers, threads>>
      <4>1. Grows
        <5>1. Len(server) \in Nat
          BY DEF CacheInv, ServerOK
        <5> QED BY <1>3, <3>2, <5>1 DEF Grows, Same
      <4>2. InformersOK' /\ ThreadsOK'
        BY <4>1, GrowsKeeps
      <4> QED BY <3>2, <4>2, AtIsVersion
    <3> QED BY <1>3, <3>1, <3>2
  <2>3. CacheInv'
    BY <1>1, <2>1, <2>2 DEF CacheInv
  <2>4. \A s : CacheAt(s)' >= CacheAt(s)
    BY <1>3, <2>2, <2>3, MovesForward DEF Same
  <2> QED BY <1>3, <2>3, <2>4 DEF Advances, Same
<1> QED BY <1>1, <1>2, <1>3

LEMMA CacheInvariant == Spec => []IInv
<1>1. Init => IInv
  BY CacheInit
<1>2. IInv /\ [Next]_vars => IInv'
  <2> SUFFICES ASSUME IInv, [Next]_vars PROVE IInv'
    OBVIOUS
  <2>1. SetupOK' /\ ServerOK' /\ TrackerOK' /\ setup' = setup
    BY ServerStep DEF IInv, CallOK, Grows, Same
  <2>2. OneSelector' = OneSelector
    BY <2>1, SetupStays DEF IInv
  <2>3. OneSelector => CacheInv'
    BY CacheStep DEF IInv
  <2> QED BY <2>1, <2>2, <2>3 DEF IInv
<1> QED BY <1>1, <1>2, PTL DEF Spec

-----------------------------------------------------------------------------
(* Theorems.                                                               *)

\* What a factory is asked for of an object is what its informer shows.
LEMMA AskedIs ==
  ASSUME NEW s, NEW p, NEW id \in Ids
  PROVE  Asked(s, p, id) = IF id \in Visible(s, p) THEN {server[p][id]} ELSE {}
BY DEF Asked, Visible, ScopeNamespace

\* A lister shows what the informer is to show, by key and in its namespace.
ShowsVisible(lister, s, p, id) ==
  /\ lister.Get = IF id \in Visible(s, p) THEN {server[p][id]} ELSE {}
  /\ \A o : o \in lister.List <=>
       \E j \in Visible(s, p) : j \in Ids /\ j[1] = id[1] /\ o = server[p][j]

LEMMA ListerShows ==
  ASSUME SetupOK, ServerOK, NEW s, NEW p \in 1..Len(server), NEW store,
         ShowsVersion(store, s, p), NEW id \in Ids
  PROVE  ShowsVisible(Lister(kind, store, id[1], id[2]), s, p, id)
<1> DEFINE lister == Lister(kind, store, id[1], id[2])
           mine == {x \in Ids : x[1] = id[1]}
<1>1. /\ id = <<id[1], id[2]>> /\ (Namespaced(kind) <=> id[1] # "") /\ kind \in Kinds
  BY IdsArePairs DEF SetupOK, kind
<1>2. lister = IF Namespaced(kind) THEN NamespaceLister(store, id[1], id[2])
               ELSE ClusterLister(store, id[2])
  BY <1>1, ListerOfKind
<1>3. lister.Get = GetByKey(store, MetaNamespaceKey(id))
  <2>1. CASE Namespaced(kind)
    <3>1. MetaNamespaceKey(id) = <<id[1], id[2]>>
      BY <1>1, <2>1 DEF MetaNamespaceKey
    <3> QED BY <1>2, <2>1, <3>1 DEF NamespaceLister
  <2>2. CASE ~Namespaced(kind)
    <3>1. MetaNamespaceKey(id) = <<id[2]>>
      BY <1>1, <2>2 DEF MetaNamespaceKey
    <3> QED BY <1>2, <2>2, <3>1 DEF ClusterLister
  <2> QED BY <2>1, <2>2
<1>4. \A j \in Ids : MetaNamespaceKey(j) \in DOMAIN store <=> j \in Visible(s, p)
  <2>1. Visible(s, p) \subseteq Ids
    BY DEF Visible
  <2> QED BY <2>1, KeysDiffer DEF ShowsVersion
<1>5. lister.Get = IF id \in Visible(s, p) THEN {server[p][id]} ELSE {}
  <2>1. id \in Visible(s, p) => store[MetaNamespaceKey(id)] = server[p][id]
    BY DEF ShowsVersion
  <2> QED BY <1>3, <1>4, <2>1 DEF GetByKey
<1>6. \A o : o \in Range(store) <=> \E j \in Visible(s, p) : o = server[p][j]
  BY DEF Range, ShowsVersion
<1>7. \A j \in Visible(s, p) : j \in Ids /\ server[p][j].id = j
  <2>1. server[p] \in Stores
    BY DEF ServerOK
  <2> QED BY <2>1 DEF Stores, Visible, InScope
<1>8. \A o : o \in lister.List <=> \E j \in Visible(s, p) : j \in mine /\ o = server[p][j]
  <2>1. CASE Namespaced(kind)
    <3>1. lister.List = {o \in Range(store) : o.id[1] = id[1]}
      BY <1>2, <2>1 DEF NamespaceLister
    <3> QED BY <1>6, <1>7, <3>1
  <2>2. CASE ~Namespaced(kind)
    <3>1. lister.List = Range(store)
      BY <1>2, <2>2 DEF ClusterLister
    <3>2. \A j \in Ids : j[1] = ""
      BY <2>2, IdsArePairs
    <3> QED BY <1>6, <1>7, <3>1, <3>2
  <2> QED BY <2>1, <2>2
<1> QED BY <1>5, <1>8 DEF ShowsVisible

\* Once a thread has waited for the caches, its listers show all of one version
\* of the server's store in the factory's namespace and with its selector, and
\* nothing else: for any number of factories a program makes itself, and for
\* the one that is injected when there is one selector (OneSelector is part of
\* the property), in whatever order threads start and watches expire.
THEOREM ListersShow == Spec => []ListersShowASnapshot
<1>1. IInv => ListersShowASnapshot
  <2> SUFFICES ASSUME IInv, OneSelector,
                      NEW t \in DOMAIN threads, threads[t].pc = "ready",
                      NEW ref \in threads[t].reads, NEW id \in Ids
               PROVE  LET inf    == informers[ref]
                          lister == Lister(kind, inf.store, id[1], id[2])
                      IN  /\ lister.Get = Asked(ref[1], inf.at, id)
                          /\ lister.List = UNION {Asked(ref[1], inf.at, i) :
                                                    i \in {j \in Ids : j[1] = id[1]}}
    BY DEF ListersShowASnapshot
  <2>0. CacheInv
    BY DEF IInv
  <2>1. ref \in DOMAIN informers /\ informers[ref].synced
    BY <2>0 DEF CacheInv, ThreadsOK, ThreadOK
  <2>2. SetupOK /\ ServerOK
    BY <2>0 DEF CacheInv
  <2> DEFINE s == ref[1]
             p == informers[ref].at
             store == informers[ref].store
  <2>3. p \in 1..Len(server) /\ ShowsVersion(store, s, p)
    BY <2>0, <2>1, AtIsVersion DEF InformerOK
  <2> HIDE DEF s, p, store
  <2>4. \A j \in Ids : Asked(s, p, j) = IF j \in Visible(s, p) THEN {server[p][j]} ELSE {}
    BY AskedIs
  <2>5. /\ Lister(kind, store, id[1], id[2]).Get =
             IF id \in Visible(s, p) THEN {server[p][id]} ELSE {}
        /\ \A o : o \in Lister(kind, store, id[1], id[2]).List <=>
             \E j \in Visible(s, p) : j \in Ids /\ j[1] = id[1] /\ o = server[p][j]
    <3>1. ShowsVisible(Lister(kind, store, id[1], id[2]), s, p, id)
      BY <2>2, <2>3, ListerShows
    <3> QED BY <3>1 DEF ShowsVisible
  <2>6. Lister(kind, store, id[1], id[2]).List =
          UNION {Asked(s, p, j) : j \in {x \in Ids : x[1] = id[1]}}
    BY <2>4, <2>5
  <2>7. Lister(kind, store, id[1], id[2]).Get = Asked(s, p, id)
    BY <2>4, <2>5
  <2> QED BY <2>6, <2>7 DEF s, p, store
<1> QED BY <1>1, CacheInvariant, PTL

\* With the tracker holding the latest of the objects that are alike, Get and
\* List of the fake answer for them like those of the server.
LEMMA FakeAnswers ==
  ASSUME SetupOK, ServerOK, TrackerOK
  PROVE  FakeAgrees
<1> DEFINE fake == FakeNetworkingV1alpha1[kind]
           real == NetworkingV1alpha1[kind]
<1>1. /\ fake.List.resource = Plural[kind]
      /\ \A id \in Ids : TrackerKey(fake.Get, id) = <<Plural[kind], id>>
  BY FakeActs DEF Methods
<1>2. Reaches(real.Get) /\ Reaches(real.List)
  BY MethodsReach DEF Methods
<1>3. /\ Latest = server[Len(server)] /\ DOMAIN Latest = Ids
      /\ \A id \in Ids : Latest[id] # None => Latest[id].id = id
  <2>1. Latest = server[Len(server)] /\ Latest \in Stores
    BY DEF ServerOK, Latest, Last
  <2> QED BY <2>1 DEF Stores
<1>4. ASSUME NEW req \in {real.Get, real.List}, NEW ns, NEW sel, NEW o
      PROVE  o \in ListAt(Len(server), req, ns, sel) <=>
               (\E j \in Ids : o = Latest[j]) /\ InScope(o, ns, sel)
  <2> HIDE DEF real
  <2> QED BY <1>2, <1>3 DEF ListAt, Range
<1> HIDE DEF fake, real
<1>5. /\ alike \subseteq Ids
      /\ \A id \in alike : <<Plural[kind], id>> \in DOMAIN tracker <=> Latest[id] # None
      /\ \A id \in alike :
           Latest[id] # None => tracker[<<Plural[kind], id>>] = Content(Latest[id])
      /\ \A k \in DOMAIN tracker : k = <<k[1], k[2]>>
  BY DEF TrackerOK, TrackerKeys, AlikeAt
<1>6. ASSUME NEW id \in alike
      PROVE  GetByKey(tracker, TrackerKey(fake.Get, id)) =
               {Content(o) : o \in {Latest[id]} \cap ListAt(Len(server), real.Get, "", "")}
  <2>9. TrackerKey(fake.Get, id) = <<Plural[kind], id>>
    BY <1>1, <1>5
  <2>0. \A o : o \in ListAt(Len(server), real.Get, "", "") <=>
                 (\E j \in Ids : o = Latest[j]) /\ InScope(o, "", "")
    BY <1>4
  <2>1. CASE Latest[id] = None
    <3>1. {Latest[id]} \cap ListAt(Len(server), real.Get, "", "") = {}
      BY <2>0, <2>1 DEF InScope
    <3>2. GetByKey(tracker, <<Plural[kind], id>>) = {}
      BY <1>5, <2>1 DEF GetByKey
    <3> QED BY <2>9, <3>1, <3>2
  <2>2. CASE Latest[id] # None
    <3>1. {Latest[id]} \cap ListAt(Len(server), real.Get, "", "") = {Latest[id]}
      BY <1>5, <2>0, <2>2 DEF InScope
    <3>2. GetByKey(tracker, <<Plural[kind], id>>) = {Content(Latest[id])}
      BY <1>5, <2>2 DEF GetByKey
    <3> QED BY <2>9, <3>1, <3>2
  <2> QED BY <2>1, <2>2
<1>7. ASSUME NEW id \in alike, NEW sel \in {""} \cup Labels
      PROVE  {<<key[2], tracker[key]>> : key \in {k \in DOMAIN tracker :
                  /\ k[1] = fake.List.resource /\ k[2][1] = id[1] /\ k[2] \in alike
                  /\ sel \in {"", tracker[k].label}}} =
             {<<o.id, Content(o)>> : o \in {o \in ListAt(Len(server), real.List, id[1], sel) :
                                              o.id \in alike}}
  <2> DEFINE keys == {k \in DOMAIN tracker :
                        /\ k[1] = fake.List.resource /\ k[2][1] = id[1] /\ k[2] \in alike
                        /\ sel \in {"", tracker[k].label}}
             objs == {o \in ListAt(Len(server), real.List, id[1], sel) : o.id \in alike}
  <2>0. \A o : o \in objs <=> /\ \E j \in Ids : o = Latest[j]
                              /\ InScope(o, id[1], sel) /\ o.id \in alike
    <3>1. \A o : o \in ListAt(Len(server), real.List, id[1], sel) <=>
                   (\E j \in Ids : o = Latest[j]) /\ InScope(o, id[1], sel)
      BY <1>4
    <3> QED BY <3>1
  <2>1. ASSUME NEW j \in alike, Latest[j] # None
        PROVE  <<Plural[kind], j>> \in keys <=> Latest[j] \in objs
    <3>1. tracker[<<Plural[kind], j>>].label = Latest[j].label
      <4>1. tracker[<<Plural[kind], j>>] = Content(Latest[j])
        BY <1>5, <2>1
      <4>2. \A o : Content(o).label = o.label
        BY DEF Content
      <4> QED BY <4>1, <4>2
    <3>2. id[1] \in {"", j[1]} <=> j[1] = id[1]
      BY <1>5, IdsArePairs
    <3>3. <<Plural[kind], j>>[1] = Plural[kind] /\ <<Plural[kind], j>>[2] = j
      OBVIOUS
    <3>4. <<Plural[kind], j>> \in keys <=> j[1] = id[1] /\ sel \in {"", Latest[j].label}
      BY <1>1, <1>5, <2>1, <3>1, <3>3
    <3>5. Latest[j] \in objs <=> id[1] \in {"", j[1]} /\ sel \in {"", Latest[j].label}
      <4>1. j \in Ids /\ Latest[j].id = j
        BY <1>3, <1>5, <2>1
      <4> HIDE DEF objs
      <4> QED BY <2>0, <2>1, <4>1 DEF InScope
    <3> QED BY <3>2, <3>4, <3>5
  <2>2. \A k \in keys : \E j \in alike : Latest[j] # None /\ k = <<Plural[kind], j>>
    <3> SUFFICES ASSUME NEW k \in keys PROVE \E j \in alike : Latest[j] # None /\ k = <<Plural[kind], j>>
      OBVIOUS
    <3>1. k \in DOMAIN tracker /\ k[2] \in alike /\ k = <<Plural[kind], k[2]>>
      BY <1>1, <1>5
    <3> QED BY <1>5, <3>1
  <2>3. \A o \in objs : \E j \in alike : Latest[j] # None /\ o = Latest[j]
    <3> SUFFICES ASSUME NEW o \in objs PROVE \E j \in alike : Latest[j] # None /\ o = Latest[j]
      OBVIOUS
    <3> HIDE DEF objs
    <3>1. PICK j \in Ids : o = Latest[j]
      BY <2>0
    <3>2. o # None /\ o.id \in alike
      BY <2>0 DEF InScope
    <3> QED BY <1>3, <3>1, <3>2
  <2> HIDE DEF keys, objs
  <2>4. ASSUME NEW k \in keys
        PROVE  \E o \in objs : <<k[2], tracker[k]>> = <<o.id, Content(o)>>
    <3>1. PICK j \in alike : Latest[j] # None /\ k = <<Plural[kind], j>>
      BY <2>2
    <3>2. k[2] = j /\ Latest[j].id = j
      BY <1>3, <1>5, <3>1
    <3> QED BY <1>5, <2>1, <3>1, <3>2
  <2>5. ASSUME NEW o \in objs
        PROVE  \E k \in keys : <<k[2], tracker[k]>> = <<o.id, Content(o)>>
    <3>1. PICK j \in alike : Latest[j] # None /\ o = Latest[j]
      BY <2>3
    <3>2. o.id = j /\ <<Plural[kind], j>>[2] = j
      BY <1>3, <1>5, <3>1
    <3> QED BY <1>5, <2>1, <3>1, <3>2
  <2>6. {<<k[2], tracker[k]>> : k \in keys} = {<<o.id, Content(o)>> : o \in objs}
    <3>1. ASSUME NEW z \in {<<k[2], tracker[k]>> : k \in keys}
          PROVE  z \in {<<o.id, Content(o)>> : o \in objs}
      <4>1. PICK k \in keys : z = <<k[2], tracker[k]>>
        OBVIOUS
      <4> QED BY <2>4, <4>1
    <3>2. ASSUME NEW z \in {<<o.id, Content(o)>> : o \in objs}
          PROVE  z \in {<<k[2], tracker[k]>> : k \in keys}
      <4>1. PICK o \in objs : z = <<o.id, Content(o)>>
        OBVIOUS
      <4> QED BY <2>5, <4>1
    <3> QED BY <3>1, <3>2
  <2> QED BY <2>6 DEF keys, objs
<1> QED BY <1>6, <1>7 DEF FakeAgrees, fake, real

\* The fake clientset answers Get and List like the API server for every object
\* that is alike: for those the calls so far did not treat differently, of any
\* kind, with any bodies and in any order.  Which calls do is in the comment of
\* FakeAgrees, and in the last argument of every Call.
THEOREM FakeAgreesHolds == Spec => []FakeAgrees
<1>1. IInv => FakeAgrees
  BY FakeAnswers DEF IInv
<1> QED BY <1>1, CacheInvariant, PTL

-----------------------------------------------------------------------------
(* The caches of the factories as logs of versions.                        *)

\* The versions the cache of the factory for s shows of an object.
Shown(s, id) == [p \in 0..Len(server) |-> IF p = 0 THEN {} ELSE Asked(s, p, id)]

LEMMA LogIs ==
  ASSUME NEW s, NEW id
  PROVE  ObjectLog(s, id) = VersionsFrom(Shown(s, id), CacheAt(s), Len(server))
BY DEF ObjectLog, CacheAt, Shown

\* Calls and steps of the caches add to an object's log at the end, or drop
\* its first versions.
LEMMA LogMoves ==
  ASSUME CacheInv, TrackerOK, [Next]_vars, NEW s, NEW id \in Ids
  PROVE  Cache!Moves(ObjectLog(s, id), ObjectLog(s, id)')
<1>1. CacheInv' /\ (Grows \/ Advances)
  BY CacheStep
<1>2. CacheAt(s) \in 0..Len(server) /\ Len(server) \in Nat /\ Len(server) >= 1
  BY CacheAtType
<1>3. CacheAt(s)' \in 0..Len(server') /\ Len(server') \in Nat
  BY <1>1, CacheAtNext
<1>4. /\ setup' = setup /\ kind' = kind /\ Ids' = Ids
  BY <1>1, SetupStays DEF CacheInv, Grows, Advances
<1>5. PICK a, b, c, d, old, new :
        /\ a = CacheAt(s) /\ b = Len(server) /\ old = Shown(s, id)
        /\ c = CacheAt(s)' /\ d = Len(server') /\ new = Shown(s, id)'
  OBVIOUS
<1>6. ObjectLog(s, id) = VersionsFrom(old, a, b)
  BY <1>5, LogIs
<1>7. ObjectLog(s, id)' = VersionsFrom(new, c, d)
  BY <1>5 DEF ObjectLog, CacheAt, Shown
<1>8. /\ a \in Nat /\ b \in Nat /\ c \in Nat /\ d \in Nat
      /\ a <= b /\ c <= d /\ b >= 1
  BY <1>2, <1>3, <1>5
<1>9. /\ \A p \in 0..b : old[p] = IF p = 0 THEN {} ELSE Asked(s, p, id)
      /\ \A p \in 0..d : new[p] = IF p = 0 THEN {} ELSE Asked(s, p, id)'
  BY <1>5 DEF Shown
<1>10. CASE Grows
  <2>1. c = a /\ b <= d
    <3>1. informers' = informers /\ Len(server') >= Len(server)
      BY <1>10 DEF Grows
    <3>2. CacheAt(s)' = CacheAt(s)
      BY <1>4, <3>1 DEF CacheAt
    <3> QED BY <1>5, <1>8, <3>1, <3>2
  <2>2. \A p \in 0..b : new[p] = old[p]
    <3>1. \A p \in 1..b : Asked(s, p, id)' = Asked(s, p, id)
      BY <1>4, <1>5, <1>10 DEF Grows, Asked, InScope
    <3> QED BY <1>8, <1>9, <2>1, <3>1
  <2>3. PICK e : \A p \in (b + 1)..d : p # e => server'[p][id] = server'[p - 1][id]
    BY <1>5, <1>10 DEF Grows
  <2>4. \A p \in (b + 1)..d : p # e => new[p] = new[p - 1]
    <3> SUFFICES ASSUME NEW p \in (b + 1)..d, p # e PROVE new[p] = new[p - 1]
      OBVIOUS
    <3>1. p \in 1..d /\ p - 1 \in 1..d
      BY <1>8
    <3>2. server'[p][id] = server'[p - 1][id]
      BY <2>3
    <3>3. Asked(s, p, id)' = Asked(s, p - 1, id)'
      BY <3>2 DEF Asked
    <3> QED BY <1>9, <3>1, <3>3
  <2>5. \A p \in a..b : new[p] = old[p]
    BY <1>8, <2>2
  <2>6. \/ VersionsFrom(new, a, d) = VersionsFrom(old, a, b)
        \/ Cache!Write(VersionsFrom(old, a, b), VersionsFrom(new, a, d))
    BY <1>8, <2>1, <2>4, <2>5, LogGrows
  <2> QED BY <1>6, <1>7, <2>1, <2>6 DEF Cache!Moves
<1>11. CASE Advances
  <2>1. a <= c /\ b = d
    BY <1>5, <1>8, <1>11 DEF Advances
  <2>2. Shown(s, id)' = Shown(s, id)
    BY <1>4, <1>11 DEF Advances, Shown, Asked, InScope
  <2>3. new = old /\ c \in a..b
    BY <1>5, <1>8, <2>1, <2>2
  <2>4. \/ VersionsFrom(old, c, b) = VersionsFrom(old, a, b)
        \/ Cache!Deliver(VersionsFrom(old, a, b), VersionsFrom(old, c, b))
    BY <1>8, <2>3, LogShrinks
  <2> QED BY <1>6, <1>7, <2>1, <2>3, <2>4 DEF Cache!Moves
<1> QED BY <1>1, <1>10, <1>11

\* A cache is what IngressController assumes of the objects it reads: in the
\* cache of every factory a program makes, and of the injected one when there
\* is one selector, every object runs through a log of versions of the server,
\* to which calls add at the end and of which the cache only ever drops the
\* oldest.  No list, watch or expired watch takes it back.
THEOREM CacheImplementsVersionLog == Spec => ImplementsVersionLog
<1> DEFINE Logs == [x \in Cached |-> ObjectLog(x[1], x[2])]
<1>1. Init => Cache!Init
  <2> SUFFICES ASSUME Init, NEW x \in Cached PROVE Len(ObjectLog(x[1], x[2])) >= 1
    BY DEF Cache!Init
  <2>1. CacheInv
    BY CacheInit DEF Cached, IInv
  <2>2. CacheAt(x[1]) \in Nat /\ Len(server) \in Nat /\ CacheAt(x[1]) <= Len(server)
    BY <2>1, CacheAtType
  <2>3. Len(ObjectLog(x[1], x[2])) \in Nat \ {0}
    BY <2>2, LogIs, VersionsAre
  <2> QED BY <2>3
<1>2. IInv /\ [Next]_vars => [Cache!Next]_Logs
  <2> SUFFICES ASSUME IInv, [Next]_vars PROVE Cache!Next
    OBVIOUS
  <2>1. Cached' = Cached
    <3>1. setup' = setup
      BY ServerStep DEF IInv, CallOK, Grows, Same
    <3> QED BY <3>1, SetupStays DEF IInv, Cached
  <2>2. ASSUME NEW x \in Cached
        PROVE  Cache!Moves(ObjectLog(x[1], x[2]), ObjectLog(x[1], x[2])')
    <3>1. CacheInv /\ TrackerOK /\ x[2] \in Ids
      BY DEF Cached, IInv
    <3>2. PICK s, id : s = x[1] /\ id = x[2]
      OBVIOUS
    <3>3. Cache!Moves(ObjectLog(s, id), ObjectLog(s, id)')
      BY <3>1, <3>2, LogMoves
    <3> QED BY <3>2, <3>3
  <2>3. /\ DOMAIN Logs' = DOMAIN Logs /\ DOMAIN Logs = Cached
        /\ \A x \in Cached : /\ Logs[x] = ObjectLog(x[1], x[2])
                             /\ Logs'[x] = ObjectLog(x[1], x[2])'
    BY <2>1
  <2> QED BY <2>2, <2>3 DEF Cache!Next
<1> QED
  BY <1>1, <1>2, CacheInvariant, PTL DEF Spec, ImplementsVersionLog, Cache!Spec

=============================================================================
