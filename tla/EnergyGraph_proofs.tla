-------------------------- MODULE EnergyGraph_proofs --------------------------
(***************************************************************************)
(* Proofs about EnergyGraph, for every network: the distances a maneuver   *)
(* maintains are those of a full pass, and the flags follow them.          *)
(*                                                                         *)
(* The argument.  Distances are exact (Exact) when closed sources, and     *)
(* only they, are at 0, every other distance is one more than that of a    *)
(* node that feeds it, and what a supplied node feeds is supplied one step *)
(* further at most.  There is one exact labelling (ExactUnique), a full    *)
(* pass computes it (BfsExact), and so does the re-seeding of a cone after *)
(* elements were opened (ReseedExact) and the relaxation after elements    *)
(* were closed (RelaxExact), from exact distances before.  Cut and Join    *)
(* state what the roots and seeds of a maneuver must satisfy for that; one *)
(* lemma per maneuver shows that those of the code do.                     *)
(***************************************************************************)
EXTENDS EnergyGraph, FiniteSetTheorems, WellFoundedInduction, TLAPS

\* Distances of some nodes.
Labelings == UNION {[D -> Nat] : D \in SUBSET Nodes}

\* The network: every line present has two ends.
Network == \A e \in Present : ends[e] \in Nodes \X Nodes

-----------------------------------------------------------------------------
(* Numbers, recursion and distances *)

\* A set of natural numbers that is not empty has a least member.
LEMMA Least ==
  ASSUME NEW S \in SUBSET Nat, S # {}
  PROVE  \E x \in S : \A y \in S : x <= y
<1>1. PICK x \in S : \A y \in S : ~ (<<y, x>> \in OpToRel(<, Nat))
  BY NatLessThanWellFounded, WFMin
<1>2. \A y \in S : ~(y < x)
  BY <1>1 DEF OpToRel
<1> QED BY <1>2

\* What holds at 0 and at k if it does at k - 1 holds everywhere.
LEMMA Steps ==
  ASSUME NEW N \in Nat, NEW T \in SUBSET (0 .. N), 0 \in T, \A k \in 1 .. N : k - 1 \in T => k \in T
  PROVE  T = 0 .. N
<1> SUFFICES ASSUME (0 .. N) \ T # {} PROVE FALSE
  OBVIOUS
<1>1. (0 .. N) \ T \in SUBSET Nat
  OBVIOUS
<1>2. PICK x \in (0 .. N) \ T : \A y \in (0 .. N) \ T : x <= y
  BY <1>1, Least
<1>3. x \in 1 .. N /\ x - 1 \in 0 .. N
  BY <1>2
<1>4. x - 1 \in T
  BY <1>2, <1>3
<1> QED BY <1>2, <1>3, <1>4

\* A function that gives the next value from the number of the step and the value before has its sequence of values.
Follows(g, N, x0, f) == g[0] = x0 /\ \A k \in 1 .. N : g[k] = f[<<k, g[k - 1]>>]
LEMMA Sequence ==
  ASSUME NEW N \in Nat, NEW S, NEW x0 \in S, NEW f \in [(1 .. N) \X S -> S]
  PROVE  \E g \in [0 .. N -> S] : Follows(g, N, x0, f)
<1> DEFINE Good(g, j) == g[0] = x0 /\ \A k \in 1 .. j : g[k] = f[<<k, g[k - 1]>>]
           T == {j \in 0 .. N : \E g \in [0 .. j -> S] : Good(g, j)}
<1>1. 0 \in T
  <2> DEFINE g == [k \in 0 .. 0 |-> x0]
  <2>1. g \in [0 .. 0 -> S] /\ g[0] = x0
    OBVIOUS
  <2> HIDE DEF g
  <2>2. Good(g, 0)
    BY <2>1
  <2> QED BY <2>1, <2>2
<1>2. ASSUME NEW j \in 1 .. N, j - 1 \in T PROVE j \in T
  <2>1. PICK g \in [0 .. (j - 1) -> S] : Good(g, j - 1)
    BY <1>2
  <2> DEFINE y == f[<<j, g[j - 1]>>]
             h == [k \in 0 .. j |-> IF k = j THEN y ELSE g[k]]
  <2>2. g[j - 1] \in S /\ y \in S
    OBVIOUS
  <2>3. h \in [0 .. j -> S]
    <3> HIDE DEF y
    <3> QED BY <2>2
  <2>4. h[0] = x0 /\ h[j] = y /\ \A k \in 0 .. (j - 1) : h[k] = g[k]
    BY <2>1
  <2>5. ASSUME NEW k \in 1 .. j PROVE h[k] = f[<<k, h[k - 1]>>]
    <3>1. CASE k = j
      <4>1. k - 1 \in 0 .. (j - 1)
        OBVIOUS
      <4>2. h[k - 1] = g[j - 1] /\ h[k] = y
        BY <2>4, <3>1, <4>1
      <4> HIDE DEF h
      <4> QED BY <3>1, <4>2
    <3>2. CASE k # j
      <4>1. k \in 1 .. (j - 1) /\ k \in 0 .. (j - 1) /\ k - 1 \in 0 .. (j - 1)
        BY <3>2
      <4> HIDE DEF h, y
      <4>2. g[k] = f[<<k, g[k - 1]>>]
        BY <2>1, <4>1
      <4> QED BY <2>4, <4>1, <4>2
    <3> QED BY <3>1, <3>2
  <2> HIDE DEF h, y
  <2>6. Good(h, j)
    BY <2>4, <2>5
  <2> QED BY <2>3, <2>6
<1>3. T \in SUBSET (0 .. N) /\ N \in T
  <2> HIDE DEF Good
  <2>1. T \in SUBSET (0 .. N)
    OBVIOUS
  <2>2. \A k \in 1 .. N : k - 1 \in T => k \in T
    BY <1>2
  <2> HIDE DEF T
  <2>3. T = 0 .. N
    BY <1>1, <2>1, <2>2, Steps
  <2> QED BY <2>1, <2>3
<1> QED BY <1>3 DEF Follows

\* A labelling is a function on some nodes.
LEMMA Labelling ==
  ASSUME NEW d
  PROVE  /\ d \in Labelings => /\ DOMAIN d \subseteq Nodes /\ d = [n \in DOMAIN d |-> d[n]]
                               /\ \A n \in DOMAIN d : d[n] \in Nat
         /\ DOMAIN d \subseteq Nodes /\ d = [n \in DOMAIN d |-> d[n]] /\ (\A n \in DOMAIN d : d[n] \in Nat)
              => d \in Labelings
BY DEF Labelings

\* There are finitely many nodes, so many rounds.
LEMMA RoundsNat == Cardinality(Nodes) \in Nat /\ Rounds = 0 .. Cardinality(Nodes)
BY NodesAssumption, FS_CardinalityType DEF Rounds

\* Where every positive distance is one more than another, all numbers below a distance are distances, so that none
\* reaches the number of nodes.
LEMMA Short ==
  ASSUME NEW d \in Labelings, \A n \in DOMAIN d : d[n] > 0 => \E m \in DOMAIN d : d[m] + 1 = d[n]
  PROVE  \A n \in DOMAIN d : d[n] < Cardinality(Nodes)
<1> SUFFICES ASSUME NEW n \in DOMAIN d PROVE d[n] < Cardinality(Nodes)
  OBVIOUS
<1>1. DOMAIN d \subseteq Nodes /\ \A m \in DOMAIN d : d[m] \in Nat
  BY Labelling
<1> DEFINE j == d[n]
           T == {i \in 0 .. j : \E m \in DOMAIN d : d[m] = j - i}
<1>2. j \in Nat
  BY <1>1
<1> HIDE DEF j
<1>3. 0 \in T
  BY <1>1, <1>2 DEF j
<1>4. ASSUME NEW i \in 1 .. j, i - 1 \in T PROVE i \in T
  <2>1. PICK m \in DOMAIN d : d[m] = j - (i - 1)
    BY <1>4
  <2>2. d[m] > 0
    BY <1>2, <2>1
  <2>3. PICK l \in DOMAIN d : d[l] + 1 = d[m]
    BY <2>2
  <2>4. d[l] = j - i
    BY <1>1, <1>2, <2>1, <2>3
  <2> QED BY <2>4
<1>5. T = 0 .. j
  <2>1. T \in SUBSET (0 .. j)
    OBVIOUS
  <2>2. \A i \in 1 .. j : i - 1 \in T => i \in T
    BY <1>4
  <2> HIDE DEF T
  <2> QED BY <1>2, <1>3, <2>1, <2>2, Steps
<1> DEFINE A == {m \in DOMAIN d : d[m] <= j}
           f == [m \in A |-> d[m]]
<1>6. IsFiniteSet(A) /\ Cardinality(A) <= Cardinality(Nodes) /\ Cardinality(A) \in Nat
  <2>1. A \subseteq Nodes
    BY <1>1
  <2> HIDE DEF A
  <2> QED BY <2>1, NodesAssumption, FS_Subset, FS_CardinalityType
<1>7. f \in Surjection(A, 0 .. j)
  <2>1. f \in [A -> 0 .. j]
    BY <1>1, <1>2
  <2>2. \A y \in 0 .. j : \E m \in A : f[m] = y
    <3> TAKE y \in 0 .. j
    <3>1. j - y \in 0 .. j /\ j - (j - y) = y
      BY <1>2
    <3>2. j - y \in T
      BY <1>5, <3>1
    <3>3. PICK m \in DOMAIN d : d[m] = y
      BY <3>1, <3>2
    <3>4. m \in A
      BY <1>2, <3>3
    <3> QED BY <3>3, <3>4
  <2> HIDE DEF f, A
  <2> QED BY <2>1, <2>2 DEF Surjection
<1>8. Cardinality(0 .. j) <= Cardinality(A)
  <2> HIDE DEF f, A
  <2> QED BY <1>6, <1>7, FS_Surjection
<1>9. Cardinality(0 .. j) = j + 1
  BY <1>2, FS_Interval
<1> QED BY <1>2, <1>6, <1>8, <1>9, RoundsNat DEF j

\* If each step down from a distance d also bounds e, then e is bounded by d.
LEMMA Dominated ==
  ASSUME NEW d \in Labelings, NEW e \in Labelings,
         \A n \in DOMAIN d : d[n] = 0 => n \in DOMAIN e /\ e[n] = 0,
         \A n \in DOMAIN d : d[n] > 0 =>
           \E m \in DOMAIN d : d[m] + 1 = d[n] /\ (m \in DOMAIN e => n \in DOMAIN e /\ e[n] <= e[m] + 1)
  PROVE  \A n \in DOMAIN d : n \in DOMAIN e /\ e[n] <= d[n]
<1>1. \A n \in DOMAIN d : d[n] \in Nat
  BY Labelling
<1>2. \A n \in DOMAIN e : e[n] \in Nat
  BY Labelling
<1> DEFINE Bad == {n \in DOMAIN d : ~(n \in DOMAIN e /\ e[n] <= d[n])}
           V == {d[n] : n \in Bad}
<1> SUFFICES ASSUME Bad # {} PROVE FALSE
  OBVIOUS
<1>3. V \in SUBSET Nat /\ V # {}
  BY <1>1
<1>4. PICK v \in V : \A w \in V : v <= w
  <2> HIDE DEF V
  <2> QED BY <1>3, Least
<1>5. PICK n \in Bad : d[n] = v
  OBVIOUS
<1>6. CASE v = 0
  BY <1>5, <1>6
<1>7. CASE v > 0
  <2>0. n \in DOMAIN d /\ d[n] > 0
    BY <1>5, <1>7
  <2>1. PICK m \in DOMAIN d : d[m] + 1 = d[n] /\ (m \in DOMAIN e => n \in DOMAIN e /\ e[n] <= e[m] + 1)
    BY <2>0
  <2>2. m \notin Bad
    <3>1. ~(v <= d[m])
      BY <1>1, <1>5, <2>1
    <3> QED BY <1>4, <3>1
  <2>3. m \in DOMAIN e /\ e[m] <= d[m]
    BY <2>2
  <2>4. n \in DOMAIN e /\ e[n] <= e[m] + 1
    BY <2>1, <2>3
  <2>5. e[n] <= d[n]
    BY <1>1, <1>2, <2>1, <2>3, <2>4
  <2> QED BY <1>5, <2>4, <2>5
<1> QED BY <1>1, <1>3, <1>5, <1>6, <1>7

-----------------------------------------------------------------------------
(* Exact distances *)

\* What every node feeds, as a function, and the closed sources.
Feeding(open, eo, ways) == [n \in Nodes |-> Fed(n, open, eo, ways)]
Feedings == [Nodes -> SUBSET Nodes]

\* Every positive distance is one more than that of a node that feeds it.
Grounded(d, F) == \A n \in DOMAIN d : d[n] > 0 => \E m \in DOMAIN d : d[m] + 1 = d[n] /\ n \in F[m]
\* What a supplied node feeds is supplied, at most one step further.
Closed(d, F) == \A m \in DOMAIN d : \A n \in F[m] : n \in DOMAIN d /\ d[n] <= d[m] + 1
\* The distances of the nodes that the sources S supply when every node n feeds F[n].
Exact(d, S, F) ==
  /\ d \in Labelings
  /\ \A n \in S : n \in DOMAIN d /\ d[n] = 0
  /\ \A n \in DOMAIN d : d[n] = 0 => n \in S
  /\ Grounded(d, F)
  /\ Closed(d, F)

\* What is fed with more sources and more links is supplied with fewer steps.
LEMMA ExactMonotone ==
  ASSUME NEW S, NEW T, NEW F, NEW G, NEW d, NEW e, S \subseteq T, \A n \in Nodes : F[n] \subseteq G[n],
         Exact(d, S, F), Exact(e, T, G)
  PROVE  \A n \in DOMAIN d : n \in DOMAIN e /\ e[n] <= d[n]
<1>1. d \in Labelings /\ e \in Labelings
  BY DEF Exact
<1>2. DOMAIN d \subseteq Nodes
  BY <1>1, Labelling
<1>3. \A n \in DOMAIN d : d[n] = 0 => n \in DOMAIN e /\ e[n] = 0
  BY DEF Exact
<1>4. ASSUME NEW n \in DOMAIN d, d[n] > 0
      PROVE  \E m \in DOMAIN d : d[m] + 1 = d[n] /\ (m \in DOMAIN e => n \in DOMAIN e /\ e[n] <= e[m] + 1)
  <2>1. PICK m \in DOMAIN d : d[m] + 1 = d[n] /\ n \in F[m]
    BY <1>4 DEF Exact, Grounded
  <2>2. n \in G[m]
    BY <1>2, <2>1
  <2> QED BY <2>1, <2>2 DEF Exact, Closed
<1> QED BY <1>1, <1>3, <1>4, Dominated

\* There is one exact labelling.
LEMMA ExactUnique ==
  ASSUME NEW S, NEW F, NEW d, NEW e, Exact(d, S, F), Exact(e, S, F)
  PROVE  d = e
<1>1. \A n \in DOMAIN d : n \in DOMAIN e /\ e[n] <= d[n]
  BY ExactMonotone
<1>2. \A n \in DOMAIN e : n \in DOMAIN d /\ d[n] <= e[n]
  BY ExactMonotone
<1>3. d \in Labelings /\ e \in Labelings
  BY DEF Exact
<1>4. /\ d = [n \in DOMAIN d |-> d[n]] /\ \A n \in DOMAIN d : d[n] \in Nat
      /\ e = [n \in DOMAIN e |-> e[n]] /\ \A n \in DOMAIN e : e[n] \in Nat
  BY <1>3, Labelling
<1>5. DOMAIN d = DOMAIN e
  BY <1>1, <1>2
<1>6. \A n \in DOMAIN d : d[n] = e[n]
  BY <1>1, <1>2, <1>4
<1> QED BY <1>4, <1>5, <1>6

\* What feeds what is a function from nodes to sets of nodes.
LEMMA FeedingType ==
  ASSUME Network, NEW open, NEW eo, NEW ways
  PROVE  Feeding(open, eo, ways) \in Feedings
BY DEF Network, Feeding, Feedings, Fed, Adj, Other, Present

-----------------------------------------------------------------------------
(* Waves: the full pass and the re-seeded cone *)

\* Round k of a wave over the nodes C: what a node at k - 1 feeds and has no distance yet is at k.
Wave(s, k, C, F) ==
  LET new == {n \in C \ DOMAIN s : \E x \in DOMAIN s : s[x] = k - 1 /\ n \in F[x]}
  IN  [n \in DOMAIN s \cup new |-> IF n \in DOMAIN s THEN s[n] ELSE k]

\* What k rounds from the distances s0 have reached.
Reached(s, k, s0, C, F) ==
  /\ s \in Labelings
  /\ \A n \in DOMAIN s0 : n \in DOMAIN s /\ s[n] = s0[n]
  /\ \A n \in DOMAIN s \ DOMAIN s0 :
        n \in C /\ 0 < s[n] /\ s[n] <= k /\ \E m \in DOMAIN s : s[m] + 1 = s[n] /\ n \in F[m]
  /\ \A m \in DOMAIN s : s[m] < k =>
        \A n \in F[m] \cap C : n \in DOMAIN s /\ (n \notin DOMAIN s0 => s[n] <= s[m] + 1)

LEMMA WaveType ==
  ASSUME NEW s \in Labelings, NEW k \in Nat, NEW C \in SUBSET Nodes, NEW F
  PROVE  Wave(s, k, C, F) \in Labelings
<1> DEFINE w == Wave(s, k, C, F)
<1>1. DOMAIN s \subseteq Nodes /\ \A n \in DOMAIN s : s[n] \in Nat
  BY Labelling
<1>2. DOMAIN w \subseteq Nodes
  BY <1>1 DEF Wave
<1>3. \A n \in DOMAIN w : w[n] \in Nat
  BY <1>1 DEF Wave
<1>4. w = [n \in DOMAIN w |-> w[n]]
  BY DEF Wave
<1> HIDE DEF w
<1> QED BY <1>2, <1>3, <1>4, Labelling DEF w

LEMMA WaveStep ==
  ASSUME NEW s0 \in Labelings, NEW C \in SUBSET Nodes, NEW F \in Feedings, NEW k \in Nat \ {0},
         NEW s, Reached(s, k - 1, s0, C, F)
  PROVE  Reached(Wave(s, k, C, F), k, s0, C, F)
<1> DEFINE w == Wave(s, k, C, F)
           new == {n \in C \ DOMAIN s : \E x \in DOMAIN s : s[x] = k - 1 /\ n \in F[x]}
<1>1. s \in Labelings /\ w \in Labelings
  BY WaveType DEF Reached
<1>2. DOMAIN s \subseteq Nodes /\ \A n \in DOMAIN s : s[n] \in Nat
  BY <1>1, Labelling
<1>3. /\ DOMAIN w = DOMAIN s \cup new
      /\ \A n \in DOMAIN s : w[n] = s[n]
      /\ \A n \in new : w[n] = k
  BY DEF Wave
<1> HIDE DEF w
<1>4. \A n \in DOMAIN s0 : n \in DOMAIN w /\ w[n] = s0[n]
  BY <1>3 DEF Reached
<1>5. ASSUME NEW n \in DOMAIN w \ DOMAIN s0
      PROVE  n \in C /\ 0 < w[n] /\ w[n] <= k /\ \E m \in DOMAIN w : w[m] + 1 = w[n] /\ n \in F[m]
  <2>1. CASE n \in DOMAIN s
    <3>1. n \in C /\ 0 < s[n] /\ s[n] <= k - 1 /\ \E m \in DOMAIN s : s[m] + 1 = s[n] /\ n \in F[m]
      BY <1>5, <2>1 DEF Reached
    <3> QED BY <1>2, <1>3, <2>1, <3>1
  <2>2. CASE n \in new
    <3>1. PICK x \in DOMAIN s : s[x] = k - 1 /\ n \in F[x]
      BY <2>2
    <3>2. w[x] = k - 1 /\ w[n] = k /\ x \in DOMAIN w
      BY <1>3, <2>2, <3>1
    <3> QED BY <2>2, <3>1, <3>2
  <2> HIDE DEF new
  <2> QED BY <1>3, <1>5, <2>1, <2>2
<1>6. ASSUME NEW m \in DOMAIN w, w[m] < k, NEW n \in F[m] \cap C
      PROVE  n \in DOMAIN w /\ (n \notin DOMAIN s0 => w[n] <= w[m] + 1)
  <2>1. m \in DOMAIN s /\ w[m] = s[m] /\ s[m] \in Nat
    BY <1>2, <1>3, <1>6
  <2>2. CASE s[m] < k - 1
    <3>1. n \in DOMAIN s /\ (n \notin DOMAIN s0 => s[n] <= s[m] + 1)
      BY <1>6, <2>1, <2>2 DEF Reached
    <3> QED BY <1>3, <2>1, <3>1
  <2>3. CASE s[m] = k - 1
    <3>1. CASE n \in DOMAIN s
      <4>1. n \notin DOMAIN s0 => s[n] <= k - 1 /\ s[n] \in Nat
        BY <1>2, <3>1 DEF Reached
      <4> QED BY <1>3, <2>1, <2>3, <3>1, <4>1
    <3>2. CASE n \notin DOMAIN s
      <4>1. n \in new
        BY <1>6, <2>1, <2>3, <3>2
      <4> HIDE DEF new
      <4> QED BY <1>3, <2>1, <2>3, <4>1
    <3> QED BY <3>1, <3>2
  <2> QED BY <1>6, <2>1, <2>2, <2>3
<1> QED BY <1>1, <1>4, <1>5, <1>6 DEF Reached, w

\* What a wave has reached when it has ended.
Ended(s, s0, C, F) ==
  /\ s \in Labelings /\ Grounded(s, F)
  /\ \A n \in DOMAIN s0 : n \in DOMAIN s /\ s[n] = s0[n]
  /\ \A n \in DOMAIN s \ DOMAIN s0 : n \in C /\ 0 < s[n]
  /\ \A m \in DOMAIN s : \A n \in F[m] \cap C : n \in DOMAIN s /\ (n \notin DOMAIN s0 => s[n] <= s[m] + 1)

\* A wave from grounded distances ends before the rounds do.
LEMMA WaveEnds ==
  ASSUME NEW s0 \in Labelings, NEW C \in SUBSET Nodes, NEW F \in Feedings, Grounded(s0, F),
         NEW s, Reached(s, Cardinality(Nodes), s0, C, F)
  PROVE  Ended(s, s0, C, F)
<1>1. s \in Labelings
  BY DEF Reached
<1>2. ASSUME NEW n \in DOMAIN s, s[n] > 0 PROVE \E m \in DOMAIN s : s[m] + 1 = s[n] /\ n \in F[m]
  <2>1. CASE n \in DOMAIN s0
    <3>1. s0[n] > 0
      BY <1>2, <2>1 DEF Reached
    <3>2. PICK m \in DOMAIN s0 : s0[m] + 1 = s0[n] /\ n \in F[m]
      BY <2>1, <3>1 DEF Grounded
    <3> QED BY <2>1, <3>2 DEF Reached
  <2>2. CASE n \notin DOMAIN s0
    BY <1>2, <2>2 DEF Reached
  <2> QED BY <2>1, <2>2
<1>3. Grounded(s, F)
  BY <1>2 DEF Grounded
<1>4. \A n \in DOMAIN s : s[n] < Cardinality(Nodes)
  BY <1>1, <1>2, Short
<1> QED BY <1>1, <1>3, <1>4 DEF Reached, Ended

\* The rounds of a full pass are a wave over all nodes, those of a re-seeding one over the cone.
LEMMA SpreadIsWave ==
  ASSUME Network, NEW s \in Labelings, NEW k, NEW open, NEW eo, NEW ways
  PROVE  Spread(s, k, open, eo, ways) = Wave(s, k, Nodes, Feeding(open, eo, ways))
<1> DEFINE F == Feeding(open, eo, ways)
           fed == UNION {Fed(n, open, eo, ways) : n \in {m \in DOMAIN s : s[m] = k - 1}}
           new == {n \in Nodes \ DOMAIN s : \E x \in DOMAIN s : s[x] = k - 1 /\ n \in F[x]}
<1>1. DOMAIN s \subseteq Nodes
  BY Labelling
<1>2. \A m \in DOMAIN s : F[m] = Fed(m, open, eo, ways) /\ F[m] \subseteq Nodes
  <2>1. F \in Feedings
    BY FeedingType
  <2>2. \A m \in Nodes : F[m] = Fed(m, open, eo, ways)
    BY DEF Feeding
  <2> HIDE DEF F
  <2> QED BY <1>1, <2>1, <2>2 DEF Feedings
<1> HIDE DEF F
<1>3. DOMAIN s \cup fed = DOMAIN s \cup new
  BY <1>2
<1>4. Spread(s, k, open, eo, ways) = [n \in DOMAIN s \cup fed |-> IF n \in DOMAIN s THEN s[n] ELSE k]
  BY DEF Spread
<1>5. Wave(s, k, Nodes, F) = [n \in DOMAIN s \cup new |-> IF n \in DOMAIN s THEN s[n] ELSE k]
  BY DEF Wave
<1> HIDE DEF fed, new
<1>6. Spread(s, k, open, eo, ways) = Wave(s, k, Nodes, F)
  BY <1>3, <1>4, <1>5
<1> QED BY <1>6 DEF F

LEMMA SettleIsWave ==
  ASSUME NEW s \in Labelings, NEW k, NEW C \in SUBSET Nodes, NEW open, NEW eo, NEW ways
  PROVE  Settle(s, k, C, open, eo, ways) = Wave(s, k, C, Feeding(open, eo, ways))
<1> DEFINE F == Feeding(open, eo, ways)
<1>1. DOMAIN s \subseteq Nodes
  BY Labelling
<1>2. \A m \in DOMAIN s : F[m] = Fed(m, open, eo, ways)
  BY <1>1 DEF Feeding
<1> HIDE DEF F
<1>3. {n \in C \ DOMAIN s : \E x \in DOMAIN s : s[x] = k - 1 /\ n \in Fed(x, open, eo, ways)}
        = {n \in C \ DOMAIN s : \E x \in DOMAIN s : s[x] = k - 1 /\ n \in F[x]}
  BY <1>2
<1>4. Settle(s, k, C, open, eo, ways) = Wave(s, k, C, F)
  BY <1>3 DEF Settle, Wave
<1> QED BY <1>4 DEF F

\* The values of the full pass, round by round.
LEMMA LevelsValues ==
  ASSUME Network, NEW open, NEW eo, NEW ways
  PROVE  LET level == Levels(open, eo, ways)
         IN  /\ level[0] = [n \in Sources \ open |-> 0]
             /\ \A k \in Rounds \ {0} : level[k] = Spread(level[k - 1], k, open, eo, ways)
<1> DEFINE N == Cardinality(Nodes)
           x0 == [n \in Sources \ open |-> 0]
           f == [p \in (1 .. N) \X Labelings |-> Spread(p[2], p[1], open, eo, ways)]
<1>1. N \in Nat /\ Rounds = 0 .. N
  BY RoundsNat
<1>2. x0 \in Labelings
  <2>1. DOMAIN x0 \subseteq Nodes /\ x0 = [n \in DOMAIN x0 |-> x0[n]] /\ \A n \in DOMAIN x0 : x0[n] \in Nat
    BY NodesAssumption
  <2> HIDE DEF x0
  <2> QED BY <2>1, Labelling
<1>3. \A k \in 1 .. N, s \in Labelings : Spread(s, k, open, eo, ways) \in Labelings
  BY <1>1, SpreadIsWave, WaveType
<1>4. f \in [(1 .. N) \X Labelings -> Labelings]
  BY <1>3
<1>5. \A k \in 1 .. N, s \in Labelings : f[<<k, s>>] = Spread(s, k, open, eo, ways)
  OBVIOUS
<1> HIDE DEF f, x0, N
<1>6. PICK g \in [0 .. N -> Labelings] : g[0] = x0 /\ \A k \in 1 .. N : g[k] = f[<<k, g[k - 1]>>]
  <2>1. \E g \in [0 .. N -> Labelings] : Follows(g, N, x0, f)
    BY <1>1, <1>2, <1>4, Sequence
  <2> QED BY <2>1 DEF Follows
<1> DEFINE Is(h) == h = [k \in Rounds |-> IF k = 0 THEN x0 ELSE Spread(h[k - 1], k, open, eo, ways)]
           level == CHOOSE h : Is(h)
<1>7. Is(g)
  <2>1. \A k \in Rounds : g[k] = IF k = 0 THEN x0 ELSE Spread(g[k - 1], k, open, eo, ways)
    <3> TAKE k \in Rounds
    <3>1. CASE k # 0
      <4>1. k \in 1 .. N /\ g[k - 1] \in Labelings
        BY <1>1, <3>1
      <4> QED BY <1>5, <1>6, <3>1, <4>1
    <3> QED BY <1>6, <3>1
  <2>2. g = [k \in Rounds |-> g[k]]
    BY <1>1
  <2> QED BY <2>1, <2>2
<1>8. Is(level)
  <2> HIDE DEF Is
  <2> QED BY <1>7
<1>9. Levels(open, eo, ways) = level
  BY DEF Levels, x0
<1>10. level[0] = x0 /\ \A k \in Rounds \ {0} : level[k] = Spread(level[k - 1], k, open, eo, ways)
  <2> HIDE DEF level
  <2> QED BY <1>1, <1>8
<1> QED BY <1>9, <1>10 DEF x0

\* The full pass computes the exact distances.
LEMMA BfsExact ==
  ASSUME Network, NEW open, NEW eo, NEW ways
  PROVE  Exact(Bfs(open, eo, ways), Sources \ open, Feeding(open, eo, ways))
<1> DEFINE N == Cardinality(Nodes)
           F == Feeding(open, eo, ways)
           x0 == [n \in Sources \ open |-> 0]
           level == Levels(open, eo, ways)
           T == {k \in 0 .. N : Reached(level[k], k, x0, Nodes, F)}
<1>1. N \in Nat /\ Rounds = 0 .. N
  BY RoundsNat
<1>2. x0 \in Labelings /\ F \in Feedings
  <2>1. DOMAIN x0 \subseteq Nodes /\ x0 = [n \in DOMAIN x0 |-> x0[n]] /\ \A n \in DOMAIN x0 : x0[n] \in Nat
    BY NodesAssumption
  <2> HIDE DEF x0
  <2> QED BY <2>1, Labelling, FeedingType
<1>3. level[0] = x0 /\ \A k \in Rounds \ {0} : level[k] = Spread(level[k - 1], k, open, eo, ways)
  BY LevelsValues
<1>4. DOMAIN x0 = Sources \ open /\ \A n \in DOMAIN x0 : x0[n] = 0
  OBVIOUS
<1> HIDE DEF x0, level, N, F
<1>5. 0 \in T
  <2>1. Reached(x0, 0, x0, Nodes, F)
    BY <1>2, <1>4 DEF Reached
  <2> QED BY <1>1, <1>3, <2>1
<1>6. ASSUME NEW k \in 1 .. N, k - 1 \in T PROVE k \in T
  <2>1. Reached(level[k - 1], k - 1, x0, Nodes, F)
    BY <1>6
  <2>2. level[k] = Spread(level[k - 1], k, open, eo, ways) /\ level[k - 1] \in Labelings
    BY <1>1, <1>3, <2>1 DEF Reached
  <2>3. level[k] = Wave(level[k - 1], k, Nodes, F)
    BY <2>2, SpreadIsWave DEF F
  <2>4. Reached(level[k], k, x0, Nodes, F)
    BY <1>1, <1>2, <2>1, <2>3, WaveStep
  <2> QED BY <1>1, <2>4
<1>7. Reached(level[N], N, x0, Nodes, F)
  <2>1. T \in SUBSET (0 .. N)
    OBVIOUS
  <2>2. \A k \in 1 .. N : k - 1 \in T => k \in T
    BY <1>6
  <2>3. N \in 0 .. N
    BY <1>1
  <2> HIDE DEF T
  <2>4. T = 0 .. N
    BY <1>1, <1>5, <2>1, <2>2, Steps
  <2> QED BY <2>3, <2>4 DEF T
<1> DEFINE s == level[N]
<1>8. Grounded(x0, F)
  BY <1>4 DEF Grounded
<1>9. /\ s \in Labelings /\ Grounded(s, F)
      /\ \A n \in DOMAIN x0 : n \in DOMAIN s /\ s[n] = x0[n]
      /\ \A n \in DOMAIN s \ DOMAIN x0 : n \in Nodes /\ 0 < s[n]
      /\ \A m \in DOMAIN s : \A n \in F[m] \cap Nodes : n \in DOMAIN s /\ (n \notin DOMAIN x0 => s[n] <= s[m] + 1)
  <2>1. Reached(s, Cardinality(Nodes), x0, Nodes, F)
    BY <1>7 DEF N
  <2> HIDE DEF s
  <2>2. Ended(s, x0, Nodes, F)
    BY <1>2, <1>8, <2>1, WaveEnds
  <2> QED BY <2>2 DEF Ended
<1>10. Bfs(open, eo, ways) = s
  BY DEF Bfs, level, N
<1> HIDE DEF s
<1>11. DOMAIN s \subseteq Nodes /\ \A n \in DOMAIN s : s[n] \in Nat
  BY <1>9, Labelling
<1>12. \A m \in DOMAIN s : F[m] \subseteq Nodes
  BY <1>2, <1>11 DEF Feedings
<1>13. Closed(s, F)
  BY <1>4, <1>9, <1>11, <1>12 DEF Closed
<1>14. \A n \in DOMAIN s : s[n] = 0 => n \in Sources \ open
  BY <1>4, <1>9, <1>11
<1> QED BY <1>4, <1>9, <1>10, <1>13, <1>14 DEF Exact, F

-----------------------------------------------------------------------------
(* Opening: the cone and what is settled in it *)

\* The nodes A and what hangs below them.
Grown(A, roots, d, open, eo, ways) == A \cup UNION {Hanging(n, roots, d, open, eo, ways) : n \in A}

\* The values of the cone's recursion, round by round.
LEMMA ConesValues ==
  ASSUME NEW roots \in SUBSET Nodes, NEW d \in Labelings, NEW open, NEW eo, NEW ways
  PROVE  LET grow == Cones(roots, d, open, eo, ways)
         IN  /\ grow[0] = roots
             /\ \A k \in Rounds \ {0} : grow[k] = Grown(grow[k - 1], roots, d, open, eo, ways)
<1> DEFINE N == Cardinality(Nodes)
           Next1(s) == s \cup UNION {Hanging(n, roots, d, open, eo, ways) : n \in s}
           f == [p \in (1 .. N) \X SUBSET Nodes |-> Next1(p[2])]
<1>1. N \in Nat /\ Rounds = 0 .. N
  BY RoundsNat
<1>2. \A s \in SUBSET Nodes : Next1(s) \in SUBSET Nodes
  <2>1. DOMAIN d \subseteq Nodes
    BY Labelling
  <2>2. \A n : Hanging(n, roots, d, open, eo, ways) \subseteq DOMAIN d
    BY DEF Hanging
  <2> QED BY <2>1, <2>2
<1>3. f \in [(1 .. N) \X SUBSET Nodes -> SUBSET Nodes]
  <2> HIDE DEF Next1
  <2> QED BY <1>2
<1>4. \A k \in 1 .. N, s \in SUBSET Nodes : f[<<k, s>>] = Next1(s)
  <2> HIDE DEF Next1
  <2> QED OBVIOUS
<1> HIDE DEF f, N
<1>5. PICK g \in [0 .. N -> SUBSET Nodes] : g[0] = roots /\ \A k \in 1 .. N : g[k] = f[<<k, g[k - 1]>>]
  <2> HIDE DEF Next1
  <2>1. \E g \in [0 .. N -> SUBSET Nodes] : Follows(g, N, roots, f)
    BY <1>1, <1>3, Sequence
  <2> QED BY <2>1 DEF Follows
<1> DEFINE Is(h) == h = [k \in Rounds |-> IF k = 0 THEN roots ELSE Next1(h[k - 1])]
           grow == CHOOSE h : Is(h)
<1>6. Is(g)
  <2> HIDE DEF Next1
  <2>1. \A k \in Rounds : g[k] = IF k = 0 THEN roots ELSE Next1(g[k - 1])
    <3> TAKE k \in Rounds
    <3>1. CASE k # 0
      <4>1. k \in 1 .. N /\ g[k - 1] \in SUBSET Nodes
        BY <1>1, <3>1
      <4> QED BY <1>4, <1>5, <3>1, <4>1
    <3> QED BY <1>5, <3>1
  <2>2. g = [k \in Rounds |-> g[k]]
    BY <1>1
  <2> QED BY <2>1, <2>2
<1>7. Is(grow)
  <2> HIDE DEF Is
  <2> QED BY <1>6
<1>8. Cones(roots, d, open, eo, ways) = grow
  BY DEF Cones
<1>9. grow[0] = roots /\ \A k \in Rounds \ {0} : grow[k] = Next1(grow[k - 1])
  <2> HIDE DEF grow, Next1
  <2> QED BY <1>1, <1>7
<1> QED BY <1>8, <1>9 DEF Grown

\* The cone holds the roots and all that hangs below it.
LEMMA ConeClosed ==
  ASSUME NEW d \in Labelings, \A n \in DOMAIN d : d[n] < Cardinality(Nodes),
         NEW roots \in SUBSET DOMAIN d, NEW open, NEW eo, NEW ways
  PROVE  LET C == Cone(roots, d, open, eo, ways)
         IN  /\ roots \subseteq C /\ C \subseteq DOMAIN d /\ \A n \in C : n \in roots \/ d[n] > 0
             /\ \A n \in C : Hanging(n, roots, d, open, eo, ways) \subseteq C
<1> DEFINE N == Cardinality(Nodes)
           H(n) == Hanging(n, roots, d, open, eo, ways)
           grow == Cones(roots, d, open, eo, ways)
           Good(C, k) == /\ roots \subseteq C /\ C \subseteq DOMAIN d /\ \A n \in C : n \in roots \/ d[n] > 0
                         /\ \A n \in C : d[n] < k => H(n) \subseteq C
           T == {k \in 0 .. N : Good(grow[k], k)}
<1>1. N \in Nat /\ Rounds = 0 .. N
  BY RoundsNat
<1>2. DOMAIN d \subseteq Nodes /\ \A n \in DOMAIN d : d[n] \in Nat
  BY Labelling
<1>3. grow[0] = roots /\ \A k \in Rounds \ {0} : grow[k] = grow[k - 1] \cup UNION {H(n) : n \in grow[k - 1]}
  <2>1. roots \in SUBSET Nodes
    BY <1>2
  <2>2. grow[0] = roots /\ \A k \in Rounds \ {0} : grow[k] = Grown(grow[k - 1], roots, d, open, eo, ways)
    BY <2>1, ConesValues
  <2> QED BY <2>2 DEF Grown
<1>4. \A n : \A m \in H(n) : n \in DOMAIN d /\ m \in DOMAIN d /\ d[m] = d[n] + 1
  BY DEF Hanging
<1> HIDE DEF grow, H, N
<1>5. 0 \in T
  BY <1>1, <1>2, <1>3
<1>6. ASSUME NEW k \in 1 .. N, k - 1 \in T PROVE k \in T
  <2> DEFINE A == grow[k - 1]
  <2>1. Good(A, k - 1)
    BY <1>6
  <2>2. k - 1 \in Nat /\ k \in Rounds \ {0}
    BY <1>1
  <2>3. grow[k] = A \cup UNION {H(n) : n \in A}
    BY <1>3, <2>2
  <2> HIDE DEF A
  <2> DEFINE B == A \cup UNION {H(n) : n \in A}
  <2>4. \A n \in B \ A : \E x \in A : n \in H(x)
    OBVIOUS
  <2>5. roots \subseteq B /\ B \subseteq DOMAIN d
    BY <1>4, <2>1
  <2>6. \A n \in B : n \in roots \/ d[n] > 0
    <3> TAKE n \in B
    <3>1. CASE n \in A
      BY <2>1, <3>1
    <3>2. CASE n \notin A
      <4>1. PICK x \in A : n \in H(x)
        BY <2>4, <3>2
      <4> QED BY <1>2, <1>4, <4>1
    <3> QED BY <3>1, <3>2
  <2>7. ASSUME NEW n \in B, d[n] < k PROVE H(n) \subseteq B
    <3>1. CASE n \in A
      BY <3>1
    <3>2. CASE n \notin A
      <4>1. PICK x \in A : n \in H(x)
        BY <2>4, <3>2
      <4>2. d[x] < k - 1
        BY <1>2, <1>4, <2>2, <2>7, <4>1
      <4> QED BY <2>1, <3>2, <4>1, <4>2
    <3> QED BY <3>1, <3>2
  <2> HIDE DEF B
  <2>8. Good(B, k)
    BY <2>5, <2>6, <2>7
  <2> QED BY <2>3, <2>8 DEF B
<1>7. Good(grow[N], N)
  <2> HIDE DEF Good
  <2>1. T \in SUBSET (0 .. N)
    OBVIOUS
  <2>2. \A k \in 1 .. N : k - 1 \in T => k \in T
    BY <1>6
  <2>3. N \in 0 .. N
    BY <1>1
  <2> HIDE DEF T
  <2>4. T = 0 .. N
    BY <1>1, <1>5, <2>1, <2>2, Steps
  <2> QED BY <2>3, <2>4 DEF T
<1>8. Cone(roots, d, open, eo, ways) = grow[N]
  BY DEF Cone, grow, N
<1>9. \A n \in grow[N] : d[n] < N
  BY <1>7 DEF N
<1> QED BY <1>7, <1>8, <1>9 DEF H

\* The values of the re-seeding, round by round.
LEMMA ReseedsValues ==
  ASSUME NEW d \in Labelings, NEW C \in SUBSET Nodes, NEW open, NEW eo, NEW ways
  PROVE  LET settle == Reseeds(C, d, open, eo, ways)
         IN  /\ settle[0] = [n \in DOMAIN d \ C |-> d[n]]
             /\ \A k \in Rounds \ {0} : settle[k] = Settle(settle[k - 1], k, C, open, eo, ways)
<1> DEFINE N == Cardinality(Nodes)
           x0 == [n \in DOMAIN d \ C |-> d[n]]
           f == [p \in (1 .. N) \X Labelings |-> Settle(p[2], p[1], C, open, eo, ways)]
<1>1. N \in Nat /\ Rounds = 0 .. N
  BY RoundsNat
<1>2. x0 \in Labelings
  <2>1. DOMAIN x0 \subseteq Nodes /\ x0 = [n \in DOMAIN x0 |-> x0[n]] /\ \A n \in DOMAIN x0 : x0[n] \in Nat
    BY Labelling
  <2> HIDE DEF x0
  <2> QED BY <2>1, Labelling
<1>3. \A k \in 1 .. N, s \in Labelings : Settle(s, k, C, open, eo, ways) \in Labelings
  BY <1>1, SettleIsWave, WaveType
<1>4. f \in [(1 .. N) \X Labelings -> Labelings]
  BY <1>3
<1>5. \A k \in 1 .. N, s \in Labelings : f[<<k, s>>] = Settle(s, k, C, open, eo, ways)
  OBVIOUS
<1> HIDE DEF f, x0, N
<1>6. PICK g \in [0 .. N -> Labelings] : g[0] = x0 /\ \A k \in 1 .. N : g[k] = f[<<k, g[k - 1]>>]
  <2>1. \E g \in [0 .. N -> Labelings] : Follows(g, N, x0, f)
    BY <1>1, <1>2, <1>4, Sequence
  <2> QED BY <2>1 DEF Follows
<1> DEFINE Is(h) == h = [k \in Rounds |-> IF k = 0 THEN x0 ELSE Settle(h[k - 1], k, C, open, eo, ways)]
           settle == CHOOSE h : Is(h)
<1>7. Is(g)
  <2>1. \A k \in Rounds : g[k] = IF k = 0 THEN x0 ELSE Settle(g[k - 1], k, C, open, eo, ways)
    <3> TAKE k \in Rounds
    <3>1. CASE k # 0
      <4>1. k \in 1 .. N /\ g[k - 1] \in Labelings
        BY <1>1, <3>1
      <4> QED BY <1>5, <1>6, <3>1, <4>1
    <3> QED BY <1>6, <3>1
  <2>2. g = [k \in Rounds |-> g[k]]
    BY <1>1
  <2> QED BY <2>1, <2>2
<1>8. Is(settle)
  <2> HIDE DEF Is
  <2> QED BY <1>7
<1>9. Reseeds(C, d, open, eo, ways) = settle
  BY DEF Reseeds, x0
<1>10. settle[0] = x0 /\ \A k \in Rounds \ {0} : settle[k] = Settle(settle[k - 1], k, C, open, eo, ways)
  <2> HIDE DEF settle
  <2> QED BY <1>1, <1>8
<1> QED BY <1>9, <1>10 DEF x0

\* What re-seeding the nodes C yields: their distances are dropped and reached again in waves from the rest.
LEMMA ReseedReached ==
  ASSUME Network, NEW d \in Labelings, NEW C \in SUBSET Nodes, NEW open, NEW eo, NEW ways
  PROVE  Reached(Reseed(C, d, open, eo, ways), Cardinality(Nodes), [n \in DOMAIN d \ C |-> d[n]], C,
                 Feeding(open, eo, ways))
<1> DEFINE N == Cardinality(Nodes)
           F == Feeding(open, eo, ways)
           x0 == [n \in DOMAIN d \ C |-> d[n]]
           settle == Reseeds(C, d, open, eo, ways)
           T == {k \in 0 .. N : Reached(settle[k], k, x0, C, F)}
<1>1. N \in Nat /\ Rounds = 0 .. N
  BY RoundsNat
<1>2. x0 \in Labelings /\ F \in Feedings
  <2>1. DOMAIN x0 \subseteq Nodes /\ x0 = [n \in DOMAIN x0 |-> x0[n]] /\ \A n \in DOMAIN x0 : x0[n] \in Nat
    BY Labelling
  <2> HIDE DEF x0
  <2> QED BY <2>1, Labelling, FeedingType
<1>3. settle[0] = x0 /\ \A k \in Rounds \ {0} : settle[k] = Settle(settle[k - 1], k, C, open, eo, ways)
  BY ReseedsValues
<1>4. DOMAIN x0 \cap C = {}
  OBVIOUS
<1> HIDE DEF x0, settle, N, F
<1>5. 0 \in T
  <2>1. Reached(x0, 0, x0, C, F)
    <3>1. \A m \in DOMAIN x0 : x0[m] \in Nat
      BY <1>2, Labelling
    <3> QED BY <1>2, <3>1 DEF Reached
  <2> QED BY <1>1, <1>3, <2>1
<1>6. ASSUME NEW k \in 1 .. N, k - 1 \in T PROVE k \in T
  <2>1. Reached(settle[k - 1], k - 1, x0, C, F)
    BY <1>6
  <2>2. settle[k] = Settle(settle[k - 1], k, C, open, eo, ways) /\ settle[k - 1] \in Labelings
    BY <1>1, <1>3, <2>1 DEF Reached
  <2>3. settle[k] = Wave(settle[k - 1], k, C, F)
    BY <2>2, SettleIsWave DEF F
  <2>4. Reached(settle[k], k, x0, C, F)
    BY <1>1, <1>2, <2>1, <2>3, WaveStep
  <2> QED BY <1>1, <2>4
<1>7. Reached(settle[N], N, x0, C, F)
  <2>1. T \in SUBSET (0 .. N)
    OBVIOUS
  <2>2. \A k \in 1 .. N : k - 1 \in T => k \in T
    BY <1>6
  <2>3. N \in 0 .. N
    BY <1>1
  <2> HIDE DEF T
  <2>4. T = 0 .. N
    BY <1>1, <1>5, <2>1, <2>2, Steps
  <2> QED BY <2>3, <2>4 DEF T
<1> QED BY <1>7 DEF Reseed, N, F, x0, settle

\* Without the nodes C the distances d stand on the sources T and on what G feeds.
StandsWithout(C, d, T, G) ==
  /\ C \subseteq DOMAIN d /\ C \cap T = {}
  /\ \A v \in DOMAIN d \ C : v \in T \/ \E u \in DOMAIN d \ C : d[u] + 1 = d[v] /\ v \in G[u]

\* Re-seeding is exact when links and sources only went away and all that does not keep a distance is in C.
LEMMA ReseedExact ==
  ASSUME Network, NEW S, NEW T \in SUBSET S, NEW F, NEW d, Exact(d, S, F),
         NEW open, NEW eo, NEW ways, NEW G, G = Feeding(open, eo, ways), \A n \in Nodes : G[n] \subseteq F[n],
         NEW C, StandsWithout(C, d, T, G)
  PROVE  LET s == Reseed(C, d, open, eo, ways)
         IN  Exact(s, T, G) /\ DOMAIN s \subseteq DOMAIN d /\ DOMAIN d \ C \subseteq DOMAIN s
<1> DEFINE N == Cardinality(Nodes)
           x0 == [n \in DOMAIN d \ C |-> d[n]]
           s == Reseed(C, d, open, eo, ways)
<1>0. /\ C \subseteq DOMAIN d /\ C \cap T = {}
      /\ \A v \in DOMAIN d \ C : v \in T \/ \E u \in DOMAIN d \ C : d[u] + 1 = d[v] /\ v \in G[u]
  BY DEF StandsWithout
<1>1. d \in Labelings /\ DOMAIN d \subseteq Nodes /\ \A n \in DOMAIN d : d[n] \in Nat
  BY Labelling DEF Exact
<1>2. x0 \in Labelings /\ G \in Feedings /\ C \in SUBSET Nodes
  <2>1. DOMAIN x0 \subseteq Nodes /\ x0 = [n \in DOMAIN x0 |-> x0[n]] /\ \A n \in DOMAIN x0 : x0[n] \in Nat
    BY <1>1
  <2> HIDE DEF x0
  <2> QED BY <1>0, <1>1, <2>1, Labelling, FeedingType
<1>3. DOMAIN x0 = DOMAIN d \ C /\ \A n \in DOMAIN x0 : x0[n] = d[n]
  OBVIOUS
<1>4. Reached(s, N, x0, C, G)
  BY <1>1, <1>2, ReseedReached
<1> HIDE DEF x0, s
<1>5. Grounded(x0, G)
  <2> SUFFICES ASSUME NEW n \in DOMAIN x0, x0[n] > 0 PROVE \E m \in DOMAIN x0 : x0[m] + 1 = x0[n] /\ n \in G[m]
    BY DEF Grounded
  <2>1. n \notin T
    BY <1>3 DEF Exact
  <2> QED BY <1>0, <1>3, <2>1
<1>6. /\ s \in Labelings /\ Grounded(s, G)
      /\ \A n \in DOMAIN x0 : n \in DOMAIN s /\ s[n] = x0[n]
      /\ \A n \in DOMAIN s \ DOMAIN x0 : n \in C /\ 0 < s[n]
      /\ \A m \in DOMAIN s : \A n \in G[m] \cap C : n \in DOMAIN s /\ (n \notin DOMAIN x0 => s[n] <= s[m] + 1)
  <2>1. Reached(s, Cardinality(Nodes), x0, C, G)
    BY <1>4
  <2>2. Ended(s, x0, C, G)
    BY <1>2, <1>5, <2>1, WaveEnds
  <2> QED BY <2>2 DEF Ended
<1>7. DOMAIN s \subseteq DOMAIN d /\ DOMAIN d \ C \subseteq DOMAIN s /\ \A n \in DOMAIN s : s[n] \in Nat
  BY <1>0, <1>3, <1>6, Labelling
<1>8. \A n \in T : n \in DOMAIN s /\ s[n] = 0
  BY <1>0, <1>3, <1>6 DEF Exact
<1>9. ASSUME NEW n \in DOMAIN s, s[n] = 0 PROVE n \in T /\ d[n] = 0
  <2>1. n \in DOMAIN x0 /\ d[n] = 0
    BY <1>3, <1>6, <1>9
  <2>2. \A u \in DOMAIN d : d[u] + 1 # d[n]
    BY <1>1, <2>1
  <2> QED BY <1>0, <1>3, <2>1, <2>2
<1>10. \A n \in DOMAIN s : n \in DOMAIN d /\ d[n] <= s[n]
  <2>1. ASSUME NEW n \in DOMAIN s, s[n] > 0
        PROVE  \E m \in DOMAIN s : s[m] + 1 = s[n] /\ (m \in DOMAIN d => n \in DOMAIN d /\ d[n] <= d[m] + 1)
    <3>1. PICK m \in DOMAIN s : s[m] + 1 = s[n] /\ n \in G[m]
      BY <1>6, <2>1 DEF Grounded
    <3>2. n \in F[m]
      BY <1>1, <1>7, <3>1
    <3> QED BY <3>1, <3>2 DEF Exact, Closed
  <2>2. \A n \in DOMAIN s : s[n] = 0 => n \in DOMAIN d /\ d[n] = 0
    BY <1>7, <1>9
  <2> QED BY <1>1, <1>6, <2>1, <2>2, Dominated
<1>11. ASSUME NEW m \in DOMAIN s, NEW n \in G[m] PROVE n \in DOMAIN s /\ s[n] <= s[m] + 1
  <2>1. n \in F[m] /\ m \in DOMAIN d
    BY <1>1, <1>7
  <2>2. n \in DOMAIN d /\ d[n] <= d[m] + 1
    BY <2>1 DEF Exact, Closed
  <2>3. CASE n \in C
    <3>1. n \notin DOMAIN x0
      BY <1>3, <2>3
    <3> QED BY <1>6, <2>3, <3>1
  <2>4. CASE n \notin C
    <3>1. n \in DOMAIN s /\ s[n] = d[n]
      BY <1>3, <1>6, <2>2, <2>4
    <3>2. d[m] <= s[m]
      BY <1>10
    <3> QED BY <1>1, <1>7, <2>1, <2>2, <3>1, <3>2
  <2> QED BY <2>3, <2>4
<1>12. Closed(s, G)
  BY <1>11 DEF Closed
<1>13. Exact(s, T, G)
  BY <1>6, <1>8, <1>9, <1>12 DEF Exact
<1> QED BY <1>7, <1>13 DEF s

-----------------------------------------------------------------------------
(* Closing: the seeds are labelled and shorter distances spread from them *)

\* A least member is what Min picks.
LEMMA MinIsLeast ==
  ASSUME NEW S \in SUBSET Nat, S # {}
  PROVE  Min(S) \in S /\ \A y \in S : Min(S) <= y
<1>1. \E x \in S : \A y \in S : x <= y
  BY Least
<1> QED BY <1>1 DEF Min

\* What labelling some of the nodes H makes of the distances d: T holds the closed sources, F what feeds what.
Labelled(r, d, H, T, F) ==
  /\ r \in Labelings
  /\ \A n \in DOMAIN d : n \in DOMAIN r /\ r[n] = d[n]
  /\ \A n \in DOMAIN r \ DOMAIN d : n \in H
  /\ \A n \in DOMAIN r : r[n] = 0 <=> n \in T
  /\ Grounded(r, F)
  /\ \A n \in DOMAIN r \ DOMAIN d : \A m \in DOMAIN d : n \in F[m] => r[n] <= d[m] + 1

\* A node that is a closed source or is fed has a distance.
Served(s, r, d, T, F) == s \in T \/ (\E m \in DOMAIN d : s \in F[m]) => s \in DOMAIN r

\* x adds to r the node s, with the least distance that is offered.
Seeded(x, r, s, T, F) ==
  /\ x \in Labelings /\ s \notin DOMAIN r /\ DOMAIN x = DOMAIN r \cup {s}
  /\ \A n \in DOMAIN r : x[n] = r[n]
  /\ (s \in T /\ x[s] = 0) \/ (\E m \in DOMAIN r : x[s] = r[m] + 1 /\ s \in F[m])
  /\ s \in T => x[s] = 0
  /\ \A m \in DOMAIN r : s \in F[m] => x[s] <= r[m] + 1

\* A seed without a distance takes the least that is offered.
LEMMA SeedValue ==
  ASSUME NEW r \in Labelings, NEW s \in Nodes, NEW open, NEW eo, NEW ways, NEW T, T = Sources \ open,
         NEW F, F = Feeding(open, eo, ways)
  PROVE  LET x == LabelSeed(r, s, open, eo, ways)
         IN  (x = r /\ Served(s, r, r, T, F)) \/ Seeded(x, r, s, T, F)
<1> DEFINE x == LabelSeed(r, s, open, eo, ways)
           fed == {r[y] + 1 : y \in {m \in DOMAIN r : s \in Fed(m, open, eo, ways)}}
           offers == fed \cup (IF s \in T THEN {0} ELSE {})
           w == [n \in DOMAIN r \cup {s} |-> IF n = s THEN Min(offers) ELSE r[n]]
<1>1. DOMAIN r \subseteq Nodes /\ \A n \in DOMAIN r : r[n] \in Nat
  BY Labelling
<1>2. \A m \in DOMAIN r : F[m] = Fed(m, open, eo, ways)
  BY <1>1 DEF Feeding
<1>3. x = IF s \in DOMAIN r \/ Blocked(s, open) \/ offers = {} THEN r ELSE w
  BY DEF LabelSeed
<1>4. s \in T \/ (\E m \in DOMAIN r : s \in F[m]) => ~Blocked(s, open) /\ offers # {}
  <2>1. CASE s \in T
    <3>1. 0 \in offers
      BY <2>1
    <3> QED BY <2>1, <3>1 DEF Blocked
  <2>2. ASSUME NEW m \in DOMAIN r, s \in F[m] PROVE ~Blocked(s, open) /\ r[m] + 1 \in fed
    <3>1. s \in Fed(m, open, eo, ways)
      BY <1>2, <2>2
    <3> QED BY <3>1 DEF Fed
  <2> QED BY <2>1, <2>2
<1>5. CASE x = r /\ (s \in DOMAIN r \/ Blocked(s, open) \/ offers = {})
  BY <1>4, <1>5 DEF Served
<1>6. CASE x = w /\ s \notin DOMAIN r /\ offers # {}
  <2>1. offers \in SUBSET Nat
    BY <1>1
  <2>2. Min(offers) \in offers /\ \A y \in offers : Min(offers) <= y
    <3> HIDE DEF offers
    <3> QED BY <1>6, <2>1, MinIsLeast
  <2> DEFINE v == Min(offers)
  <2>3. v \in Nat /\ (s \in T => v = 0)
    <3>1. s \in T => 0 \in offers
      OBVIOUS
    <3>2. v \in offers /\ \A y \in offers : v <= y
      BY <2>2
    <3> HIDE DEF offers, v
    <3>3. v \in Nat
      BY <2>1, <3>2
    <3>4. s \in T => v <= 0
      BY <3>1, <3>2
    <3> QED BY <3>3, <3>4
  <2>4. \A m \in DOMAIN r : s \in F[m] => v <= r[m] + 1
    BY <1>2, <2>2
  <2>5. (s \in T /\ v = 0) \/ (\E m \in DOMAIN r : v = r[m] + 1 /\ s \in F[m])
    BY <1>2, <2>2
  <2> HIDE DEF v
  <2>6. x = [n \in DOMAIN r \cup {s} |-> IF n = s THEN v ELSE r[n]]
    BY <1>6 DEF v
  <2> HIDE DEF x
  <2>7. DOMAIN x = DOMAIN r \cup {s} /\ x[s] = v /\ \A n \in DOMAIN r : x[n] = r[n]
    BY <1>6, <2>6
  <2>8. x = [n \in DOMAIN x |-> x[n]]
    BY <2>6
  <2>9. x \in Labelings
    <3>1. DOMAIN x \subseteq Nodes /\ \A n \in DOMAIN x : x[n] \in Nat
      BY <1>1, <2>3, <2>7
    <3> QED BY <2>8, <3>1, Labelling
  <2>10. Seeded(x, r, s, T, F)
    BY <1>6, <2>3, <2>4, <2>5, <2>7, <2>9 DEF Seeded
  <2> QED BY <2>10 DEF x
<1> QED BY <1>3, <1>5, <1>6

LEMMA LabelStep ==
  ASSUME NEW d \in Labelings, NEW s \in Nodes, NEW open, NEW eo, NEW ways, NEW T, T = Sources \ open,
         NEW F, F = Feeding(open, eo, ways), NEW H, s \in H, NEW r, Labelled(r, d, H, T, F)
  PROVE  LET x == LabelSeed(r, s, open, eo, ways)
         IN  Labelled(x, d, H, T, F) /\ DOMAIN r \subseteq DOMAIN x /\ Served(s, x, d, T, F)
<1> DEFINE x == LabelSeed(r, s, open, eo, ways)
<1>1. r \in Labelings /\ DOMAIN d \subseteq DOMAIN r /\ \A n \in DOMAIN r : r[n] \in Nat
  BY Labelling DEF Labelled
<1>2. CASE x = r /\ Served(s, r, r, T, F)
  BY <1>1, <1>2 DEF Served
<1>3. CASE Seeded(x, r, s, T, F)
  <2>0. /\ x \in Labelings /\ s \notin DOMAIN r /\ DOMAIN x = DOMAIN r \cup {s}
        /\ \A n \in DOMAIN r : x[n] = r[n]
        /\ (s \in T /\ x[s] = 0) \/ (\E m \in DOMAIN r : x[s] = r[m] + 1 /\ s \in F[m])
        /\ s \in T => x[s] = 0
        /\ \A m \in DOMAIN r : s \in F[m] => x[s] <= r[m] + 1
    BY <1>3 DEF Seeded
  <2> HIDE DEF x
  <2>1. \A n \in DOMAIN d : n \in DOMAIN x /\ x[n] = d[n]
    BY <2>0 DEF Labelled
  <2>2. \A n \in DOMAIN x \ DOMAIN d : n \in H
    BY <2>0 DEF Labelled
  <2>3. \A n \in DOMAIN x : x[n] = 0 <=> n \in T
    <3>1. x[s] = 0 <=> s \in T
      BY <1>1, <2>0
    <3> QED BY <2>0, <3>1 DEF Labelled
  <2>4. ASSUME NEW n \in DOMAIN x, x[n] > 0 PROVE \E m \in DOMAIN x : x[m] + 1 = x[n] /\ n \in F[m]
    <3>1. CASE n = s
      <4>1. PICK m \in DOMAIN r : x[s] = r[m] + 1 /\ s \in F[m]
        BY <2>0, <2>4, <3>1
      <4> QED BY <2>0, <3>1, <4>1
    <3>2. CASE n \in DOMAIN r
      <4>1. PICK m \in DOMAIN r : r[m] + 1 = r[n] /\ n \in F[m]
        BY <2>0, <2>4, <3>2 DEF Labelled, Grounded
      <4> QED BY <2>0, <3>2, <4>1
    <3> QED BY <2>0, <3>1, <3>2
  <2>5. ASSUME NEW n \in DOMAIN x \ DOMAIN d, NEW m \in DOMAIN d, n \in F[m] PROVE x[n] <= d[m] + 1
    <3>1. CASE n = s
      <4>1. r[m] = d[m] /\ m \in DOMAIN r
        BY DEF Labelled
      <4> QED BY <2>0, <2>5, <3>1, <4>1
    <3>2. CASE n \in DOMAIN r
      BY <2>0, <2>5, <3>2 DEF Labelled
    <3> QED BY <2>0, <3>1, <3>2
  <2>6. Labelled(x, d, H, T, F)
    BY <2>0, <2>1, <2>2, <2>3, <2>4, <2>5 DEF Labelled, Grounded
  <2> QED BY <2>0, <2>6 DEF x, Served
<1>4. (x = r /\ Served(s, r, r, T, F)) \/ Seeded(x, r, s, T, F)
  BY <1>1, SeedValue
<1> QED BY <1>2, <1>3, <1>4

\* The labels, seed by seed.
LEMMA LabelsValues ==
  ASSUME NEW d \in Labelings, NEW seeds \in Seq(Nodes), NEW open, NEW eo, NEW ways
  PROVE  LET label == Labels(seeds, d, open, eo, ways)
         IN  /\ label[0] = d
             /\ \A i \in 1 .. Len(seeds) : label[i] = LabelSeed(label[i - 1], seeds[i], open, eo, ways)
<1> DEFINE N == Len(seeds)
           f == [p \in (1 .. N) \X Labelings |-> LabelSeed(p[2], seeds[p[1]], open, eo, ways)]
<1>1. N \in Nat /\ \A i \in 1 .. N : seeds[i] \in Nodes
  OBVIOUS
<1>2. \A i \in 1 .. N, r \in Labelings : LabelSeed(r, seeds[i], open, eo, ways) \in Labelings
  BY <1>1, SeedValue DEF Seeded
<1>3. f \in [(1 .. N) \X Labelings -> Labelings]
  BY <1>2
<1>4. \A i \in 1 .. N, r \in Labelings : f[<<i, r>>] = LabelSeed(r, seeds[i], open, eo, ways)
  OBVIOUS
<1> HIDE DEF f, N
<1>5. PICK g \in [0 .. N -> Labelings] : g[0] = d /\ \A i \in 1 .. N : g[i] = f[<<i, g[i - 1]>>]
  <2>1. \E g \in [0 .. N -> Labelings] : Follows(g, N, d, f)
    BY <1>1, <1>3, Sequence
  <2> QED BY <2>1 DEF Follows
<1> DEFINE Is(h) == h = [i \in 0 .. N |-> IF i = 0 THEN d ELSE LabelSeed(h[i - 1], seeds[i], open, eo, ways)]
           label == CHOOSE h : Is(h)
<1>6. Is(g)
  <2>1. \A i \in 0 .. N : g[i] = IF i = 0 THEN d ELSE LabelSeed(g[i - 1], seeds[i], open, eo, ways)
    <3> TAKE i \in 0 .. N
    <3>1. CASE i # 0
      <4>1. i \in 1 .. N /\ g[i - 1] \in Labelings
        BY <1>1, <3>1
      <4> QED BY <1>4, <1>5, <3>1, <4>1
    <3> QED BY <1>5, <3>1
  <2>2. g = [i \in 0 .. N |-> g[i]]
    OBVIOUS
  <2> QED BY <2>1, <2>2
<1>7. Is(label)
  <2> HIDE DEF Is
  <2> QED BY <1>6
<1>8. Labels(seeds, d, open, eo, ways) = label
  BY DEF Labels, N
<1>9. label[0] = d /\ \A i \in 1 .. N : label[i] = LabelSeed(label[i - 1], seeds[i], open, eo, ways)
  <2> HIDE DEF label
  <2> QED BY <1>1, <1>7
<1> QED BY <1>8, <1>9 DEF N

\* All seeds that are closed sources or are fed get a distance, one more than what feeds them best.
LEMMA LabelsEnd ==
  ASSUME NEW d \in Labelings, NEW seeds \in Seq(Nodes), NEW open, NEW eo, NEW ways, NEW T, T = Sources \ open,
         NEW F, F = Feeding(open, eo, ways), Grounded(d, F), \A n \in DOMAIN d : d[n] = 0 <=> n \in T
  PROVE  LET r == Labels(seeds, d, open, eo, ways)[Len(seeds)]
         IN  Labelled(r, d, Range(seeds), T, F) /\ \A s \in Range(seeds) : Served(s, r, d, T, F)
<1> DEFINE N == Len(seeds)
           H == Range(seeds)
           label == Labels(seeds, d, open, eo, ways)
           Good(r, i) == Labelled(r, d, H, T, F) /\ \A j \in 1 .. i : Served(seeds[j], r, d, T, F)
           K == {i \in 0 .. N : Good(label[i], i)}
<1>1. N \in Nat /\ (\A i \in 1 .. N : seeds[i] \in Nodes) /\ H = {seeds[i] : i \in 1 .. N}
  BY DEF Range
<1>2. label[0] = d /\ \A i \in 1 .. N : label[i] = LabelSeed(label[i - 1], seeds[i], open, eo, ways)
  BY LabelsValues
<1>3. \A n \in DOMAIN d : d[n] \in Nat
  BY Labelling
<1> HIDE DEF label, N, H
<1>4. 0 \in K
  <2>1. Labelled(d, d, H, T, F)
    BY <1>3 DEF Labelled
  <2> QED BY <1>1, <1>2, <2>1
<1>5. ASSUME NEW i \in 1 .. N, i - 1 \in K PROVE i \in K
  <2> DEFINE r == label[i - 1]
             x == LabelSeed(r, seeds[i], open, eo, ways)
  <2>1. Good(r, i - 1)
    BY <1>5
  <2>2. seeds[i] \in Nodes /\ seeds[i] \in H /\ label[i] = x
    BY <1>1, <1>2
  <2> HIDE DEF r
  <2>3. Labelled(x, d, H, T, F) /\ DOMAIN r \subseteq DOMAIN x /\ Served(seeds[i], x, d, T, F)
    <3> HIDE DEF x
    <3> QED BY <2>1, <2>2, LabelStep DEF x
  <2> HIDE DEF x
  <2>4. \A j \in 1 .. i : Served(seeds[j], x, d, T, F)
    <3> TAKE j \in 1 .. i
    <3>1. CASE j # i
      <4>1. j \in 1 .. (i - 1)
        BY <1>1, <3>1
      <4> QED BY <2>1, <2>3, <4>1 DEF Served
    <3> QED BY <2>3, <3>1
  <2>5. Good(x, i)
    BY <2>3, <2>4
  <2>6. i \in 0 .. N
    BY <1>1
  <2>7. Good(label[i], i)
    BY <2>2, <2>5
  <2> HIDE DEF Good
  <2> QED BY <2>6, <2>7
<1>6. Good(label[N], N)
  <2> HIDE DEF Good
  <2>1. K \in SUBSET (0 .. N)
    OBVIOUS
  <2>2. \A k \in 1 .. N : k - 1 \in K => k \in K
    BY <1>5
  <2>3. N \in 0 .. N
    BY <1>1
  <2> HIDE DEF K
  <2>4. K = 0 .. N
    BY <1>1, <1>4, <2>1, <2>2, Steps
  <2> QED BY <2>3, <2>4 DEF K
<1>7. \A s \in H : Served(s, label[N], d, T, F)
  BY <1>1, <1>6
<1> QED BY <1>6, <1>7 DEF label, N, H

\* What the relaxation has made of the labels r0 after round k.
Relaxed(r, k, r0, T, F) ==
  /\ r \in Labelings
  /\ \A n \in DOMAIN r0 : n \in DOMAIN r /\ r[n] <= r0[n]
  /\ \A n \in DOMAIN r : r[n] <= Cardinality(Nodes)
  /\ \A n \in T : n \in DOMAIN r
  /\ \A n \in DOMAIN r : r[n] = 0 <=> n \in T
  /\ \A n \in DOMAIN r : r[n] > 0 => \E m \in DOMAIN r : r[m] < r[n] /\ n \in F[m]
  /\ \A m \in DOMAIN r : r[m] < k => \A n \in F[m] : n \in DOMAIN r /\ r[n] <= r[m] + 1

LEMMA ShortenStep ==
  ASSUME Network, NEW d \in Labelings, NEW seeds, NEW open, NEW eo, NEW ways, NEW T,
         NEW F, F = Feeding(open, eo, ways), NEW r0 \in Labelings,
         \A m \in DOMAIN d \ Range(seeds) : \A n \in F[m] : n \in DOMAIN r0 /\ r0[n] <= d[m] + 1,
         NEW k \in 1 .. Cardinality(Nodes), NEW r, Relaxed(r, k - 1, r0, T, F)
  PROVE  Relaxed(Shorten(r, k, seeds, d, open, eo, ways), k, r0, T, F)
<1> DEFINE x == Shorten(r, k, seeds, d, open, eo, ways)
           N == Cardinality(Nodes)
           front == {n \in DOMAIN r : r[n] = k - 1 /\ (n \in Range(seeds) \/ n \notin DOMAIN d \/ r[n] # d[n])}
           fed == UNION {Fed(n, open, eo, ways) : n \in front}
           better == {m \in fed : m \notin DOMAIN r \/ r[m] > k}
<1>1. N \in Nat /\ k \in Nat /\ 0 < k /\ k <= N
  BY RoundsNat
<1>2. r \in Labelings /\ DOMAIN r \subseteq Nodes /\ \A n \in DOMAIN r : r[n] \in Nat
  BY Labelling DEF Relaxed
<1>3. F \in Feedings /\ \A n \in Nodes : F[n] = Fed(n, open, eo, ways) /\ F[n] \subseteq Nodes
  <2>1. F \in Feedings
    BY FeedingType
  <2>2. \A n \in Nodes : F[n] = Fed(n, open, eo, ways)
    BY DEF Feeding
  <2> QED BY <2>1, <2>2 DEF Feedings
<1>4. x = [n \in DOMAIN r \cup better |-> IF n \in better THEN k ELSE r[n]]
  BY DEF Shorten
<1>5. \A n \in better : n \in Nodes /\ (n \notin DOMAIN r \/ r[n] > k) /\ \E m \in front : n \in F[m]
  BY <1>2, <1>3
<1>6. \A m \in front : \A n \in F[m] : n \in better \/ (n \in DOMAIN r /\ r[n] <= k)
  BY <1>1, <1>2, <1>3
<1>7. \A m \in DOMAIN r : r[m] = k - 1 => m \in front \/ (m \in DOMAIN d \ Range(seeds) /\ r[m] = d[m])
  OBVIOUS
<1>8. \A m \in front : m \in DOMAIN r /\ r[m] = k - 1
  OBVIOUS
<1> HIDE DEF front, fed, better, x, N
<1>9. /\ DOMAIN x = DOMAIN r \cup better /\ x = [n \in DOMAIN x |-> x[n]]
      /\ \A n \in better : x[n] = k
      /\ \A n \in DOMAIN r \ better : x[n] = r[n]
  BY <1>4
<1>10. \A n \in DOMAIN r : x[n] <= r[n] /\ (r[n] <= k => x[n] = r[n])
  BY <1>1, <1>2, <1>5, <1>9
<1>11. x \in Labelings /\ \A n \in DOMAIN x : x[n] \in Nat
  <2>1. DOMAIN x \subseteq Nodes
    BY <1>2, <1>5, <1>9
  <2>2. \A n \in DOMAIN x : x[n] \in Nat
    BY <1>1, <1>2, <1>9
  <2> QED BY <1>9, <2>1, <2>2, Labelling
<1>12. \A n \in DOMAIN r0 : n \in DOMAIN x /\ x[n] <= r0[n]
  <2> SUFFICES ASSUME NEW n \in DOMAIN r0 PROVE n \in DOMAIN x /\ x[n] <= r0[n]
    OBVIOUS
  <2>1. n \in DOMAIN r /\ r[n] <= r0[n] /\ r0[n] \in Nat
    BY Labelling DEF Relaxed
  <2> QED BY <1>2, <1>9, <1>10, <1>11, <2>1
<1>13. \A n \in DOMAIN x : x[n] <= N
  BY <1>1, <1>9 DEF Relaxed, N
<1>14. \A n \in T : n \in DOMAIN x
  BY <1>9 DEF Relaxed
<1>15. \A n \in DOMAIN x : x[n] = 0 <=> n \in T
  <2> SUFFICES ASSUME NEW n \in DOMAIN x PROVE x[n] = 0 <=> n \in T
    OBVIOUS
  <2>1. CASE n \in better
    <3>1. n \notin T
      BY <1>1, <1>2, <1>5, <2>1 DEF Relaxed
    <3> QED BY <1>1, <1>9, <2>1, <3>1
  <2>2. CASE n \notin better
    BY <1>9, <2>2 DEF Relaxed
  <2> QED BY <2>1, <2>2
<1>16. ASSUME NEW n \in DOMAIN x, x[n] > 0 PROVE \E m \in DOMAIN x : x[m] < x[n] /\ n \in F[m]
  <2>1. CASE n \in better
    <3>1. PICK m \in front : n \in F[m]
      BY <1>5, <2>1
    <3>2. m \in DOMAIN x /\ x[m] = k - 1
      BY <1>1, <1>8, <1>9, <1>10
    <3> QED BY <1>1, <1>9, <2>1, <3>1, <3>2
  <2>2. CASE n \notin better
    <3>1. n \in DOMAIN r /\ x[n] = r[n]
      BY <1>9, <2>2
    <3>2. PICK m \in DOMAIN r : r[m] < r[n] /\ n \in F[m]
      BY <1>16, <3>1 DEF Relaxed
    <3>3. m \in DOMAIN x /\ x[m] <= r[m]
      BY <1>9, <1>10
    <3> QED BY <1>2, <1>11, <3>1, <3>2, <3>3
  <2> QED BY <2>1, <2>2
<1>17. ASSUME NEW m \in DOMAIN x, x[m] < k, NEW n \in F[m] PROVE n \in DOMAIN x /\ x[n] <= x[m] + 1
  <2>1. m \in DOMAIN r /\ x[m] = r[m]
    BY <1>1, <1>9, <1>17
  <2>2. CASE r[m] < k - 1
    <3>1. n \in DOMAIN r /\ r[n] <= r[m] + 1
      BY <1>17, <2>1, <2>2 DEF Relaxed
    <3> QED BY <1>2, <1>9, <1>10, <1>11, <2>1, <3>1
  <2>3. CASE r[m] = k - 1
    <3>1. CASE m \in front
      <4>1. n \in better \/ (n \in DOMAIN r /\ r[n] <= k)
        BY <1>6, <1>17, <3>1
      <4>2. n \in DOMAIN x /\ x[n] <= k
        BY <1>1, <1>9, <1>10, <4>1
      <4> QED BY <1>1, <2>1, <2>3, <4>2
    <3>2. CASE m \in DOMAIN d \ Range(seeds) /\ r[m] = d[m]
      <4>1. n \in DOMAIN r0 /\ r0[n] <= k /\ r0[n] \in Nat
        BY <1>1, <1>17, <2>3, <3>2, Labelling
      <4>2. n \in DOMAIN x /\ x[n] <= r0[n]
        BY <1>12, <4>1
      <4> QED BY <1>1, <1>11, <2>1, <2>3, <4>1, <4>2
    <3> QED BY <1>7, <2>1, <2>3, <3>1, <3>2
  <2> QED BY <1>1, <1>2, <1>17, <2>1, <2>2, <2>3
<1> QED BY <1>11, <1>12, <1>13, <1>14, <1>15, <1>16, <1>17 DEF Relaxed, x, N

LEMMA ShortenType ==
  ASSUME Network, NEW r \in Labelings, NEW k \in Nat, NEW seeds, NEW d, NEW open, NEW eo, NEW ways
  PROVE  Shorten(r, k, seeds, d, open, eo, ways) \in Labelings
<1> DEFINE x == Shorten(r, k, seeds, d, open, eo, ways)
           front == {n \in DOMAIN r : r[n] = k - 1 /\ (n \in Range(seeds) \/ n \notin DOMAIN d \/ r[n] # d[n])}
           fed == UNION {Fed(n, open, eo, ways) : n \in front}
           better == {m \in fed : m \notin DOMAIN r \/ r[m] > k}
<1>1. DOMAIN r \subseteq Nodes /\ \A n \in DOMAIN r : r[n] \in Nat
  BY Labelling
<1>2. \A n \in Nodes : Fed(n, open, eo, ways) \subseteq Nodes
  BY FeedingType DEF Feeding, Feedings
<1>3. better \subseteq Nodes
  BY <1>1, <1>2
<1>4. x = [n \in DOMAIN r \cup better |-> IF n \in better THEN k ELSE r[n]]
  BY DEF Shorten
<1> HIDE DEF better, x
<1>5. DOMAIN x \subseteq Nodes /\ x = [n \in DOMAIN x |-> x[n]] /\ \A n \in DOMAIN x : x[n] \in Nat
  BY <1>1, <1>3, <1>4
<1> QED BY <1>5, Labelling DEF x

\* The values of the relaxation, round by round.
LEMMA RelaxationsValues ==
  ASSUME Network, NEW d, NEW seeds, NEW open, NEW eo, NEW ways,
         NEW x0 \in Labelings, x0 = Labels(seeds, d, open, eo, ways)[Len(seeds)]
  PROVE  LET relaxed == Relaxations(seeds, d, open, eo, ways)
         IN  /\ relaxed[0] = x0
             /\ \A k \in Rounds \ {0} : relaxed[k] = Shorten(relaxed[k - 1], k, seeds, d, open, eo, ways)
<1> DEFINE N == Cardinality(Nodes)
           f == [p \in (1 .. N) \X Labelings |-> Shorten(p[2], p[1], seeds, d, open, eo, ways)]
<1>1. N \in Nat /\ Rounds = 0 .. N
  BY RoundsNat
<1>2. \A k \in 1 .. N, r \in Labelings : Shorten(r, k, seeds, d, open, eo, ways) \in Labelings
  BY <1>1, ShortenType
<1>3. f \in [(1 .. N) \X Labelings -> Labelings]
  BY <1>2
<1>4. \A k \in 1 .. N, r \in Labelings : f[<<k, r>>] = Shorten(r, k, seeds, d, open, eo, ways)
  OBVIOUS
<1> HIDE DEF f, N
<1>5. PICK g \in [0 .. N -> Labelings] : g[0] = x0 /\ \A k \in 1 .. N : g[k] = f[<<k, g[k - 1]>>]
  <2>1. \E g \in [0 .. N -> Labelings] : Follows(g, N, x0, f)
    BY <1>1, <1>3, Sequence
  <2> QED BY <2>1 DEF Follows
<1> DEFINE Is(h) == h = [k \in Rounds |-> IF k = 0 THEN Labels(seeds, d, open, eo, ways)[Len(seeds)]
                                          ELSE Shorten(h[k - 1], k, seeds, d, open, eo, ways)]
           relaxed == CHOOSE h : Is(h)
<1>6. Is(g)
  <2>1. \A k \in Rounds : g[k] = IF k = 0 THEN x0 ELSE Shorten(g[k - 1], k, seeds, d, open, eo, ways)
    <3> TAKE k \in Rounds
    <3>1. CASE k # 0
      <4>1. k \in 1 .. N /\ g[k - 1] \in Labelings
        BY <1>1, <3>1
      <4> QED BY <1>4, <1>5, <3>1, <4>1
    <3> QED BY <1>5, <3>1
  <2>2. g = [k \in Rounds |-> g[k]]
    BY <1>1
  <2> QED BY <2>1, <2>2
<1>7. Is(relaxed)
  <2> HIDE DEF Is
  <2> QED BY <1>6
<1>8. Relaxations(seeds, d, open, eo, ways) = relaxed
  BY DEF Relaxations
<1>9. relaxed[0] = x0 /\ \A k \in Rounds \ {0} : relaxed[k] = Shorten(relaxed[k - 1], k, seeds, d, open, eo, ways)
  <2> HIDE DEF relaxed
  <2> QED BY <1>1, <1>7
<1> QED BY <1>8, <1>9

\* Relaxing is exact when links and sources were only added, and every link or source added has an end in a seed.
LEMMA RelaxExact ==
  ASSUME Network, NEW S, NEW F, NEW d, Exact(d, S, F), NEW seeds \in Seq(Nodes),
         NEW open, NEW eo, NEW ways, NEW T, T = Sources \ open, NEW G, G = Feeding(open, eo, ways),
         \A n \in Nodes : F[n] \subseteq G[n],
         S \subseteq T, T \cap DOMAIN d \subseteq S, T \ S \subseteq Range(seeds),
         \A m \in DOMAIN d \ Range(seeds) : \A n \in G[m] \ F[m] : n \in Range(seeds) \ DOMAIN d
  PROVE  Exact(Relax(seeds, d, open, eo, ways), T, G)
<1> DEFINE N == Cardinality(Nodes)
           r0 == Labels(seeds, d, open, eo, ways)[Len(seeds)]
           relaxed == Relaxations(seeds, d, open, eo, ways)
           r == relaxed[N]
           K == {k \in 0 .. N : Relaxed(relaxed[k], k, r0, T, G)}
<1>1. N \in Nat /\ Rounds = 0 .. N
  BY RoundsNat
<1>2. d \in Labelings /\ DOMAIN d \subseteq Nodes /\ \A n \in DOMAIN d : d[n] \in Nat
  BY Labelling DEF Exact
<1>3. Grounded(d, G) /\ \A n \in DOMAIN d : d[n] = 0 <=> n \in T
  BY <1>2 DEF Exact, Grounded
<1>4. Labelled(r0, d, Range(seeds), T, G) /\ \A s \in Range(seeds) : Served(s, r0, d, T, G)
  BY <1>2, <1>3, LabelsEnd
<1>5. r0 \in Labelings
  BY <1>4 DEF Labelled
<1>6. relaxed[0] = r0 /\ \A k \in Rounds \ {0} : relaxed[k] = Shorten(relaxed[k - 1], k, seeds, d, open, eo, ways)
  BY <1>5, RelaxationsValues
<1> HIDE DEF N, r0, relaxed, r
<1>7. DOMAIN r0 \subseteq Nodes /\ \A n \in DOMAIN r0 : r0[n] \in Nat
  BY <1>5, Labelling
<1>8. \A n \in DOMAIN r0 : r0[n] < N
  BY <1>4, <1>5, Short DEF Labelled, Grounded, N
<1>9. \A n \in T : n \in DOMAIN r0
  BY <1>4 DEF Exact, Labelled, Served
<1>10. ASSUME NEW m \in DOMAIN d \ Range(seeds), NEW n \in G[m] PROVE n \in DOMAIN r0 /\ r0[n] <= d[m] + 1
  <2>1. CASE n \in F[m]
    <3>1. n \in DOMAIN d /\ d[n] <= d[m] + 1
      BY <2>1 DEF Exact, Closed
    <3> QED BY <1>4, <3>1 DEF Labelled
  <2>2. CASE n \notin F[m]
    <3>1. n \in Range(seeds) \ DOMAIN d
      BY <1>10, <2>2
    <3>2. n \in DOMAIN r0
      BY <1>4, <1>10, <3>1 DEF Served
    <3> QED BY <1>4, <1>10, <3>1, <3>2 DEF Labelled
  <2> QED BY <2>1, <2>2
<1>11. 0 \in K
  <2>1. \A n \in DOMAIN r0 : r0[n] > 0 => \E m \in DOMAIN r0 : r0[m] < r0[n] /\ n \in G[m]
    <3> SUFFICES ASSUME NEW n \in DOMAIN r0, r0[n] > 0 PROVE \E m \in DOMAIN r0 : r0[m] < r0[n] /\ n \in G[m]
      OBVIOUS
    <3>1. PICK m \in DOMAIN r0 : r0[m] + 1 = r0[n] /\ n \in G[m]
      BY <1>4 DEF Labelled, Grounded
    <3> QED BY <1>7, <3>1
  <2>2. \A n \in DOMAIN r0 : r0[n] <= r0[n] /\ r0[n] <= N /\ ~(r0[n] < 0)
    BY <1>1, <1>7, <1>8
  <2>3. \A n \in DOMAIN r0 : r0[n] = 0 <=> n \in T
    BY <1>4 DEF Labelled
  <2>4. Relaxed(r0, 0, r0, T, G)
    BY <1>5, <1>9, <2>1, <2>2, <2>3 DEF Relaxed, N
  <2> QED BY <1>1, <1>6, <2>4
<1>12. ASSUME NEW k \in 1 .. N, k - 1 \in K PROVE k \in K
  <2>1. Relaxed(relaxed[k - 1], k - 1, r0, T, G)
    BY <1>12
  <2>2. relaxed[k] = Shorten(relaxed[k - 1], k, seeds, d, open, eo, ways) /\ k \in 1 .. Cardinality(Nodes) /\ k \in 0 .. N
    BY <1>1, <1>6 DEF N
  <2>3. Relaxed(Shorten(relaxed[k - 1], k, seeds, d, open, eo, ways), k, r0, T, G)
    BY <1>2, <1>5, <1>10, <2>1, <2>2, ShortenStep
  <2> QED BY <2>2, <2>3
<1>13. Relaxed(r, N, r0, T, G)
  <2>1. K \in SUBSET (0 .. N)
    OBVIOUS
  <2>2. \A k \in 1 .. N : k - 1 \in K => k \in K
    BY <1>12
  <2>3. N \in 0 .. N
    BY <1>1
  <2> HIDE DEF K
  <2>4. K = 0 .. N
    BY <1>1, <1>11, <2>1, <2>2, Steps
  <2> QED BY <2>3, <2>4 DEF K, r
<1>14. r \in Labelings /\ \A n \in DOMAIN r : r[n] \in Nat
  BY <1>13, Labelling DEF Relaxed
<1>15. ASSUME NEW n \in DOMAIN r, r[n] > 0 PROVE \E m \in DOMAIN r : r[m] + 1 = r[n] /\ n \in G[m]
  <2>1. PICK m \in DOMAIN r : r[m] < r[n] /\ n \in G[m]
    BY <1>13, <1>15 DEF Relaxed
  <2>2. r[m] < N
    BY <1>1, <1>13, <1>14, <2>1 DEF Relaxed, N
  <2>3. r[n] <= r[m] + 1
    BY <1>13, <2>1, <2>2 DEF Relaxed
  <2> QED BY <1>14, <2>1, <2>3
<1>16. \A n \in DOMAIN r : r[n] < N
  BY <1>14, <1>15, Short DEF N
<1>17. Closed(r, G)
  BY <1>13, <1>16 DEF Relaxed, Closed
<1>18. Exact(r, T, G)
  BY <1>13, <1>14, <1>15, <1>17 DEF Exact, Grounded, Relaxed
<1> QED BY <1>18 DEF Relax, r, relaxed, N

-----------------------------------------------------------------------------
(* The graph *)

\* What a node feeds.
LEMMA FedVia ==
  ASSUME NEW m, NEW n, NEW open, NEW eo, NEW ways
  PROVE  n \in Fed(m, open, eo, ways) <=>
           /\ m \notin open /\ ~Blocked(n, open)
           /\ \E e \in Adj(m) : Passable(e, eo, ways) /\ n = Other(e, m)
BY DEF Fed

\* With fewer elements open everything feeds at least as much.
LEMMA FeedingShrinks ==
  ASSUME NEW open, NEW eo, NEW ways, NEW open2, NEW eo2, NEW ways2,
         open \subseteq open2, eo \subseteq eo2, ways \subseteq ways2
  PROVE  \A n \in Nodes : Feeding(open2, eo2, ways2)[n] \subseteq Feeding(open, eo, ways)[n]
BY FedVia DEF Feeding, Blocked, Passable

\* What the positions of the moment feed and supply.
CurrentFeeding == Feeding(nodeOpen, edgeOpen, openWays)
CurrentSources == Sources \ nodeOpen

Typed ==
  /\ ends \in Topologies
  /\ nodeOpen \subseteq Nodes /\ edgeOpen \subseteq Edges /\ openWays \subseteq MultiWay \X Edges
  /\ dist \in Labelings
  /\ distDirty \in BOOLEAN /\ nodeOn \subseteq Nodes /\ edgeOn \subseteq Edges
InStep ==
  /\ Exact(dist, CurrentSources, CurrentFeeding)
  /\ nodeOn = DOMAIN dist
  /\ edgeOn = EdgesOn(dist, edgeOpen)
IInv == Typed /\ (~distDirty => InStep)

LEMMA TypedNetwork ==
  ASSUME Typed
  PROVE  Network /\ Present \subseteq Edges /\ \A e \in Present : ends[e] \in Seq(Nodes)
<1>1. Network /\ Present \subseteq Edges
  BY TopologyAssumption DEF Typed, Network, Present
<1>2. ASSUME NEW e \in Present PROVE ends[e] \in Seq(Nodes)
  <2>1. ends[e] = <<ends[e][1], ends[e][2]>> /\ ends[e][1] \in Nodes /\ ends[e][2] \in Nodes
    BY <1>1, <1>2 DEF Network
  <2>2. \A a, b \in Nodes : <<a, b>> \in Seq(Nodes)
    OBVIOUS
  <2>3. <<ends[e][1], ends[e][2]>> \in Seq(Nodes)
    BY <2>1, <2>2
  <2> QED BY <2>1, <2>3, Zenon
<1> QED BY <1>1, <1>2

\* A full pass brings everything in step.
LEMMA RebuiltInStep ==
  ASSUME Network, NEW open, NEW eo, NEW ways, RebuildWith(open, eo, ways),
         ends' = ends, nodeOpen' = open, edgeOpen' = eo, openWays' = ways
  PROVE  InStep'
<1>1. Exact(Bfs(open, eo, ways), Sources \ open, Feeding(open, eo, ways))
  BY BfsExact
<1>2. CurrentFeeding' = Feeding(open, eo, ways) /\ CurrentSources' = Sources \ open
  BY DEF CurrentFeeding, CurrentSources, Feeding, Fed, Adj, Other, Present, Passable, Blocked
<1>3. EdgesOn(dist, edgeOpen)' = EdgesOn(dist', eo)
  BY DEF EdgesOn, Present
<1>4. dist' = Bfs(open, eo, ways) /\ nodeOn' = DOMAIN dist' /\ edgeOn' = EdgesOn(dist', eo)
  BY DEF RebuildWith
<1>5. Exact(dist', CurrentSources', CurrentFeeding')
  BY <1>1, <1>2, <1>4
<1> QED BY <1>3, <1>4, <1>5 DEF InStep

\* The nodes and lines at the touched ones are all that must be brought in step.
LEMMA AppliedInStep ==
  ASSUME nodeOn = DOMAIN dist, edgeOn = EdgesOn(dist, edgeOpen), NEW touched, NEW d, NEW eo,
         ApplyEnergy(touched, d, eo), \A n : n \notin touched => (n \in DOMAIN dist <=> n \in DOMAIN d),
         \A e \in Present : (e \in edgeOpen <=> e \in eo)
                            \/ ends[e][1] \in touched \/ ends[e][2] \in touched
  PROVE  nodeOn' = DOMAIN d /\ edgeOn' = EdgesOn(d, eo)
<1> DEFINE near == UNION {Adj(n) : n \in touched}
<1>1. /\ nodeOn' = (nodeOn \ touched) \cup (touched \cap DOMAIN d)
      /\ edgeOn' = (edgeOn \ near) \cup (near \cap EdgesOn(d, eo))
  BY DEF ApplyEnergy
<1>2. \A e \in Present : e \in near <=> ends[e][1] \in touched \/ ends[e][2] \in touched
  BY DEF Adj
<1> HIDE DEF near
<1>3. \A e \in Present : e \notin near => (e \in EdgesOn(dist, edgeOpen) <=> e \in EdgesOn(d, eo))
  BY <1>2 DEF EdgesOn
<1>4. EdgesOn(dist, edgeOpen) \subseteq Present /\ EdgesOn(d, eo) \subseteq Present
  BY DEF EdgesOn
<1>5. edgeOn' = EdgesOn(d, eo)
  BY <1>1, <1>3, <1>4
<1> QED BY <1>1, <1>5

-----------------------------------------------------------------------------
(* Opening and closing *)

\* Positions open, eo and ways, all open where the present ones are, with the roots of what may lose its distance.
Cut(roots, seeds, open, eo, ways) ==
  /\ nodeOpen \subseteq open /\ edgeOpen \subseteq eo /\ openWays \subseteq ways
  /\ \A e \in Present : e \in eo \ edgeOpen => ends[e][1] \in Range(seeds)
  /\ roots \subseteq DOMAIN dist
  /\ roots \cap (Sources \ open) = {}
  /\ (CurrentSources \ (Sources \ open)) \cap DOMAIN dist \subseteq roots
  /\ \A u, v \in DOMAIN dist :
        dist[v] = dist[u] + 1 /\ v \in CurrentFeeding[u] =>
          v \in roots \/ v \in Hanging(u, roots, dist, open, eo, ways)
  /\ \A u, v \in DOMAIN dist :
        dist[v] = dist[u] + 1 /\ v \in CurrentFeeding[u] /\ v \notin Feeding(open, eo, ways)[u] =>
          v \in roots \/ u \in roots

\* Positions closed where the present ones are, with the seeds from which distances may shrink.
Join(seeds, open, eo, ways) ==
  /\ open \subseteq nodeOpen /\ eo \subseteq edgeOpen /\ ways \subseteq openWays
  /\ \A e \in Present : e \in edgeOpen \ eo => ends[e][1] \in Range(seeds)
  /\ (Sources \ open) \cap DOMAIN dist \subseteq CurrentSources
  /\ (Sources \ open) \ CurrentSources \subseteq Range(seeds)
  /\ \A m \in DOMAIN dist \ Range(seeds) :
        Feeding(open, eo, ways)[m] \ CurrentFeeding[m] \subseteq Range(seeds) \ DOMAIN dist

\* Opening: re-seeding the cone below the roots is exact, and no distance outside the cone comes or goes.
LEMMA CutExact ==
  ASSUME Network, Exact(dist, CurrentSources, CurrentFeeding),
         NEW roots, NEW seeds, NEW open, NEW eo, NEW ways, Cut(roots, seeds, open, eo, ways)
  PROVE  LET cone == Cone(roots, dist, open, eo, ways)
             s == Reseed(cone, dist, open, eo, ways)
         IN  /\ Exact(s, Sources \ open, Feeding(open, eo, ways))
             /\ \A n : n \notin cone => (n \in DOMAIN dist <=> n \in DOMAIN s)
<1> DEFINE S == CurrentSources
           T == Sources \ open
           F == CurrentFeeding
           G == Feeding(open, eo, ways)
           C == Cone(roots, dist, open, eo, ways)
           H(n) == Hanging(n, roots, dist, open, eo, ways)
<1>1. dist \in Labelings /\ DOMAIN dist \subseteq Nodes /\ \A n \in DOMAIN dist : dist[n] \in Nat
  BY Labelling DEF Exact
<1>2. \A n \in DOMAIN dist : dist[n] < Cardinality(Nodes)
  BY <1>1, Short DEF Exact, Grounded
<1>3. roots \in SUBSET DOMAIN dist
  BY DEF Cut
<1>4. roots \subseteq C /\ C \subseteq DOMAIN dist /\ \A n \in C : n \in roots \/ dist[n] > 0
  BY <1>1, <1>2, <1>3, ConeClosed
<1>5. \A n \in C : H(n) \subseteq C
  BY <1>1, <1>2, <1>3, ConeClosed
<1>6. T \in SUBSET S /\ \A n \in Nodes : G[n] \subseteq F[n]
  BY FeedingShrinks DEF Cut, CurrentSources, CurrentFeeding
<1>7. \A u, v \in DOMAIN dist : dist[v] = dist[u] + 1 /\ v \in F[u] => v \in roots \/ v \in H(u)
  BY DEF Cut
<1>8. \A u, v \in DOMAIN dist : dist[v] = dist[u] + 1 /\ v \in F[u] /\ v \notin G[u] => v \in roots \/ u \in roots
  BY DEF Cut
<1>9. roots \cap T = {} /\ (S \ T) \cap DOMAIN dist \subseteq roots
  BY DEF Cut
<1> HIDE DEF S, T, F, G, C, H
<1>10. C \cap T = {}
  BY <1>1, <1>4, <1>6, <1>9 DEF Exact, S
<1>11. ASSUME NEW v \in DOMAIN dist \ C PROVE v \in T \/ \E u \in DOMAIN dist \ C : dist[u] + 1 = dist[v] /\ v \in G[u]
  <2>1. CASE dist[v] = 0
    <3>1. v \in S
      BY <2>1 DEF Exact, S
    <3> QED BY <1>4, <1>9, <1>11, <3>1
  <2>2. CASE dist[v] > 0
    <3>1. PICK u \in DOMAIN dist : dist[u] + 1 = dist[v] /\ v \in F[u]
      BY <2>2 DEF Exact, Grounded, F
    <3>2. dist[v] = dist[u] + 1
      BY <3>1
    <3>3. v \notin roots /\ v \in H(u)
      BY <1>4, <1>7, <1>11, <3>1, <3>2
    <3>4. u \notin C
      BY <1>5, <1>11, <3>3
    <3>5. v \in G[u]
      BY <1>4, <1>8, <3>1, <3>2, <3>3, <3>4
    <3> QED BY <3>1, <3>4, <3>5
  <2> QED BY <1>1, <2>1, <2>2
<1> DEFINE s == Reseed(C, dist, open, eo, ways)
<1>12. Exact(s, T, G) /\ DOMAIN s \subseteq DOMAIN dist /\ DOMAIN dist \ C \subseteq DOMAIN s
  <2>1. Exact(dist, S, F)
    BY DEF S, F
  <2>2. G = Feeding(open, eo, ways)
    BY DEF G
  <2>3. StandsWithout(C, dist, T, G)
    BY <1>4, <1>10, <1>11 DEF StandsWithout
  <2> HIDE DEF s
  <2> QED BY <1>6, <2>1, <2>2, <2>3, ReseedExact DEF s
<1>13. \A n : n \notin C => (n \in DOMAIN dist <=> n \in DOMAIN s)
  BY <1>12
<1> QED BY <1>12, <1>13 DEF T, G, C

\* Opening on distances in step leaves them in step.
LEMMA OpeningInStep ==
  ASSUME Typed, InStep, ~distDirty, NEW roots, NEW seeds, NEW open, NEW eo, NEW ways,
         Cut(roots, seeds, open, eo, ways), Move(TRUE, roots, seeds, open, eo, ways)
  PROVE  InStep' /\ distDirty' = FALSE
<1> DEFINE cone == Cone(roots, dist, open, eo, ways)
           s == Reseed(cone, dist, open, eo, ways)
           touched == Range(seeds) \cup cone
<1>1. Network
  BY TypedNetwork
<1>2. /\ nodeOpen' = open /\ edgeOpen' = eo /\ openWays' = ways /\ ends' = ends
      /\ dist' = s /\ ApplyEnergy(touched, dist', eo) /\ distDirty' = distDirty
  BY DEF Move
<1>3. CurrentFeeding' = Feeding(open, eo, ways) /\ CurrentSources' = Sources \ open
  BY <1>2 DEF CurrentFeeding, CurrentSources, Feeding, Fed, Adj, Other, Present, Passable, Blocked
<1>4. EdgesOn(dist, edgeOpen)' = EdgesOn(dist', eo)
  BY <1>2 DEF EdgesOn, Present
<1>5. /\ Exact(s, Sources \ open, Feeding(open, eo, ways))
      /\ \A n : n \notin cone => (n \in DOMAIN dist <=> n \in DOMAIN s)
  BY <1>1, CutExact DEF InStep
<1> HIDE DEF cone, s
<1>6. nodeOn' = DOMAIN dist' /\ edgeOn' = EdgesOn(dist', eo)
  <2>1. \A n : n \notin touched => (n \in DOMAIN dist <=> n \in DOMAIN dist')
    BY <1>2, <1>5
  <2>2. \A e \in Present : (e \in edgeOpen <=> e \in eo)
                           \/ ends[e][1] \in touched \/ ends[e][2] \in touched
    BY DEF Cut
  <2> HIDE DEF touched
  <2> QED BY <1>2, <2>1, <2>2, AppliedInStep DEF InStep
<1>7. Exact(dist', CurrentSources', CurrentFeeding')
  BY <1>2, <1>3, <1>5
<1> QED BY <1>2, <1>4, <1>6, <1>7 DEF InStep

\* Closing on distances in step leaves them in step.
LEMMA ClosingInStep ==
  ASSUME Typed, InStep, ~distDirty, NEW seeds \in Seq(Nodes), NEW open, NEW eo, NEW ways,
         Join(seeds, open, eo, ways), Move(FALSE, {}, seeds, open, eo, ways)
  PROVE  InStep' /\ distDirty' = FALSE
<1> DEFINE r == Relax(seeds, dist, open, eo, ways)
           touched == Range(seeds) \cup Moved(dist, r)
<1>1. Network
  BY TypedNetwork
<1>2. /\ nodeOpen' = open /\ edgeOpen' = eo /\ openWays' = ways /\ ends' = ends
      /\ dist' = r /\ ApplyEnergy(touched, dist', eo) /\ distDirty' = distDirty
  BY DEF Move
<1>3. CurrentFeeding' = Feeding(open, eo, ways) /\ CurrentSources' = Sources \ open
  BY <1>2 DEF CurrentFeeding, CurrentSources, Feeding, Fed, Adj, Other, Present, Passable, Blocked
<1>4. EdgesOn(dist, edgeOpen)' = EdgesOn(dist', eo)
  BY <1>2 DEF EdgesOn, Present
<1>5. Exact(r, Sources \ open, Feeding(open, eo, ways))
  <2> DEFINE S == CurrentSources
             T == Sources \ open
             F == CurrentFeeding
             G == Feeding(open, eo, ways)
  <2>1. Exact(dist, S, F)
    BY DEF InStep
  <2>2. \A n \in Nodes : F[n] \subseteq G[n]
    BY FeedingShrinks DEF Join, CurrentFeeding
  <2>3. S \subseteq T /\ T \cap DOMAIN dist \subseteq S /\ T \ S \subseteq Range(seeds)
    BY DEF Join, CurrentSources
  <2>4. \A m \in DOMAIN dist \ Range(seeds) : \A n \in G[m] \ F[m] : n \in Range(seeds) \ DOMAIN dist
    BY DEF Join
  <2>5. T = Sources \ open /\ G = Feeding(open, eo, ways)
    OBVIOUS
  <2> HIDE DEF S, T, F, G, r
  <2>6. Exact(Relax(seeds, dist, open, eo, ways), T, G)
    BY <1>1, <2>1, <2>2, <2>3, <2>4, <2>5, RelaxExact
  <2> QED BY <2>5, <2>6 DEF r
<1> HIDE DEF r
<1>6. nodeOn' = DOMAIN dist' /\ edgeOn' = EdgesOn(dist', eo)
  <2>1. \A n : n \notin touched => (n \in DOMAIN dist <=> n \in DOMAIN dist')
    BY <1>2 DEF Moved
  <2>2. \A e \in Present : (e \in edgeOpen <=> e \in eo)
                           \/ ends[e][1] \in touched \/ ends[e][2] \in touched
    BY DEF Join
  <2> HIDE DEF touched
  <2> QED BY <1>2, <2>1, <2>2, AppliedInStep DEF InStep
<1>7. Exact(dist', CurrentSources', CurrentFeeding')
  BY <1>2, <1>3, <1>5
<1> QED BY <1>2, <1>4, <1>6, <1>7 DEF InStep

\* A maneuver on dirty distances rebuilds everything.
LEMMA DirtyInStep ==
  ASSUME Typed, distDirty, NEW opening, NEW roots, NEW seeds, NEW open, NEW eo, NEW ways,
         Move(opening, roots, seeds, open, eo, ways)
  PROVE  InStep' /\ distDirty' = FALSE
<1>1. Network
  BY TypedNetwork
<1>2. /\ nodeOpen' = open /\ edgeOpen' = eo /\ openWays' = ways /\ ends' = ends
      /\ RebuildWith(open, eo, ways)
  BY DEF Move
<1>3. distDirty' = FALSE
  BY <1>2 DEF RebuildWith
<1> QED BY <1>1, <1>2, <1>3, RebuiltInStep

\* Positions in range and everything in step is what the invariant asks for.
LEMMA InStepIInv ==
  ASSUME Typed, ends' = ends, nodeOpen' \subseteq Nodes, edgeOpen' \subseteq Edges,
         openWays' \subseteq MultiWay \X Edges, distDirty' = FALSE, InStep'
  PROVE  IInv'
<1>1. dist' \in Labelings
  BY DEF InStep, Exact
<1>2. nodeOn' \subseteq Nodes
  BY <1>1, Labelling DEF InStep
<1>3. edgeOn' \subseteq Edges
  BY TypedNetwork DEF InStep, EdgesOn, Present
<1>4. Typed'
  BY <1>1, <1>2, <1>3 DEF Typed
<1> QED BY <1>4 DEF IInv

-----------------------------------------------------------------------------
(* The six maneuvers *)

\* The other end of a line that joins two different distances.
LEMMA Ends ==
  ASSUME NEW e \in Present, NEW u, e \in Adj(u)
  PROVE  LET v == Other(e, u)
         IN  v \in {ends[e][1], ends[e][2]} /\ u \in {ends[e][1], ends[e][2]} /\ Other(e, v) = u
BY DEF Adj, Other

\* What hangs below a node in exact distances: what it feeds, one step further.
LEMMA FedHangs ==
  ASSUME NEW u \in Nodes, NEW v, NEW roots, NEW d, NEW open, NEW eo, NEW ways,
         u \in DOMAIN d, v \in DOMAIN d, d[v] = d[u] + 1, v \in Feeding(open, eo, ways)[u]
  PROVE  v \in Hanging(u, roots, d, open, eo, ways)
<1>1. v \in Fed(u, open, eo, ways)
  BY DEF Feeding
<1> QED BY <1>1, FedVia DEF Hanging

\* Opening a line: what hung on it is a root.
LEMMA OpenLineCut ==
  ASSUME Typed, InStep, NEW e \in Present \ edgeOpen
  PROVE  Cut(LineRoots(e), ends[e], nodeOpen, edgeOpen \cup {e}, openWays)
<1> DEFINE eo == edgeOpen \cup {e}
           roots == LineRoots(e)
           G == Feeding(nodeOpen, eo, openWays)
<1>1. dist \in Labelings /\ DOMAIN dist \subseteq Nodes /\ \A n \in DOMAIN dist : dist[n] \in Nat
  BY Labelling DEF Typed
<1>2. roots \subseteq DOMAIN dist /\ \A n \in roots : dist[n] > 0
  BY <1>1 DEF LineRoots, Below
<1>3. roots \cap (Sources \ nodeOpen) = {}
  BY <1>1, <1>2 DEF InStep, Exact, CurrentSources
<1>4. ends[e][1] \in Range(ends[e])
  BY TypedNetwork DEF Network, Range
<1>5. ASSUME NEW u \in DOMAIN dist, NEW v \in DOMAIN dist, dist[v] = dist[u] + 1, v \in CurrentFeeding[u], v \notin G[u]
      PROVE  v \in roots
  <2>1. v \in Fed(u, nodeOpen, edgeOpen, openWays) /\ v \notin Fed(u, nodeOpen, eo, openWays)
    BY <1>1, <1>5 DEF CurrentFeeding, Feeding
  <2>2. PICK x \in Adj(u) : Passable(x, edgeOpen, openWays) /\ v = Other(x, u)
    BY <2>1, FedVia
  <2>3. x = e
    BY <2>1, <2>2, FedVia DEF Passable
  <2>4. v \in {ends[e][1], ends[e][2]} /\ Other(e, v) = u
    BY <2>2, <2>3, Ends DEF Adj
  <2>5. u \notin nodeOpen
    BY <2>1, FedVia
  <2> QED BY <1>5, <2>2, <2>3, <2>4, <2>5 DEF LineRoots, Below
<1>6. \A u, v \in DOMAIN dist :
        dist[v] = dist[u] + 1 /\ v \in CurrentFeeding[u] =>
          v \in roots \/ v \in Hanging(u, roots, dist, nodeOpen, eo, openWays)
  BY <1>1, <1>5, FedHangs
<1> HIDE DEF roots, eo
<1> QED BY <1>2, <1>3, <1>4, <1>5, <1>6 DEF Cut, CurrentSources, roots, eo

\* Opening a way of a switch: what hung on its line is a root.
LEMMA OpenWayCut ==
  ASSUME Typed, InStep, NEW n, NEW e \in Present
  PROVE  Cut(LineRoots(e), <<n, Other(e, n)>>, nodeOpen, edgeOpen, openWays \cup {<<n, e>>})
<1> DEFINE ways == openWays \cup {<<n, e>>}
           roots == LineRoots(e)
           G == Feeding(nodeOpen, edgeOpen, ways)
<1>1. dist \in Labelings /\ DOMAIN dist \subseteq Nodes /\ \A m \in DOMAIN dist : dist[m] \in Nat
  BY Labelling DEF Typed
<1>2. roots \subseteq DOMAIN dist /\ \A m \in roots : dist[m] > 0
  BY <1>1 DEF LineRoots, Below
<1>3. roots \cap (Sources \ nodeOpen) = {}
  BY <1>1, <1>2 DEF InStep, Exact, CurrentSources
<1>4. ASSUME NEW u \in DOMAIN dist, NEW v \in DOMAIN dist, dist[v] = dist[u] + 1, v \in CurrentFeeding[u], v \notin G[u]
      PROVE  v \in roots
  <2>1. v \in Fed(u, nodeOpen, edgeOpen, openWays) /\ v \notin Fed(u, nodeOpen, edgeOpen, ways)
    BY <1>1, <1>4 DEF CurrentFeeding, Feeding
  <2>2. PICK x \in Adj(u) : Passable(x, edgeOpen, openWays) /\ v = Other(x, u)
    BY <2>1, FedVia
  <2>3. x = e
    BY <2>1, <2>2, FedVia DEF Passable
  <2>4. v \in {ends[e][1], ends[e][2]} /\ Other(e, v) = u
    BY <2>2, <2>3, Ends DEF Adj
  <2>5. u \notin nodeOpen
    BY <2>1, FedVia
  <2> QED BY <1>4, <2>2, <2>3, <2>4, <2>5 DEF LineRoots, Below
<1>5. \A u, v \in DOMAIN dist :
        dist[v] = dist[u] + 1 /\ v \in CurrentFeeding[u] =>
          v \in roots \/ v \in Hanging(u, roots, dist, nodeOpen, edgeOpen, ways)
  BY <1>1, <1>4, FedHangs
<1> HIDE DEF roots, ways
<1> QED BY <1>2, <1>3, <1>4, <1>5 DEF Cut, CurrentSources, roots, ways

\* Opening a node: a cut object is a root itself, of a switch the nodes that hung on it are.
LEMMA OpenNodeCut ==
  ASSUME Typed, InStep, NEW n \in Nodes \ nodeOpen
  PROVE  Cut(NodeRoots(n), <<n>>, nodeOpen \cup {n}, edgeOpen, openWays)
<1> DEFINE open == nodeOpen \cup {n}
           roots == NodeRoots(n)
           G == Feeding(open, edgeOpen, openWays)
<1>1. dist \in Labelings /\ DOMAIN dist \subseteq Nodes /\ \A m \in DOMAIN dist : dist[m] \in Nat
  BY Labelling DEF Typed
<1>2. roots \subseteq DOMAIN dist /\ (n \in DOMAIN dist /\ n \notin Switches => roots = {n})
      /\ (n \in Switches => \A m \in roots : dist[m] > 0) /\ (n \notin Switches => roots \subseteq {n})
  BY <1>1 DEF NodeRoots
<1>3. roots \cap (Sources \ open) = {}
  BY <1>1, <1>2 DEF InStep, Exact, CurrentSources
<1>4. (CurrentSources \ (Sources \ open)) \cap DOMAIN dist \subseteq roots
  BY <1>2, NodesAssumption DEF CurrentSources
<1>5. ASSUME NEW u \in DOMAIN dist, NEW v \in DOMAIN dist, dist[v] = dist[u] + 1, v \in CurrentFeeding[u], v \notin G[u]
      PROVE  v \in roots \/ (u \in roots /\ v \in Hanging(u, roots, dist, open, edgeOpen, openWays))
  <2>1. v \in Fed(u, nodeOpen, edgeOpen, openWays) /\ v \notin Fed(u, open, edgeOpen, openWays)
    BY <1>1, <1>5 DEF CurrentFeeding, Feeding
  <2>2. PICK x \in Adj(u) : Passable(x, edgeOpen, openWays) /\ v = Other(x, u)
    BY <2>1, FedVia
  <2>3. u \notin nodeOpen /\ ~Blocked(v, nodeOpen) /\ (u \in open \/ Blocked(v, open))
    BY <2>1, <2>2, FedVia
  <2>4. u = n \/ (v = n /\ n \notin Switches)
    BY <2>3 DEF Blocked
  <2>5. CASE v = n /\ n \notin Switches
    BY <1>2, <2>5
  <2>6. CASE u = n /\ n \in Switches
    BY <1>5, <2>2, <2>6 DEF NodeRoots
  <2>7. CASE u = n /\ n \notin Switches
    BY <1>2, <1>5, <2>2, <2>7 DEF Hanging
  <2> QED BY <2>4, <2>5, <2>6, <2>7
<1>6. \A u, v \in DOMAIN dist :
        dist[v] = dist[u] + 1 /\ v \in CurrentFeeding[u] =>
          v \in roots \/ v \in Hanging(u, roots, dist, open, edgeOpen, openWays)
  BY <1>1, <1>5, FedHangs
<1> HIDE DEF roots, open
<1> QED BY <1>2, <1>3, <1>4, <1>5, <1>6 DEF Cut, roots, open

\* Closing a line: only its ends gain what they feed.
LEMMA CloseLineJoin ==
  ASSUME Typed, NEW e \in Present
  PROVE  Join(ends[e], nodeOpen, edgeOpen \ {e}, openWays)
<1> DEFINE eo == edgeOpen \ {e}
           G == Feeding(nodeOpen, eo, openWays)
<1>1. DOMAIN dist \subseteq Nodes
  BY Labelling DEF Typed
<1>2. Range(ends[e]) = {ends[e][1], ends[e][2]}
  BY TypedNetwork DEF Network, Range
<1>3. ASSUME NEW m \in DOMAIN dist, m \notin Range(ends[e]), NEW v \in G[m] PROVE v \in CurrentFeeding[m]
  <2>1. v \in Fed(m, nodeOpen, eo, openWays)
    BY <1>1, <1>3 DEF Feeding
  <2>2. PICK x \in Adj(m) : Passable(x, eo, openWays) /\ v = Other(x, m)
    BY <2>1, FedVia
  <2>3. x # e
    BY <1>2, <1>3, <2>2 DEF Adj
  <2>4. Passable(x, edgeOpen, openWays)
    BY <2>2, <2>3 DEF Passable
  <2>5. v \in Fed(m, nodeOpen, edgeOpen, openWays)
    BY <2>1, <2>2, <2>4, FedVia
  <2> QED BY <1>1, <2>5 DEF CurrentFeeding, Feeding
<1> HIDE DEF G
<1> QED BY <1>2, <1>3 DEF Join, CurrentSources, G

\* Closing a way of a switch: only the two ends of its line gain what they feed.
LEMMA CloseWayJoin ==
  ASSUME Typed, NEW n, NEW e \in Adj(n)
  PROVE  Join(<<n, Other(e, n)>>, nodeOpen, edgeOpen, openWays \ {<<n, e>>})
<1> DEFINE ways == openWays \ {<<n, e>>}
           G == Feeding(nodeOpen, edgeOpen, ways)
           seeds == <<n, Other(e, n)>>
<1>1. DOMAIN dist \subseteq Nodes
  BY Labelling DEF Typed
<1>2. Range(seeds) = {ends[e][1], ends[e][2]}
  <2>1. Range(seeds) = {n, Other(e, n)}
    BY DEF Range
  <2>2. {n, Other(e, n)} = {ends[e][1], ends[e][2]}
    BY DEF Other, Adj
  <2> QED BY <2>1, <2>2
<1>3. ASSUME NEW m \in DOMAIN dist, m \notin Range(seeds), NEW v \in G[m] PROVE v \in CurrentFeeding[m]
  <2>1. v \in Fed(m, nodeOpen, edgeOpen, ways)
    BY <1>1, <1>3 DEF Feeding
  <2>2. PICK x \in Adj(m) : Passable(x, edgeOpen, ways) /\ v = Other(x, m)
    BY <2>1, FedVia
  <2>3. x # e
    BY <1>2, <1>3, <2>2 DEF Adj
  <2>4. Passable(x, edgeOpen, openWays)
    BY <2>2, <2>3 DEF Passable
  <2>5. v \in Fed(m, nodeOpen, edgeOpen, openWays)
    BY <2>1, <2>2, <2>4, FedVia
  <2> QED BY <1>1, <2>5 DEF CurrentFeeding, Feeding
<1> HIDE DEF G
<1> QED BY <1>3 DEF Join, CurrentSources, G

\* Closing a node: it gains what it feeds, and a node that was cut is fed again, with no distance before.
LEMMA CloseNodeJoin ==
  ASSUME Typed, InStep, NEW n \in nodeOpen
  PROVE  Join(<<n>>, nodeOpen \ {n}, edgeOpen, openWays)
<1> DEFINE open == nodeOpen \ {n}
           G == Feeding(open, edgeOpen, openWays)
<1>1. DOMAIN dist \subseteq Nodes /\ \A m \in DOMAIN dist : dist[m] \in Nat
  BY Labelling DEF Typed
<1>2. Range(<<n>>) = {n}
  BY DEF Range
<1>3. n \notin Switches => n \notin DOMAIN dist
  <2> SUFFICES ASSUME n \notin Switches, n \in DOMAIN dist PROVE FALSE
    OBVIOUS
  <2>1. dist[n] > 0
    BY <1>1 DEF InStep, Exact, CurrentSources
  <2>2. PICK m \in DOMAIN dist : n \in CurrentFeeding[m]
    BY <2>1 DEF InStep, Exact, Grounded
  <2>3. n \in Fed(m, nodeOpen, edgeOpen, openWays)
    BY <1>1, <2>2 DEF CurrentFeeding, Feeding
  <2> QED BY <2>3, FedVia DEF Blocked
<1>4. (Sources \ open) \cap DOMAIN dist \subseteq CurrentSources
  BY <1>3, NodesAssumption DEF CurrentSources
<1>5. (Sources \ open) \ CurrentSources \subseteq {n}
  BY DEF CurrentSources
<1>6. ASSUME NEW m \in DOMAIN dist, m # n, NEW v \in G[m], v \notin CurrentFeeding[m] PROVE v = n /\ n \notin DOMAIN dist
  <2>1. v \in Fed(m, open, edgeOpen, openWays) /\ v \notin Fed(m, nodeOpen, edgeOpen, openWays)
    BY <1>1, <1>6 DEF CurrentFeeding, Feeding
  <2>2. m \notin open /\ ~Blocked(v, open) /\ Blocked(v, nodeOpen)
    BY <1>6, <2>1, FedVia
  <2> QED BY <1>3, <2>2 DEF Blocked
<1> HIDE DEF G, open
<1> QED BY <1>2, <1>4, <1>5, <1>6 DEF Join, G, open

-----------------------------------------------------------------------------
(* The invariant *)

LEMMA InitIInv ==
  ASSUME Init
  PROVE  IInv
<1>1. ends \in Topologies /\ nodeOpen \subseteq Nodes /\ edgeOpen \subseteq Edges /\ openWays \subseteq MultiWay \X Edges
  BY NodesAssumption, TopologyAssumption DEF Init
<1>2. Network
  BY <1>1, TopologyAssumption DEF Network, Present
<1>3. Exact(dist, CurrentSources, CurrentFeeding)
  BY <1>2, BfsExact DEF Init, CurrentSources, CurrentFeeding
<1>4. dist \in Labelings /\ DOMAIN dist \subseteq Nodes
  BY <1>3, Labelling DEF Exact
<1>5. InStep
  BY <1>3 DEF Init, InStep
<1>6. nodeOn \subseteq Nodes /\ edgeOn \subseteq Edges
  BY <1>1, <1>4, <1>5, TopologyAssumption DEF InStep, EdgesOn, Present
<1>7. distDirty \in BOOLEAN
  BY DEF Init
<1> QED BY <1>1, <1>4, <1>5, <1>6, <1>7 DEF IInv, Typed

\* A maneuver keeps the invariant: in step by the cut or the join, rebuilt when dirty.
LEMMA OpeningIInv ==
  ASSUME IInv, NEW roots, NEW seeds, NEW open \in SUBSET Nodes, NEW eo \in SUBSET Edges, NEW ways \in SUBSET (MultiWay \X Edges),
         InStep => Cut(roots, seeds, open, eo, ways), Move(TRUE, roots, seeds, open, eo, ways)
  PROVE  IInv'
<1>1. Typed /\ distDirty \in BOOLEAN
  BY DEF IInv, Typed
<1>2. ends' = ends /\ nodeOpen' \subseteq Nodes /\ edgeOpen' \subseteq Edges /\ openWays' \subseteq MultiWay \X Edges
  BY DEF Move
<1>3. InStep' /\ distDirty' = FALSE
  <2>1. CASE distDirty
    BY <1>1, <2>1, DirtyInStep
  <2>2. CASE ~distDirty
    BY <1>1, <2>2, OpeningInStep DEF IInv
  <2> QED BY <2>1, <2>2
<1> QED BY <1>1, <1>2, <1>3, InStepIInv

LEMMA ClosingIInv ==
  ASSUME IInv, NEW seeds \in Seq(Nodes), NEW open \in SUBSET Nodes, NEW eo \in SUBSET Edges,
         NEW ways \in SUBSET (MultiWay \X Edges),
         InStep => Join(seeds, open, eo, ways), Move(FALSE, {}, seeds, open, eo, ways)
  PROVE  IInv'
<1>1. Typed /\ distDirty \in BOOLEAN
  BY DEF IInv, Typed
<1>2. ends' = ends /\ nodeOpen' \subseteq Nodes /\ edgeOpen' \subseteq Edges /\ openWays' \subseteq MultiWay \X Edges
  BY DEF Move
<1>3. InStep' /\ distDirty' = FALSE
  <2>1. CASE distDirty
    BY <1>1, <2>1, DirtyInStep
  <2>2. CASE ~distDirty
    BY <1>1, <2>2, ClosingInStep DEF IInv
  <2> QED BY <2>1, <2>2
<1> QED BY <1>1, <1>2, <1>3, InStepIInv

\* A step of the graph keeps the invariant.
LEMMA NextIInv ==
  ASSUME IInv, [Next]_vars
  PROVE  IInv'
<1>1. Typed /\ nodeOpen \subseteq Nodes /\ edgeOpen \subseteq Edges /\ openWays \subseteq MultiWay \X Edges
  BY DEF IInv, Typed
<1>2. Network /\ Present \subseteq Edges /\ \A e \in Present : ends[e] \in Seq(Nodes)
  BY <1>1, TypedNetwork
<1>3. \A n : \A e \in Adj(n) : e \in Present /\ n \in Nodes /\ Other(e, n) \in Nodes /\ <<n, Other(e, n)>> \in Seq(Nodes)
  BY <1>2 DEF Network, Adj, Other
<1>4. MultiWay \subseteq Nodes
  BY NodesAssumption
<1>5. ASSUME NEW e \in Edges, OpenLine(e) PROVE IInv'
  <2>1. e \in Present \ edgeOpen
    BY <1>5 DEF OpenLine
  <2>2. Move(TRUE, LineRoots(e), ends[e], nodeOpen, edgeOpen \cup {e}, openWays)
    BY <1>5 DEF OpenLine
  <2>3. InStep => Cut(LineRoots(e), ends[e], nodeOpen, edgeOpen \cup {e}, openWays)
    BY <1>1, <2>1, OpenLineCut
  <2>4. edgeOpen \cup {e} \in SUBSET Edges
    BY <1>1
  <2> QED BY <1>1, <2>2, <2>3, <2>4, OpeningIInv
<1>6. ASSUME NEW e \in Edges, CloseLine(e) PROVE IInv'
  <2>1. e \in Present
    BY <1>6 DEF CloseLine
  <2>2. Move(FALSE, {}, ends[e], nodeOpen, edgeOpen \ {e}, openWays)
    BY <1>6 DEF CloseLine
  <2>3. Join(ends[e], nodeOpen, edgeOpen \ {e}, openWays)
    BY <1>1, <2>1, CloseLineJoin
  <2>4. edgeOpen \ {e} \in SUBSET Edges /\ ends[e] \in Seq(Nodes)
    BY <1>1, <1>2, <2>1
  <2> QED BY <1>1, <2>2, <2>3, <2>4, ClosingIInv
<1>7. ASSUME NEW n \in Nodes, NEW e \in Edges, OpenWay(n, e) PROVE IInv'
  <2>1. n \in MultiWay /\ e \in Present
    BY <1>3, <1>7 DEF OpenWay
  <2>2. Move(TRUE, LineRoots(e), <<n, Other(e, n)>>, nodeOpen, edgeOpen, openWays \cup {<<n, e>>})
    BY <1>7 DEF OpenWay
  <2>3. InStep => Cut(LineRoots(e), <<n, Other(e, n)>>, nodeOpen, edgeOpen, openWays \cup {<<n, e>>})
    BY <1>1, <2>1, OpenWayCut
  <2>4. openWays \cup {<<n, e>>} \in SUBSET (MultiWay \X Edges)
    BY <1>1, <2>1
  <2> QED BY <1>1, <2>2, <2>3, <2>4, OpeningIInv
<1>8. ASSUME NEW n \in Nodes, NEW e \in Edges, CloseWay(n, e) PROVE IInv'
  <2>1. e \in Adj(n)
    BY <1>8 DEF CloseWay
  <2>2. Move(FALSE, {}, <<n, Other(e, n)>>, nodeOpen, edgeOpen, openWays \ {<<n, e>>})
    BY <1>8 DEF CloseWay
  <2>3. Join(<<n, Other(e, n)>>, nodeOpen, edgeOpen, openWays \ {<<n, e>>})
    BY <1>1, <2>1, CloseWayJoin
  <2>4. openWays \ {<<n, e>>} \in SUBSET (MultiWay \X Edges) /\ <<n, Other(e, n)>> \in Seq(Nodes)
    BY <1>1, <1>3, <2>1
  <2> QED BY <1>1, <2>2, <2>3, <2>4, ClosingIInv
<1>9. ASSUME NEW n \in Nodes, OpenNode(n) PROVE IInv'
  <2>1. n \in Nodes \ nodeOpen
    BY <1>9 DEF OpenNode
  <2>2. Move(TRUE, NodeRoots(n), <<n>>, nodeOpen \cup {n}, edgeOpen, openWays)
    BY <1>9 DEF OpenNode
  <2>3. InStep => Cut(NodeRoots(n), <<n>>, nodeOpen \cup {n}, edgeOpen, openWays)
    BY <1>1, <2>1, OpenNodeCut
  <2>4. nodeOpen \cup {n} \in SUBSET Nodes
    BY <1>1
  <2> QED BY <1>1, <2>2, <2>3, <2>4, OpeningIInv
<1>10. ASSUME NEW n \in Nodes, CloseNode(n) PROVE IInv'
  <2>1. n \in nodeOpen
    BY <1>10 DEF CloseNode
  <2>2. Move(FALSE, {}, <<n>>, nodeOpen \ {n}, edgeOpen, openWays)
    BY <1>10 DEF CloseNode
  <2>3. InStep => Join(<<n>>, nodeOpen \ {n}, edgeOpen, openWays)
    BY <1>1, <2>1, CloseNodeJoin
  <2>4. nodeOpen \ {n} \in SUBSET Nodes /\ <<n>> \in Seq(Nodes)
    BY <1>1
  <2> QED BY <1>1, <2>2, <2>3, <2>4, ClosingIInv
<1>11. ASSUME NEW t \in Topologies, Refresh(t) PROVE IInv'
  <2>1. DOMAIN t \subseteq Edges
    BY TopologyAssumption
  <2>2. Typed'
    BY <1>1, <1>2, <1>11, <2>1 DEF Refresh, Typed
  <2> QED BY <1>11, <2>2 DEF Refresh, IInv
<1>12. CASE RebuildDistances
  <2>1. /\ RebuildWith(nodeOpen, edgeOpen, openWays)
        /\ ends' = ends /\ nodeOpen' = nodeOpen /\ edgeOpen' = edgeOpen /\ openWays' = openWays
    BY <1>12 DEF RebuildDistances, positions
  <2>2. InStep' /\ distDirty' = FALSE
    BY <1>2, <2>1, RebuiltInStep DEF RebuildWith
  <2> QED BY <1>1, <2>1, <2>2, InStepIInv
<1>13. CASE UNCHANGED vars
  <2>1. Typed' /\ (InStep => InStep') /\ distDirty' = distDirty
    BY <1>1, <1>13 DEF vars, Typed, InStep, CurrentSources, CurrentFeeding, Feeding, Fed, Adj, Other, Present,
                       Passable, Blocked, EdgesOn
  <2> QED BY <2>1 DEF IInv
<1> QED BY <1>5, <1>6, <1>7, <1>8, <1>9, <1>10, <1>11, <1>12, <1>13 DEF Next

\* The invariant always holds.
LEMMA Invariant == Spec => []IInv
<1>1. Init => IInv
  BY InitIInv
<1>2. IInv /\ [Next]_vars => IInv'
  BY NextIInv
<1> QED BY <1>1, <1>2, PTL DEF Spec

-----------------------------------------------------------------------------
(* The properties *)

\* Every variable of the graph has its type, in all that Maneuver, Refresh and the rebuild of graph.go do.
THEOREM TypeCorrect == Spec => []TypeOK
<1>1. IInv => TypeOK
  BY Labelling DEF IInv, Typed, TypeOK
<1> QED BY <1>1, Invariant, PTL

LEMMA IInvExact ==
  ASSUME IInv
  PROVE  DistExact
<1> SUFFICES ASSUME ~distDirty PROVE dist = Bfs(nodeOpen, edgeOpen, openWays)
  BY DEF DistExact
<1>1. Exact(dist, CurrentSources, CurrentFeeding)
  BY DEF IInv, InStep
<1>2. Exact(Bfs(nodeOpen, edgeOpen, openWays), CurrentSources, CurrentFeeding)
  BY TypedNetwork, BfsExact DEF IInv, CurrentSources, CurrentFeeding
<1> QED BY <1>1, <1>2, ExactUnique

\* Whatever maneuvers came before, distances that are not dirty are those of a full breadth-first pass:
\* reseedConeLocked and relaxFromLocked recompute all that a maneuver changes.
THEOREM DistancesExact == Spec => []DistExact
<1>1. IInv => DistExact
  BY IInvExact
<1> QED BY <1>1, Invariant, PTL

\* A line is flagged energized exactly when it is closed and both its ends are supplied, although
\* applyEnergyLocked only visits the lines at the nodes it touched.
THEOREM FlagsOfLines == Spec => []LinesFollowEnds
<1>1. IInv => LinesFollowEnds
  BY DEF IInv, InStep, LinesFollowEnds
<1> QED BY <1>1, Invariant, PTL

\* A node is flagged energized exactly when closed elements join it to a closed source.
THEOREM FlagsOfNodes == Spec => []EnergizedIffSupplied
<1>1. ASSUME IInv, ~distDirty PROVE nodeOn = {n \in Nodes : Supplied(n)}
  <2>1. /\ dist \in Labelings /\ DOMAIN dist \subseteq Nodes /\ \A n \in DOMAIN dist : dist[n] \in Nat
        /\ nodeOn = DOMAIN dist
    BY <1>1, Labelling DEF IInv, InStep, Typed
  <2>2. /\ \A n \in CurrentSources : n \in DOMAIN dist /\ dist[n] = 0
        /\ \A n \in DOMAIN dist : dist[n] = 0 => n \in CurrentSources
        /\ Grounded(dist, CurrentFeeding) /\ Closed(dist, CurrentFeeding)
    BY <1>1 DEF IInv, InStep, Exact
  <2>3. \A n \in Nodes : CurrentFeeding[n] = Fed(n, nodeOpen, edgeOpen, openWays)
    BY DEF CurrentFeeding, Feeding
  <2>4. ASSUME NEW n \in Nodes, Supplied(n) PROVE n \in DOMAIN dist
    <3>1. Sources \ nodeOpen \subseteq DOMAIN dist
      BY <2>2 DEF CurrentSources
    <3>2. \A m \in DOMAIN dist : Fed(m, nodeOpen, edgeOpen, openWays) \subseteq DOMAIN dist
      BY <2>1, <2>2, <2>3 DEF Closed
    <3> QED BY <2>1, <2>4, <3>1, <3>2 DEF Supplied
  <2>5. ASSUME NEW n \in DOMAIN dist PROVE Supplied(n)
    <3> SUFFICES ASSUME NEW S \in SUBSET Nodes, Sources \ nodeOpen \subseteq S,
                        \A m \in S : Fed(m, nodeOpen, edgeOpen, openWays) \subseteq S
                 PROVE  n \in S
      BY DEF Supplied
    <3> DEFINE Out == {m \in DOMAIN dist : m \notin S}
               V == {dist[m] : m \in Out}
    <3> SUFFICES ASSUME Out # {} PROVE FALSE
      OBVIOUS
    <3>1. V \in SUBSET Nat /\ V # {}
      BY <2>1
    <3>2. PICK v \in V : \A w \in V : v <= w
      <4> HIDE DEF V
      <4> QED BY <3>1, Least
    <3>3. PICK m \in Out : dist[m] = v
      OBVIOUS
    <3>4. dist[m] > 0
      BY <2>1, <2>2, <3>3 DEF CurrentSources
    <3>5. PICK u \in DOMAIN dist : dist[u] + 1 = dist[m] /\ m \in CurrentFeeding[u]
      BY <2>2, <3>4 DEF Grounded
    <3>6. u \in S
      <4>1. ~(v <= dist[u])
        BY <2>1, <3>3, <3>5
      <4> QED BY <3>2, <4>1
    <3> QED BY <2>1, <2>3, <3>3, <3>5, <3>6
  <2> QED BY <2>1, <2>4, <2>5
<1>2. IInv => EnergizedIffSupplied
  BY <1>1 DEF EnergizedIffSupplied
<1> QED BY <1>2, Invariant, PTL

\* The shortcut of normalDistLocked and computeGroups: with every switch at its normal position and no object
\* cut that is not a switch, the present distances are those of the normal positions.
THEOREM NormalShortcut == Spec => []NormalDistWithoutCuts
<1>1. ASSUME IInv, nodeOpen \subseteq Switches PROVE NormalDist = Bfs(NormalOpen, edgeOpen, NormalWays)
  <2>1. DistExact
    BY <1>1, IInvExact
  <2>2. CASE ~distDirty /\ SwitchesAtNormal
    <3>1. nodeOpen = NormalOpen /\ openWays = NormalWays
      BY <1>1, <2>2 DEF SwitchesAtNormal
    <3>2. NormalDist = dist
      BY <2>2 DEF NormalDist
    <3> QED BY <2>1, <2>2, <3>1, <3>2 DEF DistExact
  <2>3. CASE ~(~distDirty /\ SwitchesAtNormal)
    BY <2>3 DEF NormalDist
  <2> QED BY <2>2, <2>3
<1>2. IInv => NormalDistWithoutCuts
  BY <1>1 DEF NormalDistWithoutCuts
<1> QED BY <1>2, Invariant, PTL

\* Between distances that are not dirty only a maneuver moves, and the network stays as it is.
LEMMA SameNetwork ==
  ASSUME ~distDirty, ~distDirty', [Next]_vars, distDirty' \in BOOLEAN
  PROVE  ends' = ends
<1>1. ~RebuildDistances
  BY DEF RebuildDistances
<1>2. \A t \in Topologies : ~Refresh(t)
  BY DEF Refresh
<1> QED BY <1>1, <1>2 DEF Next, vars, Move, OpenLine, CloseLine, OpenWay, CloseWay, OpenNode, CloseNode

\* Opening only takes supply away and closing only gives it, on every step between clean distances: what
\* execManeuver reports on either side is all that changed.
THEOREM OnlyOneDirection == Spec => OneDirection
<1> DEFINE A == ~distDirty /\ ~distDirty' =>
                  /\ (nodeOpen \subseteq nodeOpen' /\ edgeOpen \subseteq edgeOpen' /\ openWays \subseteq openWays'
                        => nodeOn' \subseteq nodeOn)
                  /\ (nodeOpen' \subseteq nodeOpen /\ edgeOpen' \subseteq edgeOpen /\ openWays' \subseteq openWays
                        => nodeOn \subseteq nodeOn')
<1>1. ASSUME IInv, IInv', [Next]_vars PROVE A
  <2> SUFFICES ASSUME ~distDirty, ~distDirty' PROVE A
    OBVIOUS
  <2>1. ends' = ends
    BY <1>1, SameNetwork DEF IInv, Typed
  <2>2. Exact(dist, Sources \ nodeOpen, Feeding(nodeOpen, edgeOpen, openWays)) /\ nodeOn = DOMAIN dist
    BY <1>1 DEF IInv, InStep, CurrentSources, CurrentFeeding
  <2>3. CurrentFeeding' = Feeding(nodeOpen', edgeOpen', openWays') /\ CurrentSources' = Sources \ nodeOpen'
    BY <2>1 DEF CurrentFeeding, CurrentSources, Feeding, Fed, Adj, Other, Present, Passable, Blocked
  <2>4. Exact(dist', Sources \ nodeOpen', Feeding(nodeOpen', edgeOpen', openWays')) /\ nodeOn' = DOMAIN dist'
    BY <1>1, <2>3 DEF IInv, InStep
  <2>5. ASSUME nodeOpen \subseteq nodeOpen', edgeOpen \subseteq edgeOpen', openWays \subseteq openWays'
        PROVE  nodeOn' \subseteq nodeOn
    <3>1. \A n \in Nodes : Feeding(nodeOpen', edgeOpen', openWays')[n] \subseteq Feeding(nodeOpen, edgeOpen, openWays)[n]
      BY <2>5, FeedingShrinks
    <3>2. Sources \ nodeOpen' \subseteq Sources \ nodeOpen
      BY <2>5
    <3>3. \A n \in DOMAIN dist' : n \in DOMAIN dist
      BY <2>2, <2>4, <3>1, <3>2, ExactMonotone
    <3> QED BY <2>2, <2>4, <3>3
  <2>6. ASSUME nodeOpen' \subseteq nodeOpen, edgeOpen' \subseteq edgeOpen, openWays' \subseteq openWays
        PROVE  nodeOn \subseteq nodeOn'
    <3>1. \A n \in Nodes : Feeding(nodeOpen, edgeOpen, openWays)[n] \subseteq Feeding(nodeOpen', edgeOpen', openWays')[n]
      BY <2>6, FeedingShrinks
    <3>2. Sources \ nodeOpen \subseteq Sources \ nodeOpen'
      BY <2>6
    <3>3. \A n \in DOMAIN dist : n \in DOMAIN dist'
      BY <2>2, <2>4, <3>1, <3>2, ExactMonotone
    <3> QED BY <2>2, <2>4, <3>3
  <2> QED BY <2>5, <2>6
<1>2. IInv /\ IInv' /\ [Next]_vars => [A]_vars
  BY <1>1
<1>3. Spec => [][A]_vars
  BY <1>2, Invariant, PTL DEF Spec
<1> QED BY <1>3 DEF OneDirection
=============================================================================
