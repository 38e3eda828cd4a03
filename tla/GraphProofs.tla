---------------------------- MODULE GraphProofs -----------------------------
(***************************************************************************)
(* Lemmas on graphs whose nodes are numbered after their successors, which *)
(* is how a store numbers classes: a function that is defined by recursion *)
(* along the successors exists, and gives the nodes that can be reached.   *)
(*                                                                         *)
(* The library's induction theorems cannot be instantiated; induction is   *)
(* by the least counterexample, which exists since < is well-founded.      *)
(***************************************************************************)
EXTENDS Objects, WellFoundedInduction, TLAPS

\* next is a function from nodes to the sets of their successors.
IsGraph(n, next) == next \in [1..n -> SUBSET (1..n)]
Older(n, next)   == \A c \in 1..n : \A d \in next[c] : d < c

ClosedUnder(next, S) == \A c \in S : next[c] \subseteq S

\* What can be reached from c is in every set that holds c and is closed.
Reach(n, next, c) ==
    {d \in 1..n : \A S \in SUBSET (1..n) : c \in S /\ ClosedUnder(next, S) => d \in S}

\* A set of natural numbers has a least element.
LEMMA LeastExists ==
    ASSUME NEW S, S \subseteq Nat, S # {}
    PROVE  \E m \in S : \A k \in S : m <= k
<1> DEFINE R == OpToRel(<, Nat)
<1>1. PICK m \in S : \A k \in S : ~(<<k, m>> \in R)
  <2>1. IsWellFoundedOn(R, Nat)
    BY NatLessThanWellFounded
  <2> HIDE DEF R
  <2> QED BY <2>1, WFMin
<1>2. \A k \in S : ~(k < m)
  <2> TAKE k \in S
  <2>1. k < m => <<k, m>> \in R
    BY DEF OpToRel
  <2> QED BY <1>1, <2>1
<1> QED BY <1>2

\* The nodes reached from c are c and those reached from its successors.
LEMMA ReachStep ==
    ASSUME NEW n \in Nat, NEW next, IsGraph(n, next), NEW c \in 1..n
    PROVE  Reach(n, next, c) = {c} \cup UNION {Reach(n, next, d) : d \in next[c]}
<1> DEFINE step == {c} \cup UNION {Reach(n, next, d) : d \in next[c]}
<1>1. next[c] \subseteq 1..n
  BY DEF IsGraph
<1>2. ASSUME NEW d \in next[c], NEW e \in Reach(n, next, d)
      PROVE  e \in Reach(n, next, c)
  <2>1. ASSUME NEW S \in SUBSET (1..n), c \in S, ClosedUnder(next, S) PROVE e \in S
    <3>1. d \in S
      BY <2>1 DEF ClosedUnder
    <3> QED BY <2>1, <3>1, <1>2 DEF Reach
  <2>2. e \in 1..n
    BY <1>2 DEF Reach
  <2> QED BY <2>1, <2>2 DEF Reach
<1>3. c \in Reach(n, next, c)
  BY DEF Reach
<1>4. step \subseteq Reach(n, next, c)
  BY <1>2, <1>3
<1>5. step \in SUBSET (1..n)
  BY DEF Reach
<1>6. ASSUME NEW a \in step, NEW b \in next[a] PROVE b \in step
  <2>1. CASE a = c
    <3>1. b \in 1..n /\ b \in next[c]
      BY <1>1, <1>6, <2>1
    <3>2. b \in Reach(n, next, b)
      BY <3>1 DEF Reach
    <3> QED BY <3>1, <3>2
  <2>2. ASSUME NEW d \in next[c], a \in Reach(n, next, d) PROVE b \in step
    <3>1. a \in 1..n /\ b \in 1..n
      BY <1>6, <2>2 DEF Reach, IsGraph
    <3>2. ASSUME NEW S \in SUBSET (1..n), d \in S, ClosedUnder(next, S) PROVE b \in S
      <4>1. a \in S
        BY <2>2, <3>2 DEF Reach
      <4> QED BY <1>6, <3>2, <4>1 DEF ClosedUnder
    <3>3. b \in Reach(n, next, d)
      BY <3>1, <3>2 DEF Reach
    <3> QED BY <3>3
  <2> QED BY <1>6, <2>1, <2>2
<1>7. ClosedUnder(next, step)
  BY <1>6 DEF ClosedUnder
<1>8. c \in step
  OBVIOUS
<1> HIDE DEF step
<1>9. Reach(n, next, c) \subseteq step
  BY <1>5, <1>7, <1>8 DEF Reach
<1> QED BY <1>4, <1>9 DEF step

\* Two functions that satisfy the same recursion are equal.
LEMMA RecursionUnique ==
    ASSUME NEW n \in Nat, NEW next, IsGraph(n, next), Older(n, next),
           NEW f, NEW g,
           \A c \in 1..n : f[c] = {c} \cup UNION {f[d] : d \in next[c]},
           \A c \in 1..n : g[c] = {c} \cup UNION {g[d] : d \in next[c]}
    PROVE  \A c \in 1..n : f[c] = g[c]
<1> DEFINE Bad == {c \in 1..n : f[c] # g[c]}
<1>1. SUFFICES ASSUME Bad # {} PROVE FALSE
  OBVIOUS
<1>2. Bad \subseteq Nat
  OBVIOUS
<1>3. PICK m \in Bad : \A k \in Bad : m <= k
  <2> HIDE DEF Bad
  <2> QED BY <1>1, <1>2, LeastExists
<1>4. m \in 1..n /\ f[m] # g[m]
  OBVIOUS
<1>5. \A d \in next[m] : d \in 1..n /\ d < m
  BY <1>4 DEF IsGraph, Older
<1>6. \A d \in next[m] : ~(m <= d)
  BY <1>5
<1>7. \A d \in next[m] : f[d] = g[d]
  BY <1>3, <1>5, <1>6
<1>8. {f[d] : d \in next[m]} = {g[d] : d \in next[m]}
  BY <1>7
<1> QED BY <1>4, <1>8

\* In a store whose classes are numbered after their bases, the recursion of
\* Ancestors gives the classes that can be reached.
LEMMA AncestorsReach ==
    ASSUME NEW h, Len(h.objs) \in Nat,
           NEW next, IsGraph(Len(h.objs), next), Older(Len(h.objs), next),
           \A c \in 1..Len(h.objs) : next[c] = Bases(h, c),
           NEW c \in 1..Len(h.objs)
    PROVE  Ancestors(h, c) = Reach(Len(h.objs), next, c)
<1> DEFINE n == Len(h.objs)
           up == CHOOSE f : f = [d \in 1..n |-> {d} \cup UNION {f[b] : b \in Bases(h, d)}]
           g == [d \in 1..n |-> Reach(n, next, d)]
<1>1. g = [d \in 1..n |-> {d} \cup UNION {g[b] : b \in Bases(h, d)}]
  <2>1. ASSUME NEW d \in 1..n
        PROVE  Reach(n, next, d) = {d} \cup UNION {g[b] : b \in Bases(h, d)}
    <3>1. Bases(h, d) = next[d] /\ next[d] \subseteq 1..n
      BY DEF IsGraph
    <3>2. \A b \in next[d] : g[b] = Reach(n, next, b)
      BY <3>1
    <3>3. {g[b] : b \in next[d]} = {Reach(n, next, b) : b \in next[d]}
      BY <3>2
    <3> HIDE DEF n, g
    <3>4. Reach(n, next, d) = {d} \cup UNION {Reach(n, next, b) : b \in next[d]}
      BY ReachStep DEF n
    <3> QED BY <3>1, <3>3, <3>4
  <2> QED BY <2>1
<1> HIDE DEF g
<1>2. up = [d \in 1..n |-> {d} \cup UNION {up[b] : b \in Bases(h, d)}]
  BY <1>1
<1> HIDE DEF up
<1>3. \A d \in 1..n : up[d] = {d} \cup UNION {up[b] : b \in next[d]}
  BY <1>2
<1>4. \A d \in 1..n : g[d] = {d} \cup UNION {g[b] : b \in next[d]}
  BY <1>1
<1>5. up[c] = g[c]
  <2>1. n \in Nat /\ IsGraph(n, next) /\ Older(n, next) /\ c \in 1..n
    OBVIOUS
  <2> HIDE DEF n
  <2>2. \A d \in 1..n : up[d] = g[d]
    BY <1>3, <1>4, <2>1, RecursionUnique
  <2> QED BY <2>1, <2>2
<1>6. g[c] = Reach(n, next, c)
  BY DEF g
<1>7. Ancestors(h, c) = up[c]
  BY DEF Ancestors, up
<1> QED BY <1>5, <1>6, <1>7

=============================================================================
