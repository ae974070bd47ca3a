----------------------------- MODULE CaptureProofs -----------------------------
(***************************************************************************)
(* Proofs about Capture, for any number of events, turns and calls and any *)
(* messages.                                                               *)
(*                                                                         *)
(* TurnOf is a recursive function over a sequence.  What it computes is    *)
(* shown by the least place at which it would fail, since the induction    *)
(* theorems of the library take an operator that no prover instantiates.   *)
(***************************************************************************)
EXTENDS Capture, TLAPS, WellFoundedInduction, FiniteSetTheorems

\* A set of numbers has a least one: what stands for induction below.
LEMMA NonEmptyMin ==
    ASSUME NEW T \in SUBSET Nat, T # {}
    PROVE  \E n \in T : \A m \in T : n <= m
<1>1. PICK x \in T : \A y \in T : <<y, x>> \notin OpToRel(<, Nat)
  BY WFMin, NatLessThanWellFounded
<1>2. \A y \in T : ~(y < x)
  BY <1>1 DEF OpToRel
<1> QED
  BY <1>2

LEMMA NonEmptyMax ==
    ASSUME NEW n \in Nat, NEW T \in SUBSET (0 .. n), T # {}
    PROVE  \E x \in T : \A y \in T : y <= x
<1> DEFINE U == {n - y : y \in T}
<1>1. U \in SUBSET Nat /\ U # {}
  <2>1. \A y \in T : n - y \in Nat
    OBVIOUS
  <2>2. PICK y \in T : TRUE
    OBVIOUS
  <2> QED
    BY <2>1, <2>2
<1>2. PICK u \in U : \A v \in U : u <= v
  BY <1>1, NonEmptyMin
<1>3. PICK x \in T : u = n - x
  BY <1>2
<1>4. \A y \in T : u <= n - y
  BY <1>2
<1>5. \A y \in T : y <= x
  BY <1>3, <1>4
<1> QED
  BY <1>3, <1>5

\* The recursive function of TurnOf exists.  If it did not, there would be a shortest
\* prefix for which it does not, and one observation more can always be added.
LEMMA CurrentExists ==
    ASSUME NEW group, Len(group) \in Nat
    PROVE  \E c : c = [i \in 0 .. Len(group) |->
                         IF i = 0 THEN NoTurn ELSE Leaves(group[i], Joins(c[i - 1], group[i]))]
<1> DEFINE Good(n) == \E c : c = [i \in 0 .. n |->
                         IF i = 0 THEN NoTurn ELSE Leaves(group[i], Joins(c[i - 1], group[i]))]
           Bad == {n \in Nat : ~Good(n)}
<1>1. ASSUME Bad # {} PROVE FALSE
  <2>1. PICK n \in Bad : \A m \in Bad : n <= m
    BY <1>1, NonEmptyMin
  <2>2. n # 0
    <3>1. [i \in 0 .. 0 |-> NoTurn] = [i \in 0 .. 0 |->
             IF i = 0 THEN NoTurn ELSE Leaves(group[i], Joins([k \in 0 .. 0 |-> NoTurn][i - 1], group[i]))]
      OBVIOUS
    <3>2. Good(0)
      BY <3>1
    <3> QED BY <3>2, <2>1
  <2>3. n - 1 \in Nat /\ Good(n - 1)
    <3>1. n - 1 \in Nat /\ ~(n <= n - 1)
      BY <2>1, <2>2
    <3> HIDE DEF Good
    <3> QED BY <3>1, <2>1
  <2>4. PICK c : c = [i \in 0 .. n - 1 |->
                         IF i = 0 THEN NoTurn ELSE Leaves(group[i], Joins(c[i - 1], group[i]))]
    BY <2>3
  <2> DEFINE d == [i \in 0 .. n |-> IF i = n THEN Leaves(group[i], Joins(c[i - 1], group[i])) ELSE c[i]]
  <2>5. d = [i \in 0 .. n |-> IF i = 0 THEN NoTurn ELSE Leaves(group[i], Joins(d[i - 1], group[i]))]
    <3> SUFFICES ASSUME NEW i \in 0 .. n
                 PROVE  d[i] = IF i = 0 THEN NoTurn ELSE Leaves(group[i], Joins(d[i - 1], group[i]))
      OBVIOUS
    <3>1. CASE i = 0
      BY <3>1, <2>2, <2>4
    <3>2. CASE i # 0
      <4>1. i - 1 \in 0 .. n /\ i - 1 # n /\ d[i - 1] = c[i - 1]
        BY <3>2
      <4>2. CASE i = n
        BY <4>1, <4>2, <3>2
      <4>3. CASE i # n
        <5>1. d[i] = c[i] /\ i \in 0 .. n - 1
          BY <4>3
        <5>2. c[i] = Leaves(group[i], Joins(c[i - 1], group[i]))
          BY <5>1, <2>4, <3>2
        <5> QED BY <5>1, <5>2, <4>1, <3>2
      <4> QED BY <4>2, <4>3
    <3> QED BY <3>1, <3>2
  <2>6. Good(n)
    BY <2>5
  <2> QED BY <2>6, <2>1
<1> QED BY <1>1

\* What TurnOf computes, without the recursive function.
LEMMA TurnOfUnfolds ==
    ASSUME NEW group, Len(group) \in Nat, DOMAIN group = 1 .. Len(group)
    PROVE  LET t == TurnOf(group) IN
           /\ DOMAIN t = DOMAIN group
           /\ \A i \in DOMAIN group :
                t[i] = Joins(IF i = 1 THEN NoTurn ELSE Leaves(group[i - 1], t[i - 1]), group[i])
<1> DEFINE c == CHOOSE c : c = [i \in 0 .. Len(group) |->
                         IF i = 0 THEN NoTurn ELSE Leaves(group[i], Joins(c[i - 1], group[i]))]
<1>1. c = [i \in 0 .. Len(group) |->
                         IF i = 0 THEN NoTurn ELSE Leaves(group[i], Joins(c[i - 1], group[i]))]
  BY CurrentExists
<1>2. TurnOf(group) = [i \in DOMAIN group |-> Joins(c[i - 1], group[i])]
  BY DEF TurnOf
<1> HIDE DEF c
<1>3. \A i \in 0 .. Len(group) : 
         c[i] = IF i = 0 THEN NoTurn ELSE Leaves(group[i], Joins(c[i - 1], group[i]))
  BY <1>1
<1>4. \A i \in DOMAIN group : TurnOf(group)[i] = Joins(c[i - 1], group[i])
  BY <1>2
<1>5. ASSUME NEW i \in DOMAIN group
      PROVE  c[i - 1] = IF i = 1 THEN NoTurn ELSE Leaves(group[i - 1], TurnOf(group)[i - 1])
  <2>1. CASE i = 1
    BY <1>3, <2>1
  <2>2. CASE i # 1
    <3>1. i - 1 \in DOMAIN group /\ i - 1 \in 0 .. Len(group) /\ i - 1 # 0
      BY <2>2
    <3>2. c[i - 1] = Leaves(group[i - 1], Joins(c[(i - 1) - 1], group[i - 1]))
      BY <3>1, <1>3
    <3> QED BY <3>1, <3>2, <1>4, <2>2
  <2> QED BY <2>1, <2>2
<1> QED BY <1>2, <1>4, <1>5
-----------------------------------------------------------------------------

\* A prompt or a turn_id names the turn.
Names(o) == o.kind = "PromptSubmitted" \/ o.turn # 0
NameOf(o) == IF o.turn # 0 THEN Explicit(o.turn) ELSE Derived(o)

\* The places up to i behind the last Stop before i.
Since(g, i) == {k \in 1 .. i : \A s \in 1 .. i - 1 : g[s].kind = "AgentStopped" => s < k}

\* The turn t of place i in the words of ReferenceTurn: that of the last name since
\* the last Stop, or of the first sign of work, or none.
Characterised(g, i, t) ==
    /\ \A k \in Since(g, i) :
         Names(g[k]) /\ (\A m \in Since(g, i) : Names(g[m]) => m <= k) => t = NameOf(g[k])
    /\ (\A k \in Since(g, i) : ~Names(g[k])) =>
         \A k \in Since(g, i) :
           Opens(g[k]) /\ (\A m \in Since(g, i) : Opens(g[m]) => k <= m) => t = Derived(g[k])
    /\ (\A k \in Since(g, i) : ~Names(g[k]) /\ ~Opens(g[k])) => t = NoTurn

LEMMA NameIsATurn == ASSUME NEW o PROVE NameOf(o) # NoTurn /\ Derived(o) # NoTurn
  BY DEF NameOf, NoTurn, Explicit, Derived

\* One observation more.
LEMMA SinceStep ==
    ASSUME NEW g, NEW i \in Nat, i > 1
    PROVE  Since(g, i) = IF g[i - 1].kind = "AgentStopped" THEN {i} ELSE Since(g, i - 1) \cup {i}
<1>1. CASE g[i - 1].kind = "AgentStopped"
  <2>1. i - 1 \in 1 .. i - 1
    OBVIOUS
  <2> QED BY <1>1, <2>1 DEF Since
<1>2. CASE g[i - 1].kind # "AgentStopped"
  <2>1. ASSUME NEW s \in 1 .. i - 1, g[s].kind = "AgentStopped" PROVE s \in 1 .. (i - 1) - 1
    BY <2>1, <1>2
  <2>2. 1 .. (i - 1) - 1 \subseteq 1 .. i - 1 /\ 1 .. i = 1 .. (i - 1) \cup {i}
    OBVIOUS
  <2> QED BY <1>2, <2>1, <2>2 DEF Since
<1> QED BY <1>1, <1>2

LEMMA JoinsNothing ==
    ASSUME NEW g, NEW i \in Nat, Since(g, i) = {i}
    PROVE  Characterised(g, i, Joins(NoTurn, g[i]))
  BY DEF Characterised, Joins, Names, NameOf, Opens

LEMMA JoinsSome ==
    ASSUME NEW g, NEW i \in Nat, i > 1, NEW t, Characterised(g, i - 1, t),
           g[i - 1].kind # "AgentStopped"
    PROVE  Characterised(g, i, Joins(t, g[i]))
<1> DEFINE S == Since(g, i - 1)
<1>1. Since(g, i) = S \cup {i}
  BY SinceStep
<1>2. S \in SUBSET (1 .. i - 1) /\ S \in SUBSET (0 .. i - 1) /\ S \in SUBSET Nat /\ i \notin S
  BY DEF Since
<1> HIDE DEF S
<1>3. CASE Names(g[i])
  <2>1. Joins(t, g[i]) = NameOf(g[i])
    BY <1>3 DEF Joins, Names, NameOf
  <2>2. \A k \in S : ~(i <= k)
    BY <1>2
  <2> QED BY <1>1, <1>3, <2>1, <2>2 DEF Characterised
<1>4. CASE ~Names(g[i])
  <2>1. Joins(t, g[i]) = IF t = NoTurn /\ Opens(g[i]) THEN Derived(g[i]) ELSE t
    BY <1>4 DEF Joins, Names
  <2>2. CASE \E k \in S : Names(g[k])
    <3> DEFINE N == {k \in S : Names(g[k])}
    <3>1. N # {} /\ N \in SUBSET (0 .. i - 1) /\ i - 1 \in Nat
      <4>1. N # {}
        BY <2>2
      <4>2. N \subseteq S /\ i - 1 \in Nat
        OBVIOUS
      <4> QED
        BY <4>1, <4>2, <1>2
    <3>2. PICK x \in N : \A y \in N : y <= x
      BY <3>1, NonEmptyMax
    <3>3. t = NameOf(g[x])
      BY <3>2 DEF Characterised, S
    <3>4. Joins(t, g[i]) = t
      BY <2>1, <3>3, NameIsATurn
    <3>5. \A k \in Since(g, i) :
            Names(g[k]) /\ (\A m \in Since(g, i) : Names(g[m]) => m <= k) => t = NameOf(g[k])
      BY <1>1, <1>4 DEF Characterised, S
    <3> QED BY <3>4, <3>5, <2>2, <1>1 DEF Characterised
  <2>3. CASE (\A k \in S : ~Names(g[k])) /\ \E k \in S : Opens(g[k])
    <3> DEFINE O == {k \in S : Opens(g[k])}
    <3>1. O # {} /\ O \in SUBSET Nat
      BY <2>3, <1>2
    <3>2. PICK x \in O : \A y \in O : x <= y
      BY <3>1, NonEmptyMin
    <3>3. t = Derived(g[x])
      BY <3>2, <2>3 DEF Characterised, S
    <3>4. Joins(t, g[i]) = t
      BY <2>1, <3>3, NameIsATurn
    <3>5. ASSUME NEW k \in Since(g, i), Opens(g[k]), \A m \in Since(g, i) : Opens(g[m]) => k <= m
          PROVE  t = Derived(g[k])
      <4>1. k <= x /\ x < i /\ x \in Nat
        BY <3>2, <3>5, <1>1, <1>2
      <4>2. k \in S
        BY <4>1, <1>1, <1>2
      <4> QED BY <4>2, <3>5, <1>1, <2>3 DEF Characterised, S
    <3> QED BY <3>4, <3>5, <2>3, <1>1, <1>4 DEF Characterised
  <2>4. CASE \A k \in S : ~Names(g[k]) /\ ~Opens(g[k])
    <3>1. t = NoTurn
      BY <2>4 DEF Characterised, S
    <3> QED BY <3>1, <2>1, <2>4, <1>1, <1>4 DEF Characterised
  <2> QED BY <2>2, <2>3, <2>4
<1> QED BY <1>3, <1>4

\* By the least place at which it would fail.
LEMMA TurnOfCharacterised ==
    ASSUME NEW g, Len(g) \in Nat, DOMAIN g = 1 .. Len(g)
    PROVE  \A i \in DOMAIN g : Characterised(g, i, TurnOf(g)[i])
<1> DEFINE t == TurnOf(g)
           Bad == {i \in DOMAIN g : ~Characterised(g, i, t[i])}
<1>1. \A i \in DOMAIN g : t[i] = Joins(IF i = 1 THEN NoTurn ELSE Leaves(g[i - 1], t[i - 1]), g[i])
  BY TurnOfUnfolds
<1> HIDE DEF t
<1>2. ASSUME Bad # {} PROVE FALSE
  <2>1. Bad \in SUBSET Nat
    OBVIOUS
  <2>2. PICK i \in Bad : \A m \in Bad : i <= m
    BY <1>2, <2>1, NonEmptyMin
  <2>3. CASE i = 1
    <3>1. Since(g, 1) = {1}
      BY DEF Since
    <3>2. t[1] = Joins(NoTurn, g[1])
      BY <1>1, <2>3
    <3> QED BY <3>1, <3>2, <2>2, <2>3, JoinsNothing
  <2>4. CASE i # 1
    <3>1. i \in Nat /\ i > 1 /\ i \in DOMAIN g /\ i - 1 \in DOMAIN g /\ ~(i <= i - 1)
      BY <2>4
    <3>2. Characterised(g, i - 1, t[i - 1])
      BY <3>1, <2>2
    <3>3. t[i] = Joins(Leaves(g[i - 1], t[i - 1]), g[i])
      BY <3>1, <1>1, <2>4
    <3>4. CASE g[i - 1].kind = "AgentStopped"
      <4>1. Since(g, i) = {i} /\ t[i] = Joins(NoTurn, g[i])
        BY <3>1, <3>3, <3>4, SinceStep DEF Leaves
      <4>2. Characterised(g, i, t[i])
        BY <3>1, <4>1, JoinsNothing
      <4> QED BY <4>2
    <3>5. CASE g[i - 1].kind # "AgentStopped"
      <4>1. t[i] = Joins(t[i - 1], g[i])
        BY <3>3, <3>5 DEF Leaves
      <4>2. Characterised(g, i, t[i])
        BY <3>1, <3>2, <3>5, <4>1, JoinsSome
      <4> QED BY <4>2
    <3> QED BY <3>4, <3>5
  <2> QED BY <2>3, <2>4
<1> QED BY <1>2 DEF t
-----------------------------------------------------------------------------

\* Observations with times of their own.
Sound(s) ==
    /\ Len(s) \in Nat /\ DOMAIN s = 1 .. Len(s)
    /\ \A j \in DOMAIN s : s[j].at \in Nat
    /\ \A j, k \in DOMAIN s : s[j].at = s[k].at => j = k

\* Grouped is a sort: the number of earlier observations is a place of its own for
\* each, so that every place is taken.
LEMMA GroupedSorts ==
    ASSUME NEW s, Sound(s)
    PROVE  LET g == Grouped(s) IN
           /\ DOMAIN g = 1 .. Len(s) /\ Len(g) = Len(s)
           /\ {g[n] : n \in DOMAIN g} = {s[j] : j \in DOMAIN s}
           /\ \A m, n \in DOMAIN g : m < n => g[m].at < g[n].at
<1> DEFINE L == Len(s)
           Before(i) == {j \in DOMAIN s : \/ s[j].at < s[i].at
                                          \/ s[j].at = s[i].at /\ j < i}
           r == [i \in 1 .. L |-> Cardinality(Before(i))]
           g == Grouped(s)
           pick(n) == CHOOSE i \in DOMAIN s : Cardinality(Before(i)) = n - 1
<1>1. L \in Nat /\ DOMAIN s = 1 .. L
  BY DEF Sound
<1>2. ASSUME NEW i \in 1 .. L
      PROVE  Before(i) = {j \in 1 .. L : s[j].at < s[i].at}
  BY DEF Sound
<1>3. IsFiniteSet(1 .. L) /\ Cardinality(1 .. L) = L
  <2>1. 1 \in Int /\ L \in Int
    BY <1>1
  <2>2. IsFiniteSet(1 .. L) /\ Cardinality(1 .. L) = IF 1 > L THEN 0 ELSE L - 1 + 1
    BY <2>1, FS_Interval
  <2> QED
    BY <2>2, <1>1
<1>4. ASSUME NEW i \in 1 .. L
      PROVE  /\ IsFiniteSet(Before(i)) /\ Cardinality(Before(i)) \in 0 .. L - 1
             /\ i \notin Before(i)
  <2>1. i \notin Before(i) /\ Before(i) \subseteq (1 .. L) \ {i}
    BY <1>2 DEF Sound
  <2>2. IsFiniteSet((1 .. L) \ {i}) /\ Cardinality((1 .. L) \ {i}) = L - 1
    BY <1>3, FS_RemoveElement
  <2> HIDE DEF Before
  <2>3. IsFiniteSet(Before(i)) /\ Cardinality(Before(i)) <= L - 1
    BY <2>1, <2>2, FS_Subset
  <2>4. Cardinality(Before(i)) \in Nat
    BY <2>3, FS_CardinalityType
  <2> QED
    BY <2>1, <2>3, <2>4, <1>1
<1>5. ASSUME NEW i \in 1 .. L, NEW k \in 1 .. L, s[i].at < s[k].at
      PROVE  Cardinality(Before(i)) < Cardinality(Before(k))
  <2>1. Before(i) \cup {i} \subseteq Before(k)
    BY <1>2, <1>5, <1>1 DEF Sound
  <2>2. i \notin Before(i) /\ IsFiniteSet(Before(i)) /\ IsFiniteSet(Before(k))
    BY <1>4
  <2> HIDE DEF Before
  <2>3. IsFiniteSet(Before(i) \cup {i}) /\ Cardinality(Before(i) \cup {i}) = Cardinality(Before(i)) + 1
    BY <2>2, FS_AddElement, Zenon
  <2>4. Cardinality(Before(i) \cup {i}) <= Cardinality(Before(k))
    BY <2>1, <2>2, FS_Subset
  <2> QED
    BY <2>3, <2>4, <1>4
<1>6. \A i, k \in 1 .. L : Cardinality(Before(i)) = Cardinality(Before(k)) => i = k
  <2> SUFFICES ASSUME NEW i \in 1 .. L, NEW k \in 1 .. L, i # k
               PROVE  Cardinality(Before(i)) # Cardinality(Before(k))
    OBVIOUS
  <2>1. s[i].at < s[k].at \/ s[k].at < s[i].at
    BY <1>1 DEF Sound
  <2> HIDE DEF Before
  <2>2. Cardinality(Before(i)) \in Nat /\ Cardinality(Before(k)) \in Nat
    BY <1>4, <1>1
  <2> QED
    BY <2>1, <2>2, <1>5
<1> HIDE DEF Before
<1>7. \A n \in 1 .. L : \E i \in 1 .. L : Cardinality(Before(i)) = n - 1
  <2>1. r \in Injection(1 .. L, 0 .. L - 1)
    <3>1. r \in [1 .. L -> 0 .. L - 1]
      BY <1>4
    <3>2. \A i, k \in 1 .. L : r[i] = r[k] => i = k
      BY <1>6
    <3> QED
      BY <3>1, <3>2 DEF Injection, IsInjective
  <2>2. IsFiniteSet(0 .. L - 1) /\ Cardinality(0 .. L - 1) = L
    <3>1. 0 \in Int /\ L - 1 \in Int
      BY <1>1
    <3>2. IsFiniteSet(0 .. L - 1) /\ Cardinality(0 .. L - 1) = IF 0 > L - 1 THEN 0 ELSE (L - 1) - 0 + 1
      BY <3>1, FS_Interval
    <3> QED
      BY <3>2, <1>1
  <2>3. r \in Surjection(1 .. L, 0 .. L - 1)
    BY <2>1, <2>2, <1>3, FS_Injection
  <2>4. \A y \in 0 .. L - 1 : \E i \in 1 .. L : r[i] = y
    BY <2>3 DEF Surjection
  <2>5. \A n \in 1 .. L : n - 1 \in 0 .. L - 1
    BY <1>1
  <2> QED
    BY <2>4, <2>5
<1>8. g = [n \in 1 .. L |-> s[pick(n)]]
  BY <1>1 DEF Grouped, Before
<1>9. \A n \in 1 .. L : pick(n) \in 1 .. L /\ Cardinality(Before(pick(n))) = n - 1
  BY <1>7, <1>1
<1>10. \A j \in 1 .. L : \E n \in 1 .. L : pick(n) = j
  <2> SUFFICES ASSUME NEW j \in 1 .. L PROVE \E n \in 1 .. L : pick(n) = j
    OBVIOUS
  <2>1. Cardinality(Before(j)) + 1 \in 1 .. L
    BY <1>4, <1>1
  <2>2. PICK n \in 1 .. L : n - 1 = Cardinality(Before(j))
    BY <2>1, <1>4
  <2>3. pick(n) = j
    BY <2>2, <1>9, <1>6
  <2> QED
    BY <2>3
<1> HIDE DEF pick, g
<1>11. DOMAIN g = 1 .. L /\ Len(g) = L
  BY <1>8, <1>1
<1>12. {g[n] : n \in DOMAIN g} = {s[j] : j \in DOMAIN s}
  BY <1>8, <1>9, <1>10, <1>11, <1>1
<1>13. ASSUME NEW m \in 1 .. L, NEW n \in 1 .. L, m < n
       PROVE  g[m].at < g[n].at
  <2>1. pick(m) \in 1 .. L /\ pick(n) \in 1 .. L
    BY <1>9
  <2>2. Cardinality(Before(pick(m))) < Cardinality(Before(pick(n)))
    BY <1>9, <1>13
  <2>3. pick(m) # pick(n) /\ ~(s[pick(n)].at < s[pick(m)].at)
    BY <2>1, <2>2, <1>5, <1>4
  <2>4. s[pick(m)].at < s[pick(n)].at
    BY <2>1, <2>3, <1>1 DEF Sound
  <2> QED
    BY <2>4, <1>8
<1> QED
  BY <1>11, <1>12, <1>13 DEF g
-----------------------------------------------------------------------------
Held(s) == {s[j] : j \in DOMAIN s}

\* On a sorted sequence TurnOf is ReferenceTurn.
LEMMA TurnOfReference ==
    ASSUME NEW g, Len(g) \in Nat, DOMAIN g = 1 .. Len(g),
           \A n \in DOMAIN g : g[n].at \in Nat,
           \A m, n \in DOMAIN g : m < n => g[m].at < g[n].at
    PROVE  \A i \in DOMAIN g : TurnOf(g)[i] = ReferenceTurn(Held(g), g[i])
<1> SUFFICES ASSUME NEW i \in DOMAIN g
             PROVE  TurnOf(g)[i] = ReferenceTurn(Held(g), g[i])
  OBVIOUS
<1> DEFINE o == g[i]
           past == {p \in Held(g) : p.at <= o.at}
           stops == {p \in past \ {o} : p.kind = "AgentStopped"}
           since == {p \in past : \A q \in stops : q.at < p.at}
           named == {p \in since : p.kind = "PromptSubmitted" \/ p.turn # 0}
           opened == {p \in since : Opens(p)}
           K == Since(g, i)
           N == {k \in K : Names(g[k])}
           O == {k \in K : Opens(g[k])}
<1>1. i \in Nat /\ 1 .. i \subseteq DOMAIN g /\ i \in 1 .. i
  OBVIOUS
<1>2. \A m, n \in DOMAIN g : (g[m].at <= g[n].at <=> m <= n) /\ (g[m].at < g[n].at <=> m < n)
  OBVIOUS
<1>3. past = {g[k] : k \in 1 .. i}
  BY <1>1, <1>2 DEF Held
<1>4. stops = {g[k] : k \in {n \in 1 .. i - 1 : g[n].kind = "AgentStopped"}}
  <2>1. \A k \in 1 .. i : g[k] = g[i] <=> k = i
    BY <1>1, <1>2
  <2>2. \A k \in 1 .. i - 1 : k \in 1 .. i /\ k # i
    OBVIOUS
  <2>3. \A k \in 1 .. i : k # i => k \in 1 .. i - 1
    OBVIOUS
  <2> HIDE DEF past
  <2> QED
    BY <1>3, <2>1, <2>2, <2>3
<1>5. since = {g[k] : k \in K}
  <2>1. 1 .. i - 1 \subseteq 1 .. i
    OBVIOUS
  <2> HIDE DEF past, stops
  <2>2. ASSUME NEW k \in 1 .. i
        PROVE  k \in K <=> \A q \in stops : q.at < g[k].at
    BY <1>1, <1>2, <1>4, <2>1, SMTT(30) DEF Since
  <2> HIDE DEF K
  <2>3. K \subseteq 1 .. i
    BY DEF K, Since
  <2> QED
    BY <1>3, <2>2, <2>3
<1>6. K \subseteq 1 .. i /\ N \subseteq K /\ O \subseteq K
  BY DEF Since
<1> HIDE DEF past, stops, K
<1>7. named = {g[k] : k \in N} /\ opened = {g[k] : k \in O}
  <2> HIDE DEF since
  <2>1. named = {g[k] : k \in N}
    BY <1>5 DEF Names
  <2>2. opened = {g[k] : k \in O}
    BY <1>5
  <2> QED
    BY <2>1, <2>2
<1> HIDE DEF N, O
<1>8. Characterised(g, i, TurnOf(g)[i])
  BY TurnOfCharacterised
<1>9. ReferenceTurn(Held(g), o) =
        IF named # {} THEN NameOf(Latest(named))
        ELSE IF opened # {} THEN Derived(Earliest(opened)) ELSE NoTurn
  BY DEF ReferenceTurn, NameOf, since, past, stops
<1> HIDE DEF since, named, opened, o
<1>10. CASE N # {}
  <2>1. N \in SUBSET (0 .. i)
    <3>1. 1 .. i \subseteq 0 .. i
      OBVIOUS
    <3> QED
      BY <1>6, <3>1
  <2>2. PICK x \in N : \A y \in N : y <= x
    BY <2>1, <1>10, <1>1, NonEmptyMax
  <2>3. x \in K /\ TurnOf(g)[i] = NameOf(g[x])
    BY <2>2, <1>6, <1>8 DEF Characterised, K, N
  <2>4. g[x] \in named /\ \A p \in named : p.at <= g[x].at
    BY <2>2, <1>7, <1>6, <1>1, <1>2
  <2>5. \A p \in named : (\A q \in named : q.at <= p.at) => p = g[x]
    BY <2>2, <2>4, <1>7, <1>6, <1>1, <1>2
  <2>6. Latest(named) = g[x]
    BY <2>4, <2>5 DEF Latest
  <2> QED
    BY <2>3, <2>4, <2>6, <1>9 DEF o
<1>11. CASE N = {} /\ O # {}
  <2>1. O \in SUBSET Nat
    BY <1>6
  <2>2. PICK x \in O : \A y \in O : x <= y
    BY <2>1, <1>11, NonEmptyMin
  <2>3. x \in K /\ TurnOf(g)[i] = Derived(g[x])
    BY <2>2, <1>6, <1>11, <1>8 DEF Characterised, K, N, O
  <2>4. g[x] \in opened /\ \A p \in opened : g[x].at <= p.at
    BY <2>2, <1>7, <1>6, <1>1, <1>2
  <2>5. \A p \in opened : (\A q \in opened : p.at <= q.at) => p = g[x]
    BY <2>2, <2>4, <1>7, <1>6, <1>1, <1>2
  <2>6. Earliest(opened) = g[x]
    BY <2>4, <2>5 DEF Earliest
  <2> QED
    BY <2>3, <2>4, <2>6, <1>7, <1>9, <1>11 DEF o
<1>12. CASE N = {} /\ O = {}
  <2>1. TurnOf(g)[i] = NoTurn
    BY <1>12, <1>8 DEF Characterised, K, N, O
  <2> QED
    BY <2>1, <1>7, <1>9, <1>12 DEF o
<1> QED
  BY <1>10, <1>11, <1>12

LEMMA GroupedReference ==
    ASSUME NEW s, Sound(s)
    PROVE  LET g == Grouped(s) IN
           /\ Held(g) = Held(s)
           /\ DOMAIN TurnOf(g) = DOMAIN g
           /\ \A i \in DOMAIN g : TurnOf(g)[i] = ReferenceTurn(Held(s), g[i])
<1> DEFINE g == Grouped(s)
<1>1. /\ DOMAIN g = 1 .. Len(s) /\ Len(g) = Len(s)
      /\ {g[n] : n \in DOMAIN g} = {s[j] : j \in DOMAIN s}
      /\ \A m, n \in DOMAIN g : m < n => g[m].at < g[n].at
  BY GroupedSorts
<1>2. \A n \in DOMAIN g : \E j \in DOMAIN s : g[n] = s[j]
  BY <1>1
<1>3. Len(g) \in Nat /\ DOMAIN g = 1 .. Len(g) /\ \A n \in DOMAIN g : g[n].at \in Nat
  BY <1>1, <1>2 DEF Sound
<1>4. Held(g) = Held(s)
  BY <1>1 DEF Held
<1> HIDE DEF g
<1>5. DOMAIN TurnOf(g) = DOMAIN g
  BY <1>3, TurnOfUnfolds
<1>6. \A i \in DOMAIN g : TurnOf(g)[i] = ReferenceTurn(Held(g), g[i])
  BY <1>1, <1>3, TurnOfReference
<1> QED
  BY <1>4, <1>5, <1>6 DEF g

\* project_observations, without the order.
LEMMA TurnsReference ==
    ASSUME NEW s, Sound(s)
    PROVE  Turns(s) =
             {Turn(id, {o \in Held(s) : ReferenceTurn(Held(s), o) = id}) :
                id \in {ReferenceTurn(Held(s), o) : o \in Held(s)} \ {NoTurn}}
<1> DEFINE g == Grouped(s)
           of == TurnOf(g)
           R(o) == ReferenceTurn(Held(s), o)
<1>1. Held(g) = Held(s) /\ DOMAIN of = DOMAIN g /\ \A i \in DOMAIN g : of[i] = R(g[i])
  BY GroupedReference
<1>2. Turns(s) = {Turn(id, {g[i] : i \in {j \in DOMAIN g : of[j] = id}}) :
                    id \in {of[i] : i \in DOMAIN g} \ {NoTurn}}
  BY DEF Turns
<1> HIDE DEF g, of, R
<1>3. ASSUME NEW id PROVE {g[i] : i \in {j \in DOMAIN g : of[j] = id}} = {o \in Held(s) : R(o) = id}
  BY <1>1 DEF Held
<1>4. {of[i] : i \in DOMAIN g} = {R(o) : o \in Held(s)}
  BY <1>1 DEF Held
<1>5. Turns(s) = {Turn(id, {o \in Held(s) : R(o) = id}) : id \in {R(o) : o \in Held(s)} \ {NoTurn}}
  <2> DEFINE A(id) == {g[i] : i \in {j \in DOMAIN g : of[j] = id}}
             B(id) == {o \in Held(s) : R(o) = id}
             I == {of[i] : i \in DOMAIN g} \ {NoTurn}
  <2>1. \A id : A(id) = B(id)
    BY <1>3
  <2>2. Turns(s) = {Turn(id, A(id)) : id \in I}
    BY <1>2
  <2>3. I = {R(o) : o \in Held(s)} \ {NoTurn}
    BY <1>4
  <2> HIDE DEF A, B, I
  <2>4. Turns(s) = {Turn(id, B(id)) : id \in I}
    BY <2>1, <2>2
  <2> QED
    BY <2>3, <2>4 DEF B
<1> QED
  BY <1>5 DEF R

-----------------------------------------------------------------------------

\* The events of an agent.
Starts == {"PreToolUse", "SubagentStart"}
Ends == {"PostToolUse", "PostToolUseFailure", "SubagentStop"}
EventNames == Starts \cup Ends \cup {"SessionStart", "UserPromptSubmit", "Stop"}
StartOf(event) == IF event = "SubagentStop" THEN "SubagentStart" ELSE "PreToolUse"

\* Codex names its turns.
Named ==
    \A i \in DOMAIN events :
      events[i].turn = IF adapter = "codex" /\ events[i].event # "SessionStart" THEN events[i].of ELSE 0

\* A prompt opens a turn and a Stop closes it, but that a session may start again.
TurnsInOrder ==
    /\ \A i \in DOMAIN events :
         events[i].of <= agent.turn /\ (events[i].event # "SessionStart" => events[i].of >= 1)
    /\ \A i, j \in DOMAIN events : i < j => events[i].of <= events[j].of
    /\ \A i, j \in DOMAIN events :
         events[j].event = "UserPromptSubmit" /\ i < j => events[i].of < events[j].of
    /\ \A i, j \in DOMAIN events :
         events[i].event = "Stop" /\ i < j /\ events[j].of = events[i].of => events[j].event = "SessionStart"
    /\ agent.busy =>
         agent.turn >= 1 /\ \A i \in DOMAIN events : events[i].event = "Stop" => events[i].of < agent.turn

\* A call is known by the place of its start; it ends once, and a tool in its turn.
CallsPaired ==
    /\ \A i \in DOMAIN events :
         /\ events[i].event \in Starts => events[i].call = i
         /\ events[i].event \notin Starts \cup Ends => events[i].call = 0
         /\ events[i].event # "Stop" => events[i].text = 0
         /\ events[i].event \in Ends =>
              /\ events[i].call \in 1 .. i - 1
              /\ events[events[i].call].event = StartOf(events[i].event)
              /\ events[i].event # "SubagentStop" => events[events[i].call].of = events[i].of
    /\ \A i, j \in DOMAIN events :
         events[i].event \in Ends /\ events[j].event \in Ends /\ events[i].call = events[j].call => i = j
    /\ \A c \in agent.running :
         /\ c[2] \in DOMAIN events /\ events[c[2]].event = c[1] /\ events[c[2]].of = c[3]
         /\ \A j \in DOMAIN events : events[j].event \in Ends => events[j].call # c[2]

\* The store has one observation of each id, and that of every event that was delivered.
StoreFaithful ==
    /\ \A j \in DOMAIN stored :
         /\ stored[j].at \in DOMAIN events \ transit
         /\ stored[j] = Observe(events[stored[j].at], stored[j].at)
    /\ \A j, k \in DOMAIN stored : stored[j].id = stored[k].id => j = k
    /\ \A i \in DOMAIN events \ transit : \E j \in DOMAIN stored : stored[j].id = ObservationId(events[i])

\* The types.
Agent == [turn : Nat, busy : BOOLEAN, running : SUBSET (Starts \X Nat \X Nat)]
Input == [event : EventNames, call : Nat, text : Nat, of : Nat, turn : Nat]
Id == [event : EventNames, turn : Nat, call : Nat, text : Nat]
Observation == [id : Id, event : EventNames, kind : {EventKind(e) : e \in EventNames}, turn : Nat,
                call : Nat, at : Nat]

TypeOK ==
    /\ adapter \in Adapters
    /\ agent \in Agent
    /\ events \in Seq(Input)
    /\ transit \in SUBSET DOMAIN events
    /\ stored \in Seq(Observation)

LEMMA Kinds ==
    /\ EventKind("SessionStart") = "Other"
    /\ EventKind("UserPromptSubmit") = "PromptSubmitted"
    /\ EventKind("PreToolUse") = "ToolStarted"
    /\ EventKind("PostToolUse") = "ToolCompleted"
    /\ EventKind("PostToolUseFailure") = "ToolCompleted"
    /\ EventKind("SubagentStart") = "SubagentStarted"
    /\ EventKind("SubagentStop") = "SubagentStopped"
    /\ EventKind("Stop") = "AgentStopped"
  BY DEF EventKind

\* The inductive invariant.
Inv == TypeOK /\ Named /\ TurnsInOrder /\ CallsPaired /\ StoreFaithful

LEMMA InitInv == ASSUME Init PROVE Inv
<1>1. TypeOK
  BY DEF Init, TypeOK, Agent
<1>2. DOMAIN events = {} /\ DOMAIN stored = {} /\ ~agent.busy /\ agent.running = {}
  BY DEF Init
<1> QED
  BY <1>1, <1>2 DEF Inv, Named, TurnsInOrder, CallsPaired, StoreFaithful

\* What an event of the agent adds.
LEMMA RunsEvent ==
    ASSUME TypeOK, NEW e \in EventNames, NEW c \in Nat, NEW t \in Nat, agent' \in Agent, Runs(e, c, t)
    PROVE  LET n == Len(events) + 1 IN
           /\ TypeOK'
           /\ n \in Nat /\ DOMAIN events' = 1 .. n /\ DOMAIN events = 1 .. n - 1
           /\ \A i \in DOMAIN events : i \in 1 .. n /\ i < n /\ events'[i] = events[i]
           /\ \A i \in 1 .. n : i # n => i \in DOMAIN events
           /\ events'[n].event = e /\ events'[n].call = c /\ events'[n].text = t
           /\ events'[n].of = agent'.turn
           /\ events'[n].turn = (IF adapter = "codex" /\ e # "SessionStart" THEN agent'.turn ELSE 0)
           /\ DOMAIN events' \ transit' = DOMAIN events \ transit
           /\ adapter' = adapter /\ stored' = stored
<1> DEFINE n == Len(events) + 1
           x == [event |-> e, call |-> c, text |-> t, of |-> agent'.turn,
                 turn |-> IF adapter = "codex" /\ e # "SessionStart" THEN agent'.turn ELSE 0]
<1>1. events' = Append(events, x) /\ transit' = transit \cup {Len(events')} /\ adapter' = adapter /\ stored' = stored
  BY DEF Runs
<1>2. x \in Input
  BY DEF Input, Agent
<1>3. events \in Seq(Input) /\ transit \in SUBSET DOMAIN events /\ Len(events) \in Nat
      /\ DOMAIN events = 1 .. Len(events)
  BY DEF TypeOK
<1> HIDE DEF x
<1>4. /\ events' \in Seq(Input) /\ Len(events') = n /\ DOMAIN events' = 1 .. n
      /\ \A i \in DOMAIN events : events'[i] = events[i]
      /\ events'[n] = x
  BY <1>1, <1>2, <1>3
<1>5. DOMAIN events = 1 .. n - 1 /\ 1 .. n = (1 .. n - 1) \cup {n} /\ n \notin DOMAIN events
  BY <1>3
<1>6. transit' = transit \cup {n}
  BY <1>1, <1>4
<1>7. TypeOK'
  BY <1>1, <1>3, <1>4, <1>5, <1>6 DEF TypeOK
<1>8. DOMAIN events' \ transit' = DOMAIN events \ transit
  BY <1>3, <1>4, <1>5, <1>6
<1>9. /\ n \in Nat /\ \A i \in DOMAIN events : i \in 1 .. n /\ i < n
      /\ \A i \in 1 .. n : i # n => i \in DOMAIN events
  BY <1>3
<1> QED
  BY <1>1, <1>4, <1>5, <1>7, <1>8, <1>9 DEF x

LEMMA RunsKeepsStore ==
    ASSUME Inv, NEW e \in EventNames, NEW c \in Nat, NEW t \in Nat, agent' \in Agent, Runs(e, c, t)
    PROVE  TypeOK' /\ Named' /\ StoreFaithful'
<1> DEFINE n == Len(events) + 1
<1>1. TypeOK
  BY DEF Inv
<1>2. /\ TypeOK'
      /\ n \in Nat /\ DOMAIN events' = 1 .. n /\ DOMAIN events = 1 .. n - 1
      /\ \A i \in DOMAIN events : i \in 1 .. n /\ i < n /\ events'[i] = events[i]
      /\ \A i \in 1 .. n : i # n => i \in DOMAIN events
      /\ events'[n].event = e /\ events'[n].call = c /\ events'[n].text = t
      /\ events'[n].of = agent'.turn
      /\ events'[n].turn = (IF adapter = "codex" /\ e # "SessionStart" THEN agent'.turn ELSE 0)
      /\ DOMAIN events' \ transit' = DOMAIN events \ transit
      /\ adapter' = adapter /\ stored' = stored
  BY <1>1, RunsEvent
<1> HIDE DEF n
<1>3. Named'
  BY <1>2 DEF Inv, Named
<1>4. StoreFaithful'
  BY <1>2 DEF Inv, StoreFaithful
<1> QED
  BY <1>2, <1>3, <1>4

\* The actions.
LEMMA SessionStartInv == ASSUME Inv, SessionStart PROVE Inv'
<1> DEFINE n == Len(events) + 1
<1>1. TypeOK /\ agent' = agent /\ agent' \in Agent /\ ~agent.busy /\ agent.turn \in Nat
  BY DEF Inv, TypeOK, Agent, SessionStart
<1>2. Runs("SessionStart", 0, 0) /\ "SessionStart" \in EventNames
  BY DEF SessionStart, EventNames
<1>3. TypeOK' /\ Named' /\ StoreFaithful'
  BY <1>1, <1>2, RunsKeepsStore
<1>4. /\ n \in Nat /\ DOMAIN events' = 1 .. n /\ DOMAIN events = 1 .. n - 1
      /\ \A i \in DOMAIN events : i \in 1 .. n /\ i < n /\ events'[i] = events[i]
      /\ \A i \in 1 .. n : i # n => i \in DOMAIN events
      /\ events'[n].event = "SessionStart" /\ events'[n].call = 0 /\ events'[n].text = 0
      /\ events'[n].of = agent.turn
  BY <1>1, <1>2, RunsEvent
<1> HIDE DEF n
<1>5. TurnsInOrder'
  BY <1>1, <1>4 DEF Inv, TurnsInOrder
<1>6. CallsPaired'
  BY <1>1, <1>4, SMTT(30) DEF Inv, CallsPaired, Starts, Ends
<1> QED
  BY <1>3, <1>5, <1>6 DEF Inv

LEMMA PromptInv == ASSUME Inv, Prompt PROVE Inv'
<1> DEFINE n == Len(events) + 1
<1>1. TypeOK /\ ~agent.busy /\ agent.turn \in Nat /\ agent' \in Agent
      /\ agent'.turn = agent.turn + 1 /\ agent'.running = agent.running
  <2>1. TypeOK /\ agent \in Agent
    BY DEF Inv, TypeOK
  <2>2. agent' = [agent EXCEPT !.turn = @ + 1, !.busy = TRUE] /\ ~agent.busy
    BY DEF Prompt
  <2>3. agent.turn \in Nat /\ agent.turn + 1 \in Nat
    BY <2>1 DEF Agent
  <2>4. agent'.turn = agent.turn + 1 /\ agent'.running = agent.running
    BY <2>1, <2>2 DEF Agent
  <2>5. agent' \in Agent
    BY <2>1, <2>2, <2>3 DEF Agent
  <2> QED
    BY <2>1, <2>2, <2>3, <2>4, <2>5
<1>2. Runs("UserPromptSubmit", 0, 0) /\ "UserPromptSubmit" \in EventNames
  BY DEF Prompt, EventNames
<1>3. TypeOK' /\ Named' /\ StoreFaithful'
  BY <1>1, <1>2, RunsKeepsStore
<1>4. /\ n \in Nat /\ DOMAIN events' = 1 .. n /\ DOMAIN events = 1 .. n - 1
      /\ \A i \in DOMAIN events : i \in 1 .. n /\ i < n /\ events'[i] = events[i]
      /\ \A i \in 1 .. n : i # n => i \in DOMAIN events
      /\ events'[n].event = "UserPromptSubmit" /\ events'[n].call = 0 /\ events'[n].text = 0
      /\ events'[n].of = agent.turn + 1
  BY <1>1, <1>2, RunsEvent
<1> HIDE DEF n
<1>5. \A i \in DOMAIN events : events[i].of \in Nat
  <2>1. events \in Seq(Input)
    BY <1>1 DEF TypeOK
  <2>2. \A i \in DOMAIN events : events[i] \in Input
    BY <2>1
  <2> QED
    BY <2>2 DEF Input
<1>6. TurnsInOrder'
  <2>1. TurnsInOrder
    BY DEF Inv
  <2>2. \A i \in DOMAIN events : events[i].of < agent.turn + 1
    BY <2>1, <1>1, <1>5 DEF TurnsInOrder
  <2> QED
    BY <2>1, <2>2, <1>1, <1>4, <1>5, SMTT(30) DEF TurnsInOrder
<1>7. CallsPaired'
  <2>1. CallsPaired
    BY DEF Inv
  <2>2. agent'.running = agent.running
    BY <1>1
  <2> QED
    BY <2>1, <2>2, <1>4 DEF CallsPaired, Starts, Ends
<1> QED
  BY <1>3, <1>6, <1>7 DEF Inv

LEMMA CallStartsInv == ASSUME Inv, NEW event \in Starts, CallStarts(event) PROVE Inv'
<1> DEFINE n == Len(events) + 1
<1>1. TypeOK /\ agent.busy /\ agent.turn \in Nat /\ n \in Nat
  BY DEF Inv, TypeOK, Agent, CallStarts
<1>2. /\ agent' \in Agent /\ agent'.turn = agent.turn /\ agent'.busy = agent.busy
      /\ agent'.running = agent.running \cup {<<event, n, agent.turn>>}
  <2>1. agent' = [agent EXCEPT !.running = @ \cup {<<event, n, agent.turn>>}]
    BY DEF CallStarts
  <2>2. <<event, n, agent.turn>> \in Starts \X Nat \X Nat
    BY <1>1
  <2>3. agent \in Agent
    BY <1>1 DEF TypeOK
  <2> HIDE DEF n
  <2>4. agent.running \in SUBSET (Starts \X Nat \X Nat)
    BY <2>3 DEF Agent
  <2> QED
    BY <2>1, <2>2, <2>3, <2>4 DEF Agent
<1>3. Runs(event, n, 0) /\ event \in EventNames
  BY DEF CallStarts, EventNames
<1>4. TypeOK' /\ Named' /\ StoreFaithful'
  BY <1>1, <1>2, <1>3, RunsKeepsStore
<1>5. /\ n \in Nat /\ DOMAIN events' = 1 .. n /\ DOMAIN events = 1 .. n - 1
      /\ \A i \in DOMAIN events : i \in 1 .. n /\ i < n /\ events'[i] = events[i]
      /\ \A i \in 1 .. n : i # n => i \in DOMAIN events
      /\ events'[n].event = event /\ events'[n].call = n /\ events'[n].text = 0
      /\ events'[n].of = agent.turn
  BY <1>1, <1>2, <1>3, RunsEvent
<1> HIDE DEF n
<1>6. TurnsInOrder'
  BY <1>1, <1>2, <1>5 DEF Inv, TurnsInOrder, Starts
<1>7. CallsPaired'
  <2>1. event \notin Ends /\ event # "Stop" /\ n \in DOMAIN events'
    BY <1>5 DEF Starts, Ends, n
  <2>2. ASSUME NEW c \in agent'.running
        PROVE  /\ c[2] \in DOMAIN events' /\ events'[c[2]].event = c[1] /\ events'[c[2]].of = c[3]
               /\ \A j \in DOMAIN events' : events'[j].event \in Ends => events'[j].call # c[2]
    <3>1. CASE c \in agent.running
      BY <3>1, <2>1, <1>5 DEF Inv, CallsPaired
    <3>2. CASE c = <<event, n, agent.turn>>
      <4>1. c[1] = event /\ c[2] = n /\ c[3] = agent.turn
        BY <3>2
      <4> QED
        BY <4>1, <2>1, <1>5 DEF Inv, CallsPaired
    <3> QED
      BY <3>1, <3>2, <1>2
  <2>3. \A i \in DOMAIN events' :
         /\ events'[i].event \in Starts => events'[i].call = i
         /\ events'[i].event \notin Starts \cup Ends => events'[i].call = 0
         /\ events'[i].event # "Stop" => events'[i].text = 0
         /\ events'[i].event \in Ends =>
              /\ events'[i].call \in 1 .. i - 1
              /\ events'[events'[i].call].event = StartOf(events'[i].event)
              /\ events'[i].event # "SubagentStop" => events'[events'[i].call].of = events'[i].of
    BY <2>1, <1>5 DEF Inv, CallsPaired
  <2>4. \A i, j \in DOMAIN events' :
         events'[i].event \in Ends /\ events'[j].event \in Ends /\ events'[i].call = events'[j].call => i = j
    BY <2>1, <1>5 DEF Inv, CallsPaired
  <2> QED
    BY <2>2, <2>3, <2>4 DEF CallsPaired
<1> QED
  BY <1>4, <1>6, <1>7 DEF Inv

LEMMA CallEndsInv ==
    ASSUME Inv, NEW event \in Ends, NEW call \in agent.running, CallEnds(event, call)
    PROVE  Inv'
<1> DEFINE n == Len(events) + 1
<1>1. TypeOK /\ agent.busy /\ agent.turn \in Nat /\ call \in Starts \X Nat \X Nat /\ call[2] \in Nat
  BY DEF Inv, TypeOK, Agent, CallEnds
<1>2. /\ agent' \in Agent /\ agent'.turn = agent.turn /\ agent'.busy = agent.busy
      /\ agent'.running = agent.running \ {call}
  BY <1>1 DEF CallEnds, TypeOK, Agent
<1>3. Runs(event, call[2], 0) /\ event \in EventNames
  BY DEF CallEnds, EventNames
<1>4. TypeOK' /\ Named' /\ StoreFaithful'
  BY <1>1, <1>2, <1>3, RunsKeepsStore
<1>5. /\ n \in Nat /\ DOMAIN events' = 1 .. n /\ DOMAIN events = 1 .. n - 1
      /\ \A i \in DOMAIN events : i \in 1 .. n /\ i < n /\ events'[i] = events[i]
      /\ \A i \in 1 .. n : i # n => i \in DOMAIN events
      /\ events'[n].event = event /\ events'[n].call = call[2] /\ events'[n].text = 0
      /\ events'[n].of = agent.turn
  BY <1>1, <1>2, <1>3, RunsEvent
<1>6. /\ call[2] \in DOMAIN events /\ events[call[2]].event = call[1] /\ events[call[2]].of = call[3]
      /\ \A j \in DOMAIN events : events[j].event \in Ends => events[j].call # call[2]
  BY DEF Inv, CallsPaired
<1>7. call[1] = StartOf(event) /\ (event # "SubagentStop" => call[3] = agent.turn)
  BY DEF CallEnds, StartOf
<1> HIDE DEF n
<1>8. TurnsInOrder'
  BY <1>1, <1>2, <1>5, SMTT(30) DEF Inv, TurnsInOrder, Ends
<1>9. CallsPaired'
  <2>1. event \notin Starts /\ event # "Stop"
    BY DEF Starts, Ends
  <2>2. ASSUME NEW c \in agent'.running
        PROVE  /\ c[2] \in DOMAIN events' /\ events'[c[2]].event = c[1] /\ events'[c[2]].of = c[3]
               /\ \A j \in DOMAIN events' : events'[j].event \in Ends => events'[j].call # c[2]
    <3>1. /\ c \in agent.running /\ c # call
          /\ c[2] \in DOMAIN events /\ events[c[2]].event = c[1] /\ events[c[2]].of = c[3]
          /\ \A j \in DOMAIN events : events[j].event \in Ends => events[j].call # c[2]
      BY <1>2 DEF Inv, CallsPaired
    <3>2. c \in Starts \X Nat \X Nat
      BY <3>1, <1>1 DEF TypeOK, Agent
    <3>3. c[2] # call[2]
      BY <3>1, <3>2, <1>1, <1>6
    <3> QED
      BY <3>1, <3>3, <1>5
  <2>3. \A i \in DOMAIN events' :
         /\ events'[i].event \in Starts => events'[i].call = i
         /\ events'[i].event \notin Starts \cup Ends => events'[i].call = 0
         /\ events'[i].event # "Stop" => events'[i].text = 0
         /\ events'[i].event \in Ends =>
              /\ events'[i].call \in 1 .. i - 1
              /\ events'[events'[i].call].event = StartOf(events'[i].event)
              /\ events'[i].event # "SubagentStop" => events'[events'[i].call].of = events'[i].of
    <3> SUFFICES ASSUME NEW i \in DOMAIN events'
         PROVE
         /\ events'[i].event \in Starts => events'[i].call = i
         /\ events'[i].event \notin Starts \cup Ends => events'[i].call = 0
         /\ events'[i].event # "Stop" => events'[i].text = 0
         /\ events'[i].event \in Ends =>
              /\ events'[i].call \in 1 .. i - 1
              /\ events'[events'[i].call].event = StartOf(events'[i].event)
              /\ events'[i].event # "SubagentStop" => events'[events'[i].call].of = events'[i].of
      OBVIOUS
    <3>1. CASE i = n
      BY <3>1, <2>1, <1>5, <1>6, <1>7
    <3>2. CASE i # n
      BY <3>2, <1>5 DEF Inv, CallsPaired
    <3> QED
      BY <3>1, <3>2
  <2>4. \A i, j \in DOMAIN events' :
         events'[i].event \in Ends /\ events'[j].event \in Ends /\ events'[i].call = events'[j].call => i = j
    BY <1>5, <1>6 DEF Inv, CallsPaired
  <2> QED
    BY <2>2, <2>3, <2>4 DEF CallsPaired
<1> QED
  BY <1>4, <1>8, <1>9 DEF Inv

LEMMA StopInv == ASSUME Inv, NEW text \in Messages, Stop(text) PROVE Inv'
<1> DEFINE n == Len(events) + 1
<1>1. TypeOK /\ agent.busy /\ agent.turn \in Nat /\ text \in Nat
  BY CaptureAssumption DEF Inv, TypeOK, Agent, Stop
<1>2. /\ agent' \in Agent /\ agent'.turn = agent.turn /\ ~agent'.busy
      /\ agent'.running = agent.running
  BY <1>1 DEF Stop, TypeOK, Agent
<1>3. Runs("Stop", 0, text) /\ "Stop" \in EventNames
  BY DEF Stop, EventNames
<1>4. TypeOK' /\ Named' /\ StoreFaithful'
  BY <1>1, <1>2, <1>3, RunsKeepsStore
<1>5. /\ n \in Nat /\ DOMAIN events' = 1 .. n /\ DOMAIN events = 1 .. n - 1
      /\ \A i \in DOMAIN events : i \in 1 .. n /\ i < n /\ events'[i] = events[i]
      /\ \A i \in 1 .. n : i # n => i \in DOMAIN events
      /\ events'[n].event = "Stop" /\ events'[n].call = 0
      /\ events'[n].of = agent.turn
  BY <1>1, <1>2, <1>3, RunsEvent
<1> HIDE DEF n
<1>6. TurnsInOrder'
  BY <1>1, <1>2, <1>5 DEF Inv, TurnsInOrder
<1>7. CallsPaired'
  BY <1>1, <1>2, <1>5, SMTT(30) DEF Inv, CallsPaired, Starts, Ends
<1> QED
  BY <1>4, <1>6, <1>7 DEF Inv

LEMMA InterruptInv == ASSUME Inv, Interrupt PROVE Inv'
<1>1. TypeOK /\ agent \in Agent
  BY DEF Inv, TypeOK
<1>2. /\ agent' \in Agent /\ agent'.turn = agent.turn /\ ~agent'.busy
      /\ agent'.running = agent.running
      /\ UNCHANGED <<adapter, events, transit, stored>>
  BY <1>1 DEF Interrupt, Agent
<1> QED
  BY <1>2 DEF Inv, TypeOK, Named, TurnsInOrder, CallsPaired, StoreFaithful

LEMMA DeliverInv == ASSUME Inv, NEW i \in transit, Deliver(i) PROVE Inv'
<1> DEFINE o == Observe(events[i], i)
<1>1. TypeOK /\ i \in DOMAIN events /\ i \in Nat /\ events[i] \in Input
  BY DEF Inv, TypeOK
<1>2. o \in Observation /\ o.id = ObservationId(events[i]) /\ o.at = i
  <2>1. ObservationId(events[i]) \in Id
    BY <1>1 DEF ObservationId, Id, Input
  <2>2. events[i].event \in EventNames /\ events[i].turn \in Nat /\ events[i].call \in Nat
    BY <1>1 DEF Input
  <2>3. EventKind(events[i].event) \in {EventKind(e) : e \in EventNames}
    BY <2>2
  <2> QED
    BY <1>1, <2>1, <2>2, <2>3 DEF Observe, Observation
<1>3. /\ transit' = transit \ {i}
      /\ stored' = IF \E j \in DOMAIN stored : stored[j].id = o.id THEN stored ELSE Append(stored, o)
      /\ UNCHANGED <<adapter, agent, events>>
  BY DEF Deliver
<1>4. DOMAIN events' \ transit' = (DOMAIN events \ transit) \cup {i}
  BY <1>1, <1>3
<1> HIDE DEF o
<1>5. Named' /\ TurnsInOrder' /\ CallsPaired'
  BY <1>3 DEF Inv, Named, TurnsInOrder, CallsPaired
<1>6. CASE \E j \in DOMAIN stored : stored[j].id = o.id
  <2>1. stored' = stored
    BY <1>3, <1>6
  <2>2. TypeOK'
    BY <2>1, <1>1, <1>3 DEF TypeOK
  <2>3. StoreFaithful'
    BY <2>1, <1>2, <1>3, <1>4, <1>6 DEF Inv, StoreFaithful
  <2> QED
    BY <2>2, <2>3, <1>5 DEF Inv
<1>7. CASE ~ \E j \in DOMAIN stored : stored[j].id = o.id
  <2> DEFINE n == Len(stored) + 1
  <2>1. stored' = Append(stored, o) /\ stored \in Seq(Observation)
    BY <1>1, <1>3, <1>7 DEF TypeOK
  <2>2. /\ n \in Nat /\ stored' \in Seq(Observation) /\ DOMAIN stored' = 1 .. n
        /\ \A j \in DOMAIN stored : j \in 1 .. n /\ stored'[j] = stored[j]
        /\ \A j \in 1 .. n : j # n => j \in DOMAIN stored
        /\ stored'[n] = o
    BY <2>1, <1>2
  <2>3. TypeOK'
    BY <2>2, <1>1, <1>3 DEF TypeOK
  <2> HIDE DEF n
  <2>4. StoreFaithful'
    <3>1. n \in DOMAIN stored'
      <4>1. n \in 1 .. n
        BY <2>2 DEF n
      <4> QED
        BY <2>2, <4>1
    <3>2. \A j \in DOMAIN stored' :
         /\ stored'[j].at \in DOMAIN events' \ transit'
         /\ stored'[j] = Observe(events'[stored'[j].at], stored'[j].at)
      BY <2>2, <1>2, <1>3, <1>4 DEF Inv, StoreFaithful, o
    <3>3. \A j, k \in DOMAIN stored' : stored'[j].id = stored'[k].id => j = k
      BY <2>2, <1>7 DEF Inv, StoreFaithful
    <3>4. \A k \in DOMAIN events' \ transit' : \E j \in DOMAIN stored' : stored'[j].id = ObservationId(events'[k])
      BY <2>2, <3>1, <1>2, <1>3, <1>4 DEF Inv, StoreFaithful
    <3> QED
      BY <3>2, <3>3, <3>4 DEF StoreFaithful
  <2> QED
    BY <2>3, <2>4, <1>5 DEF Inv
<1> QED
  BY <1>6, <1>7

\* The input, the turns and the calls of an agent keep their order whatever runs at
\* once, and the store has exactly one observation of each id that was delivered.
THEOREM CaptureInvariant == Spec => []Inv
<1>1. Init => Inv
  BY InitInv
<1>2. Inv /\ [Next]_vars => Inv'
  <2> SUFFICES ASSUME Inv, [Next]_vars PROVE Inv'
    OBVIOUS
  <2>1. CASE SessionStart
    BY <2>1, SessionStartInv
  <2>2. CASE Prompt
    BY <2>2, PromptInv
  <2>3. ASSUME NEW event \in {"PreToolUse", "SubagentStart"}, CallStarts(event) PROVE Inv'
    BY <2>3, CallStartsInv DEF Starts
  <2>4. ASSUME NEW event \in {"PostToolUse", "SubagentStop"} \cup Failures, NEW call \in agent.running,
               CallEnds(event, call)
        PROVE  Inv'
    BY <2>4, CallEndsInv DEF Ends, Failures
  <2>5. ASSUME NEW text \in Messages, Stop(text) PROVE Inv'
    BY <2>5, StopInv
  <2>6. CASE Interrupt
    BY <2>6, InterruptInv
  <2>7. ASSUME NEW i \in transit, Deliver(i) PROVE Inv'
    BY <2>7, DeliverInv
  <2>8. CASE UNCHANGED vars
    BY <2>8 DEF vars, Inv, TypeOK, Named, TurnsInOrder, CallsPaired, StoreFaithful
  <2> QED
    BY <2>1, <2>2, <2>3, <2>4, <2>5, <2>6, <2>7, <2>8 DEF Next
<1> QED
  BY <1>1, <1>2, PTL DEF Spec

-----------------------------------------------------------------------------

\* What the invariant says of a set of observations.
Evidence(S) ==
    /\ \E m \in Nat : \A o \in S : o.at \in 0 .. m
    /\ \A o, p \in S : o.at = p.at => o = p
    /\ \A o \in S : /\ o.event \in EventNames /\ o.kind = EventKind(o.event)
                    /\ o.turn \in Nat /\ o.call \in Nat
                    /\ o.event \in Starts \cup Ends => o.call # 0
    /\ \A o, p \in S : o.call = p.call /\ o.event \in Starts /\ p.event \in Starts => o = p
    /\ \A o, p \in S : o.call = p.call /\ o.event \in Ends /\ p.event \in Ends => o = p

TurnNamed(S) == \A o \in S : o.turn = 0 <=> o.event = "SessionStart"

LEMMA StoredAt ==
    ASSUME Inv, NEW o \in Held(stored)
    PROVE  /\ o.at \in DOMAIN events \ transit /\ o.at \in 1 .. Len(events)
           /\ o = Observe(events[o.at], o.at)
           /\ o.id = ObservationId(events[o.at]) /\ o.event = events[o.at].event
           /\ o.kind = EventKind(o.event) /\ o.turn = events[o.at].turn /\ o.call = events[o.at].call
           /\ events[o.at] \in Input
<1>1. o.at \in DOMAIN events \ transit /\ o = Observe(events[o.at], o.at)
  BY DEF Inv, StoreFaithful, Held
<1>2. events \in Seq(Input)
  BY DEF Inv, TypeOK
<1> QED
  BY <1>1, <1>2 DEF Observe

LEMMA StoredSound == Inv => Sound(stored)
<1> SUFFICES ASSUME Inv PROVE Sound(stored)
  OBVIOUS
<1>1. Len(stored) \in Nat /\ DOMAIN stored = 1 .. Len(stored)
  BY DEF Inv, TypeOK
<1>2. ASSUME NEW j \in DOMAIN stored
      PROVE  stored[j].at \in Nat /\ stored[j] = Observe(events[stored[j].at], stored[j].at)
  BY StoredAt DEF Held
<1>3. \A j, k \in DOMAIN stored : stored[j].at = stored[k].at => j = k
  BY <1>2 DEF Inv, StoreFaithful
<1> QED
  BY <1>1, <1>2, <1>3 DEF Sound

LEMMA StoredEvidence == Inv => Evidence(Held(stored)) /\ (adapter = "codex" => TurnNamed(Held(stored)))
<1> SUFFICES ASSUME Inv PROVE Evidence(Held(stored)) /\ (adapter = "codex" => TurnNamed(Held(stored)))
  OBVIOUS
<1> DEFINE S == Held(stored)
<1>1. Len(events) \in Nat /\ DOMAIN events = 1 .. Len(events)
  BY DEF Inv, TypeOK
<1>2. \A o \in S : o.at \in DOMAIN events /\ o.at \in 0 .. Len(events)
  BY StoredAt, <1>1
<1>3. \A o, p \in S : o.at = p.at => o = p
  BY StoredAt
<1>4. \A o \in S : /\ o.event = events[o.at].event /\ o.call = events[o.at].call
                   /\ o.turn = events[o.at].turn /\ o.kind = EventKind(o.event)
  BY StoredAt
<1>5. \A o \in S : o.event \in EventNames /\ o.turn \in Nat /\ o.call \in Nat
  BY StoredAt, <1>4 DEF Input
<1>6. CallsPaired
  BY DEF Inv
<1> HIDE DEF S
<1>7. \A o \in S : o.event \in Starts \cup Ends => o.call # 0
  BY <1>1, <1>2, <1>4, <1>6 DEF CallsPaired
<1>8. \A o, p \in S : o.call = p.call /\ o.event \in Starts /\ p.event \in Starts => o = p
  BY <1>2, <1>3, <1>4, <1>6 DEF CallsPaired
<1>9. \A o, p \in S : o.call = p.call /\ o.event \in Ends /\ p.event \in Ends => o = p
  BY <1>2, <1>3, <1>4, <1>6 DEF CallsPaired
<1>10. Evidence(S)
  BY <1>1, <1>2, <1>3, <1>4, <1>5, <1>7, <1>8, <1>9 DEF Evidence
<1>11. adapter = "codex" => TurnNamed(S)
  <2>1. ASSUME adapter = "codex", NEW i \in DOMAIN events
        PROVE  events[i].turn = 0 <=> events[i].event = "SessionStart"
    <3>1. Named /\ TurnsInOrder
      BY DEF Inv
    <3>2. events[i].event # "SessionStart" => events[i].turn = events[i].of /\ events[i].of >= 1
      BY <2>1, <3>1 DEF Named, TurnsInOrder
    <3>3. events[i].event = "SessionStart" => events[i].turn = 0
      BY <3>1 DEF Named
    <3> QED
      BY <3>2, <3>3
  <2> QED
    BY <2>1, <1>2, <1>4 DEF TurnNamed
<1> QED
  BY <1>10, <1>11 DEF S

\* For any number of events, in whatever order the store has them, grouping gives each
\* observation the turn that its set of observations defines.
THEOREM TurnsByDefinition == Spec => []TurnsAsDefined
<1>1. Inv => TurnsAsDefined
  BY StoredSound, GroupedReference DEF TurnsAsDefined, Stored, Held
<1> QED
  BY <1>1, CaptureInvariant, PTL

\* An observation with the same id is the same event, or a prompt or Stop of Claude Code.
LEMMA KeptInv == Inv => DeliveredKept
<1> SUFFICES ASSUME Inv, NEW i \in DOMAIN events \ transit
             PROVE  \/ \E o \in Stored : o.at = i
                    \/ events[i].event = "SessionStart"
                    \/ /\ adapter = "claude" /\ events[i].event \in {"UserPromptSubmit", "Stop"}
                       /\ \E o \in Stored : o.event = events[i].event /\ events[o.at].text = events[i].text
  BY DEF DeliveredKept
<1>1. PICK j \in DOMAIN stored : stored[j].id = ObservationId(events[i])
  BY DEF Inv, StoreFaithful
<1> DEFINE o == stored[j]
           k == o.at
<1>2. o \in Stored /\ o \in Held(stored)
  BY DEF Stored, Held
<1>3. k \in DOMAIN events /\ o.event = events[k].event /\ ObservationId(events[k]) = ObservationId(events[i])
  BY <1>1, <1>2, StoredAt
<1>4. /\ events[k].event = events[i].event /\ events[k].turn = events[i].turn
      /\ events[k].call = events[i].call
      /\ events[i].event = "Stop" => events[k].text = events[i].text
  BY <1>3 DEF ObservationId
<1> HIDE DEF o, k
<1>5. events[i] \in Input /\ i \in DOMAIN events /\ DOMAIN events \subseteq Nat
  BY DEF Inv, TypeOK
<1>6. CallsPaired /\ TurnsInOrder /\ Named /\ adapter \in {"claude", "codex"}
  BY CaptureAssumption DEF Inv, TypeOK
<1>7. CASE events[i].event \in Starts \cup Ends
  <2>1. k = i
    BY <1>3, <1>4, <1>5, <1>6, <1>7 DEF CallsPaired
  <2> QED
    BY <2>1, <1>2 DEF k
<1>8. CASE events[i].event \in {"UserPromptSubmit", "Stop"} /\ adapter = "codex"
  <2>1. events[i].of = events[k].of
    BY <1>3, <1>4, <1>5, <1>6, <1>8 DEF Named
  <2>2. i \in Nat /\ k \in Nat /\ events[i].of \in Nat
    BY <1>3, <1>5 DEF Input
  <2>3. ASSUME events[i].event = "UserPromptSubmit" PROVE k = i
    BY <2>1, <2>2, <2>3, <1>3, <1>4, <1>5, <1>6 DEF TurnsInOrder
  <2>4. ASSUME events[i].event = "Stop" PROVE k = i
    BY <2>1, <2>2, <2>4, <1>3, <1>4, <1>5, <1>6 DEF TurnsInOrder
  <2>5. k = i
    BY <2>3, <2>4, <1>8
  <2> QED
    BY <2>5, <1>2 DEF k
<1>9. CASE events[i].event \in {"UserPromptSubmit", "Stop"} /\ adapter = "claude"
  <2>1. events[k].text = events[i].text
    BY <1>3, <1>4, <1>5, <1>6, <1>9 DEF CallsPaired
  <2>2. o.event = events[i].event /\ events[o.at].text = events[i].text
    BY <2>1, <1>3, <1>4 DEF k
  <2> QED
    BY <2>2, <1>2, <1>9
<1> QED
  BY <1>5, <1>6, <1>7, <1>8, <1>9 DEF Input, EventNames

\* Whatever order and loss there is, an observation that arrives is in the store, or
\* one of the same event that cannot be told from it.
THEOREM ArrivedIsKept == Spec => []DeliveredKept
  BY KeptInv, CaptureInvariant, PTL

\* The same of the next state.
LEMMA StoredFacts ==
    Inv => Sound(stored) /\ Evidence(Held(stored)) /\ (adapter = "codex" => TurnNamed(Held(stored)))
  BY StoredEvidence, StoredSound
LEMMA StoredFactsPrimed ==
   (Inv => Sound(stored) /\ Evidence(Held(stored)) /\ (adapter = "codex" => TurnNamed(Held(stored))))'
  BY StoredFacts, PTL
LEMMA StoredFactsNext == ASSUME Inv' PROVE Sound(stored') /\ Evidence(Held(stored')) /\ (adapter' = "codex" => TurnNamed(Held(stored')))
  BY StoredFactsPrimed

LEMMA LatestIs ==
    ASSUME NEW S, Evidence(S), NEW T \in SUBSET S, T # {}
    PROVE  Latest(T) \in T /\ \A p \in T : p.at <= Latest(T).at
<1>1. PICK m \in Nat : \A o \in S : o.at \in 0 .. m
  BY DEF Evidence
<1> DEFINE A == {o.at : o \in T}
<1>2. A \in SUBSET (0 .. m) /\ A # {}
  BY <1>1
<1>3. PICK x \in A : \A y \in A : y <= x
  BY <1>2, NonEmptyMax
<1>4. PICK o \in T : o.at = x
  BY <1>3
<1>5. \A p \in T : p.at <= o.at
  BY <1>3, <1>4
<1> QED
  BY <1>5 DEF Latest

LEMMA EarliestIs ==
    ASSUME NEW S, Evidence(S), NEW T \in SUBSET S, T # {}
    PROVE  Earliest(T) \in T /\ \A p \in T : Earliest(T).at <= p.at
<1>1. PICK m \in Nat : \A o \in S : o.at \in 0 .. m
  BY DEF Evidence
<1> DEFINE A == {o.at : o \in T}
<1>2. A \in SUBSET Nat /\ A # {}
  BY <1>1
<1>3. PICK x \in A : \A y \in A : x <= y
  BY <1>2, NonEmptyMin
<1>4. PICK o \in T : o.at = x
  BY <1>3
<1>5. \A p \in T : o.at <= p.at
  BY <1>3, <1>4
<1> QED
  BY <1>5 DEF Earliest

\* The parts of ReferenceTurn.
Past(S, o) == {p \in S : p.at <= o.at}
Stops(S, o) == {p \in Past(S, o) \ {o} : p.kind = "AgentStopped"}
Recent(S, o) == {p \in Past(S, o) : \A q \in Stops(S, o) : q.at < p.at}
NamedBy(S, o) == {p \in Recent(S, o) : Names(p)}
OpenedBy(S, o) == {p \in Recent(S, o) : Opens(p)}

LEMMA ReferenceIs ==
    ASSUME NEW S, NEW o
    PROVE  ReferenceTurn(S, o) = IF NamedBy(S, o) # {} THEN NameOf(Latest(NamedBy(S, o)))
                                 ELSE IF OpenedBy(S, o) # {} THEN Derived(Earliest(OpenedBy(S, o)))
                                 ELSE NoTurn
  BY DEF ReferenceTurn, NamedBy, OpenedBy, Recent, Stops, Past, Names, NameOf

LEMMA RecentSelf ==
    ASSUME NEW S, Evidence(S), NEW o \in S
    PROVE  o \in Recent(S, o) /\ Recent(S, o) \subseteq S /\ \A p \in Recent(S, o) : p.at <= o.at
<1>1. \A p \in S : p.at \in Nat /\ o.at \in Nat /\ (p.at = o.at => p = o)
  BY DEF Evidence
<1> QED
  BY <1>1 DEF Recent, Stops, Past

LEMMA WorkHasTurn ==
    ASSUME NEW S, Evidence(S), NEW o \in S, Opens(o)
    PROVE  ReferenceTurn(S, o) # NoTurn
<1>1. o \in OpenedBy(S, o)
  BY RecentSelf DEF OpenedBy
<1> QED
  BY <1>1, ReferenceIs, NameIsATurn

\* An observation that names its turn is in it.
LEMMA CodexTurn ==
    ASSUME NEW S, Evidence(S), NEW o \in S, o.turn # 0
    PROVE  ReferenceTurn(S, o) = Explicit(o.turn)
<1> DEFINE N == NamedBy(S, o)
<1>1. o \in N /\ N \in SUBSET S /\ \A p \in N : p.at <= o.at
  BY RecentSelf DEF NamedBy, Names
<1>2. Latest(N) \in N /\ o.at <= Latest(N).at
  BY <1>1, LatestIs
<1>3. Latest(N).at = o.at /\ Latest(N) \in S
  BY <1>1, <1>2 DEF Evidence
<1>4. Latest(N) = o
  BY <1>3 DEF Evidence
<1> QED
  BY <1>1, <1>4, ReferenceIs DEF NameOf

LEMMA KindOf ==
    ASSUME NEW S, Evidence(S), NEW o \in S
    PROVE  /\ o.kind = "PromptSubmitted" <=> o.event = "UserPromptSubmit"
           /\ o.kind = "ToolStarted" <=> o.event = "PreToolUse"
           /\ o.kind = "ToolCompleted" <=> o.event \in {"PostToolUse", "PostToolUseFailure"}
           /\ o.kind = "SubagentStarted" <=> o.event = "SubagentStart"
           /\ o.kind = "SubagentStopped" <=> o.event = "SubagentStop"
           /\ o.kind = "AgentStopped" <=> o.event = "Stop"
           /\ Opens(o) <=> o.event \in Starts \cup Ends \cup {"Stop"}
<1>1. o.event \in EventNames /\ o.kind = EventKind(o.event)
  BY DEF Evidence
<1>2. o.event \in {"SessionStart", "UserPromptSubmit", "PreToolUse", "PostToolUse", "PostToolUseFailure",
                   "SubagentStart", "SubagentStop", "Stop"}
  BY <1>1 DEF EventNames, Starts, Ends
<1>3. /\ o.event = "SessionStart" => o.kind = "Other"
      /\ o.event = "UserPromptSubmit" => o.kind = "PromptSubmitted"
      /\ o.event = "PreToolUse" => o.kind = "ToolStarted"
      /\ o.event = "PostToolUse" => o.kind = "ToolCompleted"
      /\ o.event = "PostToolUseFailure" => o.kind = "ToolCompleted"
      /\ o.event = "SubagentStart" => o.kind = "SubagentStarted"
      /\ o.event = "SubagentStop" => o.kind = "SubagentStopped"
      /\ o.event = "Stop" => o.kind = "AgentStopped"
  BY <1>1, Kinds
<1> QED
  BY <1>2, <1>3 DEF Opens, Starts, Ends

\* A start of the session of Codex joins a turn that another observation names.
LEMMA CodexOther ==
    ASSUME NEW S, Evidence(S), TurnNamed(S), NEW o \in S, ReferenceTurn(S, o) # NoTurn
    PROVE  \E p \in S : p.turn # 0 /\ ReferenceTurn(S, o) = Explicit(p.turn)
<1> DEFINE N == NamedBy(S, o)
<1>1. N \in SUBSET S /\ \A p \in N : Names(p)
  BY RecentSelf DEF NamedBy
<1>2. \A p \in S : Names(p) \/ Opens(p) => p.turn # 0
  BY KindOf DEF TurnNamed, Names, Starts, Ends
<1>3. N # {}
  <2>1. OpenedBy(S, o) \subseteq N
    BY <1>2, RecentSelf DEF OpenedBy, NamedBy, Names
  <2> QED
    BY <2>1, ReferenceIs
<1>4. Latest(N) \in N
  BY <1>1, <1>3, LatestIs
<1>5. Latest(N) \in S /\ Latest(N).turn # 0
  BY <1>1, <1>2, <1>4
<1> QED
  BY <1>3, <1>5, ReferenceIs DEF NameOf

\* The observations of a turn.
Members(S, id) == {o \in S : ReferenceTurn(S, o) = id}

LEMMA TurnsAre ==
    ASSUME NEW s, Sound(s)
    PROVE  Turns(s) = {Turn(id, Members(Held(s), id)) :
                         id \in {ReferenceTurn(Held(s), o) : o \in Held(s)} \ {NoTurn}}
  BY TurnsReference DEF Members

\* The turns of Codex are those its observations name.
LEMMA CodexTurns ==
    ASSUME NEW s, Sound(s), Evidence(Held(s)), TurnNamed(Held(s))
    PROVE  /\ \A t \in Turns(s) : \E o \in Held(s) :
                o.turn # 0 /\ t = Turn(Explicit(o.turn), Members(Held(s), Explicit(o.turn)))
           /\ \A o \in Held(s) :
                o.turn # 0 => Turn(Explicit(o.turn), Members(Held(s), Explicit(o.turn))) \in Turns(s)
<1> DEFINE S == Held(s)
           T(id) == Turn(id, Members(S, id))
<1>1. Turns(s) = {T(id) : id \in {ReferenceTurn(S, o) : o \in S} \ {NoTurn}}
  BY TurnsAre
<1>2. \A o \in S : o.turn # 0 => ReferenceTurn(S, o) = Explicit(o.turn)
  BY CodexTurn
<1>3. \A o \in S : ReferenceTurn(S, o) # NoTurn =>
         \E p \in S : p.turn # 0 /\ ReferenceTurn(S, o) = Explicit(p.turn)
  BY CodexOther
<1>4. \A n : Explicit(n) # NoTurn
  BY DEF Explicit, NoTurn
<1> HIDE DEF T, S
<1>5. \A t \in Turns(s) : \E o \in S : o.turn # 0 /\ t = T(Explicit(o.turn))
  BY <1>1, <1>3
<1>6. \A o \in S : o.turn # 0 => T(Explicit(o.turn)) \in Turns(s)
  BY <1>1, <1>2, <1>4
<1> QED
  BY <1>5, <1>6 DEF T, S

\* The turn of an observation of Codex is the one it names.
LEMMA CodexMembers ==
    ASSUME NEW S, Evidence(S), NEW o \in S, o.turn # 0, NEW n \in Nat
    PROVE  o \in Members(S, Explicit(n)) <=> o.turn = n
  BY CodexTurn DEF Members, Explicit

\* The evidence of one tool call.
ToolKinds == {"ToolStarted", "ToolCompleted"}
Called(M, inv) == {o \in {p \in M : p.kind \in ToolKinds} : Invocation(o) = inv}

LEMMA ToolsOf ==
    ASSUME NEW id, NEW M, NEW t, t = Turn(id, M)
    PROVE  /\ t.id = id
           /\ t.completed <=> \E o \in M : o.kind = "AgentStopped"
           /\ \A inv : inv \in DOMAIN t.tools <=> Called(M, inv) # {}
           /\ \A inv \in DOMAIN t.tools : t.tools[inv] = Span(Called(M, inv), "ToolStarted", "ToolCompleted")
<1>1. /\ t.id = id /\ t.completed = \E o \in M : o.kind = "AgentStopped"
      /\ t.tools = Spans(M, "ToolStarted", "ToolCompleted")
  BY DEF Turn
<1>2. Spans(M, "ToolStarted", "ToolCompleted") =
        [inv \in {Invocation(o) : o \in {p \in M : p.kind \in ToolKinds}} |->
           Span(Called(M, inv), "ToolStarted", "ToolCompleted")]
  BY DEF Spans, Called, ToolKinds
<1>3. \A inv : inv \in {Invocation(o) : o \in {p \in M : p.kind \in ToolKinds}} <=> Called(M, inv) # {}
  BY DEF Called
<1> QED
  BY <1>1, <1>2, <1>3

LEMMA SpanStatus ==
    ASSUME NEW E, NEW a, NEW b
    PROVE  /\ Span(E, a, b) \in {"incomplete", "ok", "error"}
           /\ Span(E, a, b) = "incomplete" <=> {o \in E : o.kind = a} = {} \/ {o \in E : o.kind = b} = {}
  BY DEF Span

\* A span that was complete stays what it was.
LEMMA SpanGrows ==
    ASSUME NEW S, Evidence(S), NEW E \in SUBSET S, NEW F \in SUBSET E,
           \A o, p \in E : o.kind = "ToolCompleted" /\ p.kind = "ToolCompleted" => o = p
    PROVE  LET old == Span(F, "ToolStarted", "ToolCompleted")
               new == Span(E, "ToolStarted", "ToolCompleted")
           IN new \in {old} \cup (IF old = "incomplete" THEN {"ok", "error"} ELSE {})
<1> DEFINE old == Span(F, "ToolStarted", "ToolCompleted")
           new == Span(E, "ToolStarted", "ToolCompleted")
           C(G) == {o \in G : o.kind = "ToolCompleted"}
<1>1. CASE old = "incomplete"
  BY <1>1, SpanStatus
<1>2. CASE old # "incomplete"
  <2>1. {o \in F : o.kind = "ToolStarted"} # {} /\ C(F) # {}
    BY <1>2, SpanStatus
  <2>2. {o \in E : o.kind = "ToolStarted"} # {} /\ C(E) # {}
    BY <2>1
  <2>3. C(E) = C(F)
    BY <2>1
  <2>4. old = new
    BY <2>1, <2>2, <2>3 DEF Span
  <2> QED
    BY <2>4
<1> QED
  BY <1>1, <1>2

\* The ends of a call are one.
LEMMA OneCompletion ==
    ASSUME NEW S, Evidence(S), NEW M \in SUBSET S, NEW inv,
           NEW o \in Called(M, inv), NEW p \in Called(M, inv)
    PROVE  /\ o.kind = "ToolCompleted" /\ p.kind = "ToolCompleted" => o = p
           /\ o.kind = "ToolStarted" /\ p.kind = "ToolStarted" => o = p
           /\ inv = <<"native", o.call>> /\ o.call \in Nat /\ o.call # 0
           /\ o \in M
<1>1. o \in S /\ p \in S /\ o.kind \in ToolKinds /\ p.kind \in ToolKinds
      /\ Invocation(o) = inv /\ Invocation(p) = inv /\ o \in M
  BY DEF Called
<1>2. o.event \in Starts \cup Ends /\ p.event \in Starts \cup Ends
  BY <1>1, KindOf DEF ToolKinds, Starts, Ends
<1>3. o.call # 0 /\ p.call # 0 /\ o.call \in Nat
  BY <1>1, <1>2 DEF Evidence
<1>4. inv = <<"native", o.call>> /\ inv = <<"native", p.call>>
  BY <1>1, <1>3 DEF Invocation
<1>5. o.call = p.call
  BY <1>4
<1>6. o.kind = "ToolCompleted" /\ p.kind = "ToolCompleted" => o = p
  BY <1>1, <1>5, KindOf DEF Evidence, Ends
<1>7. o.kind = "ToolStarted" /\ p.kind = "ToolStarted" => o = p
  BY <1>1, <1>5, KindOf DEF Evidence, Starts
<1> QED
  BY <1>1, <1>3, <1>4, <1>6, <1>7

\* What EvidenceGrows asks of two states of the store.
Grown(s, r) ==
    \A t \in Turns(s) : \E u \in Turns(r) :
       /\ u.id = t.id
       /\ t.completed => u.completed
       /\ \A inv \in DOMAIN t.tools :
            inv \in DOMAIN u.tools /\ u.tools[inv] \in {t.tools[inv]} \cup
              (IF t.tools[inv] = "incomplete" THEN {"ok", "error"} ELSE {})

LEMMA CodexGrows ==
    ASSUME NEW s, Sound(s), Evidence(Held(s)), TurnNamed(Held(s)),
           NEW r, Sound(r), Evidence(Held(r)), TurnNamed(Held(r)),
           Held(s) \subseteq Held(r)
    PROVE  Grown(s, r)
<1> SUFFICES ASSUME NEW t \in Turns(s)
             PROVE  \E u \in Turns(r) :
               /\ u.id = t.id
               /\ t.completed => u.completed
               /\ \A inv \in DOMAIN t.tools :
                    inv \in DOMAIN u.tools /\ u.tools[inv] \in {t.tools[inv]} \cup
                      (IF t.tools[inv] = "incomplete" THEN {"ok", "error"} ELSE {})
  BY DEF Grown
<1> DEFINE S == Held(s)
           R == Held(r)
<1>1. PICK o \in S : o.turn # 0 /\ t = Turn(Explicit(o.turn), Members(S, Explicit(o.turn)))
  BY CodexTurns
<1> DEFINE id == Explicit(o.turn)
           M == Members(S, id)
           N == Members(R, id)
           u == Turn(id, N)
<1>2. u \in Turns(r)
  BY <1>1, CodexTurns
<1>3. o.turn \in Nat /\ M \subseteq S /\ N \subseteq R
  BY <1>1 DEF Evidence, Members
<1>4. \A p \in M : p.event # "SessionStart" => p \in N
  <2> SUFFICES ASSUME NEW p \in M, p.event # "SessionStart" PROVE p \in N
    OBVIOUS
  <2>1. p \in S /\ p \in R /\ p.turn # 0
    BY <1>3 DEF TurnNamed
  <2>2. p.turn = o.turn
    BY <2>1, <1>3, CodexMembers
  <2> QED
    BY <2>1, <2>2, <1>3, CodexMembers
<1>5. \A p \in M : p.kind = "AgentStopped" \/ p.kind \in ToolKinds => p.event # "SessionStart"
  BY <1>3, KindOf DEF ToolKinds
<1> HIDE DEF M, N
<1>6. /\ t.id = id
      /\ t.completed <=> \E p \in M : p.kind = "AgentStopped"
      /\ \A inv : inv \in DOMAIN t.tools <=> Called(M, inv) # {}
      /\ \A inv \in DOMAIN t.tools : t.tools[inv] = Span(Called(M, inv), "ToolStarted", "ToolCompleted")
  <2>1. t = Turn(id, M)
    BY <1>1 DEF M
  <2> HIDE DEF id
  <2> QED
    BY <2>1, ToolsOf
<1>7. /\ u.id = id
      /\ u.completed <=> \E p \in N : p.kind = "AgentStopped"
      /\ \A inv : inv \in DOMAIN u.tools <=> Called(N, inv) # {}
      /\ \A inv \in DOMAIN u.tools : u.tools[inv] = Span(Called(N, inv), "ToolStarted", "ToolCompleted")
  <2>1. u = Turn(id, N)
    OBVIOUS
  <2> HIDE DEF id, u
  <2> QED
    BY <2>1, ToolsOf
<1> HIDE DEF id, u
<1>8. t.completed => u.completed
  BY <1>4, <1>5, <1>6, <1>7
<1>9. ASSUME NEW inv \in DOMAIN t.tools
      PROVE  inv \in DOMAIN u.tools /\ u.tools[inv] \in {t.tools[inv]} \cup
                (IF t.tools[inv] = "incomplete" THEN {"ok", "error"} ELSE {})
  <2>1. Called(M, inv) # {} /\ t.tools[inv] = Span(Called(M, inv), "ToolStarted", "ToolCompleted")
    BY <1>6, <1>9
  <2>2. Called(M, inv) \subseteq Called(N, inv) /\ Called(N, inv) \subseteq R
    BY <1>3, <1>4, <1>5 DEF Called
  <2>3. inv \in DOMAIN u.tools /\ u.tools[inv] = Span(Called(N, inv), "ToolStarted", "ToolCompleted")
    BY <2>1, <2>2, <1>7
  <2>4. \A x, y \in Called(N, inv) : x.kind = "ToolCompleted" /\ y.kind = "ToolCompleted" => x = y
    BY <1>3, OneCompletion
  <2>5. Span(Called(N, inv), "ToolStarted", "ToolCompleted") \in
          {Span(Called(M, inv), "ToolStarted", "ToolCompleted")} \cup
           (IF Span(Called(M, inv), "ToolStarted", "ToolCompleted") = "incomplete" THEN {"ok", "error"} ELSE {})
    BY <2>2, <2>4, SpanGrows
  <2> QED
    BY <2>1, <2>3, <2>5
<1> QED
  BY <1>2, <1>6, <1>7, <1>8, <1>9

LEMMA NextGrows ==
    ASSUME Inv, Inv', [Next]_vars, adapter = "codex"
    PROVE  Grown(stored, stored')
<1>1. adapter' = adapter /\ Held(stored) \subseteq Held(stored')
  <2>1. CASE SessionStart
    BY <2>1 DEF SessionStart, Runs
  <2>2. CASE Prompt
    BY <2>2 DEF Prompt, Runs
  <2>3. ASSUME NEW event, CallStarts(event) PROVE adapter' = adapter /\ stored' = stored
    BY <2>3 DEF CallStarts, Runs
  <2>4. ASSUME NEW event, NEW call, CallEnds(event, call) PROVE adapter' = adapter /\ stored' = stored
    BY <2>4 DEF CallEnds, Runs
  <2>5. ASSUME NEW text, Stop(text) PROVE adapter' = adapter /\ stored' = stored
    BY <2>5 DEF Stop, Runs
  <2>6. CASE Interrupt
    BY <2>6 DEF Interrupt
  <2>7. ASSUME NEW i \in transit, Deliver(i) PROVE adapter' = adapter /\ Held(stored) \subseteq Held(stored')
    <3>1. /\ adapter' = adapter
          /\ stored' = stored \/ stored' = Append(stored, Observe(events[i], i))
      BY <2>7 DEF Deliver
    <3>2. stored \in Seq(Observation) /\ stored' \in Seq(Observation)
      BY DEF Inv, TypeOK
    <3>3. \A j \in DOMAIN stored : j \in DOMAIN stored' /\ stored'[j] = stored[j]
      BY <3>1, <3>2
    <3> QED
      BY <3>1, <3>3 DEF Held
  <2>8. CASE UNCHANGED vars
    BY <2>8 DEF vars
  <2> QED
    BY <2>1, <2>2, <2>3, <2>4, <2>5, <2>6, <2>7, <2>8 DEF Next
<1>2. Sound(stored) /\ Evidence(Held(stored)) /\ TurnNamed(Held(stored))
  BY StoredFacts
<1>3. Sound(stored') /\ Evidence(Held(stored')) /\ TurnNamed(Held(stored'))
  BY <1>1, StoredFactsNext
<1> QED
  BY <1>1, <1>2, <1>3, CodexGrows

\* Where hooks name their turns, no observation that arrives takes away a turn, a call
\* or a completion, for any number of turns and calls and any order.
THEOREM EvidenceOnlyGrows == Spec => EvidenceGrows
<1>1. Inv /\ Inv' /\ [Next]_vars =>
        [adapter = "codex" =>
         \A t \in Turns(stored) : \E u \in Turns(stored') :
           /\ u.id = t.id
           /\ t.completed => u.completed
           /\ \A inv \in DOMAIN t.tools :
                inv \in DOMAIN u.tools /\ u.tools[inv] \in {t.tools[inv]} \cup
                  (IF t.tools[inv] = "incomplete" THEN {"ok", "error"} ELSE {})]_stored
  BY NextGrows DEF Grown
<1> QED
  BY <1>1, CaptureInvariant, PTL DEF Spec, EvidenceGrows
-----------------------------------------------------------------------------
\* Each call of a turn starts in it.
CallOf(inv, n) ==
    \E i \in DOMAIN events : inv = <<"native", i>> /\ events[i].event = "PreToolUse" /\ events[i].of = n

LEMMA ObservedTools ==
    ASSUME Inv, adapter = "codex", NEW n \in Nat,
           NEW inv \in DOMAIN Turn(Explicit(n), Members(Held(stored), Explicit(n))).tools
    PROVE  CallOf(inv, n)
<1> DEFINE S == Held(stored)
           M == Members(S, Explicit(n))
<1>1. Evidence(S) /\ TurnNamed(S)
  BY StoredFacts
<1>2. Called(M, inv) # {}
  BY ToolsOf
<1>31. PICK o \in Called(M, inv) : TRUE
  BY <1>2
<1>3. M \in SUBSET S
  BY DEF Members
<1>4. inv = <<"native", o.call>> /\ o \in M /\ o \in S
  BY <1>1, <1>3, OneCompletion
<1>5. o.kind \in ToolKinds
  BY DEF Called
<1>6. o.event \in {"PreToolUse", "PostToolUse", "PostToolUseFailure"}
  BY <1>1, <1>4, <1>5, KindOf DEF ToolKinds
<1>7. o.turn # 0 /\ o.turn = n
  BY <1>1, <1>4, <1>6, CodexMembers DEF TurnNamed
<1>8. /\ o.at \in DOMAIN events /\ o.event = events[o.at].event /\ o.call = events[o.at].call
      /\ o.turn = events[o.at].turn
  BY <1>4, StoredAt
<1>9. events[o.at].of = n
  BY <1>7, <1>8 DEF Inv, Named
<1>10. CallsPaired /\ DOMAIN events = 1 .. Len(events) /\ Len(events) \in Nat
  BY DEF Inv, TypeOK
<1> HIDE DEF M, S
<1>11. CASE o.event = "PreToolUse"
  BY <1>4, <1>8, <1>9, <1>10, <1>11 DEF CallsPaired, Starts, CallOf
<1>12. CASE o.event \in {"PostToolUse", "PostToolUseFailure"}
  <2>1. /\ o.call \in 1 .. o.at - 1 /\ events[o.call].event = "PreToolUse" /\ events[o.call].of = n
    BY <1>8, <1>9, <1>10, <1>12 DEF CallsPaired, Ends, StartOf
  <2>2. o.call \in DOMAIN events
    BY <2>1, <1>8, <1>10
  <2> QED
    BY <2>1, <2>2, <1>4 DEF CallOf
<1> QED
  BY <1>6, <1>11, <1>12

\* A turn is known by its number, and a call by that of its turn.
LEMMA CountedInv == Inv => CodexCountedOnce
<1> SUFFICES ASSUME Inv, adapter = "codex", NEW n \in 0 .. agent.turn
             PROVE  LET merged == Merge(NativeTurns(n), Turns(stored)) IN
                    /\ Cardinality(merged) <= agent.turn
                    /\ \A t, u \in merged : t # u => DOMAIN t.tools \cap DOMAIN u.tools = {}
  BY DEF CodexCountedOnce, CountedOnce
<1> DEFINE native == NativeTurns(n)
           observed == Turns(stored)
           merged == Merge(native, observed)
           last == agent.turn
           T(k) == Turn(Explicit(k), Members(Held(stored), Explicit(k)))
<1>1. last \in Nat /\ \A k \in 1 .. n : k \in 1 .. last
  BY DEF Inv, TypeOK, Agent
<1>2. ASSUME NEW t \in native
      PROVE  \E k \in 1 .. last : t.id = Explicit(k) /\ \A inv \in DOMAIN t.tools : CallOf(inv, k)
  <2>1. PICK k \in 1 .. n : t =
           [id |-> Explicit(k),
            completed |-> TRUE,
            tools |-> [inv \in {<<"native", events[i].call>> :
                          i \in {j \in DOMAIN events : events[j].event = "PreToolUse" /\ events[j].of = k}}
                        |-> "ok"],
            subagents |-> <<>>]
    BY DEF NativeTurns
  <2>2. DOMAIN t.tools = {<<"native", events[i].call>> :
                          i \in {j \in DOMAIN events : events[j].event = "PreToolUse" /\ events[j].of = k}}
    BY <2>1
  <2>3. \A i \in DOMAIN events : events[i].event = "PreToolUse" => events[i].call = i
    BY DEF Inv, CallsPaired, Starts
  <2>4. \A inv \in DOMAIN t.tools : CallOf(inv, k)
    BY <2>2, <2>3 DEF CallOf
  <2> QED
    BY <1>1, <2>1, <2>4
<1>3. ASSUME NEW t \in native, NEW u \in native, t.id = u.id PROVE t = u
  <2> DEFINE N(k) == [id |-> Explicit(k),
            completed |-> TRUE,
            tools |-> [inv \in {<<"native", events[i].call>> :
                          i \in {j \in DOMAIN events : events[j].event = "PreToolUse" /\ events[j].of = k}}
                        |-> "ok"],
            subagents |-> <<>>]
  <2>1. adapter = "codex" => native = {N(k) : k \in 1 .. n}
    BY DEF NativeTurns
  <2>2. \A k : N(k).id = Explicit(k)
    OBVIOUS
  <2> HIDE DEF N, native
  <2>3. PICK k \in 1 .. n : t = N(k)
    BY <2>1
  <2>4. PICK m \in 1 .. n : u = N(m)
    BY <2>1
  <2>5. Explicit(k) = Explicit(m)
    BY <2>2, <2>3, <2>4, <1>3
  <2>6. k = m
    BY <2>5 DEF Explicit
  <2> QED
    BY <2>3, <2>4, <2>6
<1>4. ASSUME NEW t \in observed
      PROVE  \E k \in 1 .. last : t = T(k) /\ t.id = Explicit(k) /\ \A inv \in DOMAIN t.tools : CallOf(inv, k)
  <2>1. PICK o \in Held(stored) : o.turn # 0 /\ t = T(o.turn)
    BY CodexTurns, StoredFacts
  <2>2. o.turn \in Nat /\ o.at \in DOMAIN events /\ o.turn = events[o.at].turn
    BY StoredAt DEF Input
  <2>3. o.turn = events[o.at].of /\ events[o.at].of <= last
    BY <2>1, <2>2 DEF Inv, Named, TurnsInOrder
  <2>4. o.turn \in 1 .. last
    BY <2>1, <2>2, <2>3, <1>1
  <2>5. t.id = Explicit(o.turn)
    BY <2>1, ToolsOf
  <2>6. \A inv \in DOMAIN t.tools : CallOf(inv, o.turn)
    BY <2>1, <2>2, ObservedTools
  <2> QED
    BY <2>1, <2>4, <2>5, <2>6
<1> HIDE DEF native, observed, T
<1>5. \A t \in merged : t \in native \/ (t \in observed /\ \A m \in native : m.id # t.id)
  BY DEF Merge
<1> HIDE DEF merged
<1>6. \A t \in merged : \E k \in 1 .. last : t.id = Explicit(k) /\ \A inv \in DOMAIN t.tools : CallOf(inv, k)
  BY <1>2, <1>4, <1>5
<1>7. \A t, u \in merged : t.id = u.id => t = u
  <2> SUFFICES ASSUME NEW t \in merged, NEW u \in merged, t.id = u.id PROVE t = u
    OBVIOUS
  <2>1. CASE t \in native /\ u \in native
    BY <2>1, <1>3
  <2>2. CASE t \in observed /\ u \in observed
    <3>1. PICK k \in 1 .. last : t = T(k) /\ t.id = Explicit(k)
      BY <2>2, <1>4
    <3>2. PICK m \in 1 .. last : u = T(m) /\ u.id = Explicit(m)
      BY <2>2, <1>4
    <3>3. Explicit(k) = Explicit(m)
      BY <3>1, <3>2
    <3>4. k = m
      BY <3>3 DEF Explicit
    <3> QED
      BY <3>1, <3>2, <3>4
  <2> QED
    BY <2>1, <2>2, <1>5
<1>8. Cardinality(merged) <= last
  <2> DEFINE number(t) == CHOOSE k \in 1 .. last : t.id = Explicit(k)
             f == [t \in merged |-> number(t)]
  <2>1. \A t \in merged : number(t) \in 1 .. last /\ t.id = Explicit(number(t))
    BY <1>6
  <2> HIDE DEF number
  <2>2. f \in Injection(merged, 1 .. last)
    <3>1. f \in [merged -> 1 .. last]
      BY <2>1
    <3>2. \A t, u \in merged : f[t] = f[u] => t = u
      BY <2>1, <1>7
    <3> QED
      BY <3>1, <3>2 DEF Injection, IsInjective
  <2>3. IsFiniteSet(1 .. last) /\ Cardinality(1 .. last) = last
    <3>1. 1 \in Int /\ last \in Int
      BY <1>1
    <3>2. IsFiniteSet(1 .. last) /\ Cardinality(1 .. last) = IF 1 > last THEN 0 ELSE last - 1 + 1
      BY <3>1, FS_Interval
    <3> QED
      BY <3>2, <1>1
  <2> QED
    BY <2>2, <2>3, FS_Injection
<1>9. \A t, u \in merged : t # u => DOMAIN t.tools \cap DOMAIN u.tools = {}
  <2> SUFFICES ASSUME NEW t \in merged, NEW u \in merged, t # u,
                      NEW inv \in DOMAIN t.tools, inv \in DOMAIN u.tools
               PROVE  FALSE
    OBVIOUS
  <2>1. PICK k \in 1 .. last : t.id = Explicit(k) /\ CallOf(inv, k)
    BY <1>6
  <2>2. PICK m \in 1 .. last : u.id = Explicit(m) /\ CallOf(inv, m)
    BY <1>6
  <2>3. k = m
    BY <2>1, <2>2 DEF CallOf
  <2> QED
    BY <2>1, <2>2, <2>3, <1>7
<1> QED
  BY <1>8, <1>9 DEF merged, native, observed

\* Merging the native turns with the observed ones of Codex gives one turn for each
\* turn of the agent and one call for each call, whenever the transcript was read.
THEOREM CodexCounts == Spec => []CodexCountedOnce
  BY CountedInv, CaptureInvariant, PTL

\* Between the start of a call and its end in the same turn there is no prompt and
\* no Stop, so that both join one turn, whatever else was lost.
LEMMA SameTurn ==
    ASSUME Inv, NEW o \in Held(stored), NEW p \in Held(stored),
           o.event \in Starts, p.event \in Ends, o.call = p.call,
           events[o.at].of = events[p.at].of
    PROVE  ReferenceTurn(Held(stored), o) = ReferenceTurn(Held(stored), p)
<1> DEFINE S == Held(stored)
<1>1. Evidence(S) /\ (adapter = "codex" => TurnNamed(S))
  BY StoredFacts
<1>2. /\ TypeOK /\ Named /\ TurnsInOrder /\ CallsPaired
      /\ DOMAIN events = 1 .. Len(events) /\ Len(events) \in Nat /\ adapter \in {"claude", "codex"}
      /\ \A m \in DOMAIN events : events[m] \in Input
  BY CaptureAssumption DEF Inv, TypeOK
<1>3. \A q \in S : /\ q.at \in DOMAIN events /\ q.event = events[q.at].event /\ q.call = events[q.at].call
                   /\ q.turn = events[q.at].turn
  BY StoredAt
<1> HIDE DEF S
<1>4. o \in S /\ p \in S
  BY DEF S
<1>5. o.at \in Nat /\ p.at \in Nat /\ o.at < p.at
  BY <1>2, <1>3, <1>4 DEF CallsPaired
<1>6. CASE adapter = "codex"
  <2>1. o.turn # 0 /\ p.turn # 0
    BY <1>1, <1>4, <1>6 DEF TurnNamed, Starts, Ends
  <2>2. o.turn = p.turn
    BY <1>2, <1>3, <1>4, <1>6 DEF Named, Starts, Ends
  <2> QED
    BY <2>1, <2>2, <1>1, <1>4, CodexTurn DEF S
<1>7. CASE adapter = "claude"
  <2>1. ASSUME NEW m \in DOMAIN events, o.at < m, m <= p.at
        PROVE  events[m].event # "UserPromptSubmit" /\ events[m].event # "Stop"
    <3>1. /\ m \in Nat /\ events[m].of \in Nat /\ events[o.at].of \in Nat
          /\ o.at \in DOMAIN events /\ p.at \in DOMAIN events
      BY <1>2, <1>3, <1>4 DEF Input
    <3>2. events[o.at].of <= events[m].of /\ events[m].of <= events[p.at].of
      BY <2>1, <3>1, <1>2, <1>5 DEF TurnsInOrder
    <3>3. events[m].of = events[o.at].of /\ events[m].of = events[p.at].of
      BY <3>1, <3>2
    <3>4. events[m].event # "UserPromptSubmit"
      BY <2>1, <3>1, <3>3, <1>2 DEF TurnsInOrder
    <3>5. events[p.at].event # "SessionStart" /\ events[p.at].event # "Stop"
      BY <1>3, <1>4 DEF Ends
    <3>6. events[m].event # "Stop"
      BY <2>1, <3>1, <3>3, <3>5, <1>2, <1>5 DEF TurnsInOrder
    <3> QED
      BY <3>4, <3>6
  <2>2. \A q \in S : q.at \in Nat /\ (q.at = o.at => q = o) /\ (q.at = p.at => q = p)
    BY <1>1, <1>4 DEF Evidence
  <2>3. \A q \in S : o.at < q.at /\ q.at <= p.at => q.kind # "PromptSubmitted" /\ q.kind # "AgentStopped"
    BY <2>1, <1>1, <1>3, KindOf
  <2>4. o.kind # "AgentStopped" /\ p.kind # "AgentStopped"
    BY <1>1, <1>4, KindOf DEF Starts, Ends
  <2>5. Stops(S, o) = Stops(S, p)
    BY <2>2, <2>3, <2>4, <1>4, <1>5 DEF Stops, Past
  <2>6. \A q \in S : Names(q) <=> q.kind = "PromptSubmitted"
    BY <1>2, <1>3, <1>7 DEF Named, Names
  <2>7. \A q : q \in Recent(S, o) <=> q \in Recent(S, p) /\ q.at <= o.at
    BY <2>2, <2>5, <1>4, <1>5 DEF Recent, Past
  <2>8. Recent(S, p) \subseteq S /\ \A q \in Recent(S, p) : q.at <= p.at
    BY <1>1, <1>4, RecentSelf
  <2>9. NamedBy(S, o) = NamedBy(S, p)
    BY <2>2, <2>3, <2>6, <2>7, <2>8, <1>5 DEF NamedBy
  <2> DEFINE O == OpenedBy(S, o)
             P == OpenedBy(S, p)
             e == Earliest(O)
             f == Earliest(P)
  <2>10. o \in O
    BY <1>1, <1>4, RecentSelf, KindOf DEF OpenedBy
  <2>11. O \in SUBSET S /\ P \in SUBSET S /\ \A q : q \in O <=> q \in P /\ q.at <= o.at
    BY <2>7, <2>8 DEF OpenedBy
  <2> HIDE DEF O, P
  <2>12. e \in O /\ \A q \in O : e.at <= q.at
    BY <2>10, <2>11, <1>1, EarliestIs
  <2>13. f \in P /\ \A q \in P : f.at <= q.at
    BY <2>10, <2>11, <1>1, EarliestIs
  <2>14. e \in S /\ f \in S /\ e.at \in Nat /\ f.at \in Nat
    BY <2>2, <2>11, <2>12, <2>13
  <2> HIDE DEF e, f
  <2>15. f \in O
    BY <2>10, <2>11, <2>12, <2>13, <2>14, <1>5
  <2>16. e.at = f.at
    BY <2>11, <2>12, <2>13, <2>14, <2>15
  <2>17. e = f
    BY <2>14, <2>16, <1>1 DEF Evidence
  <2>18. OpenedBy(S, o) # {} /\ OpenedBy(S, p) # {}
    BY <2>10, <2>11 DEF O, P
  <2> QED
    BY <2>9, <2>17, <2>18, ReferenceIs DEF S, e, f, O, P
<1> QED
  BY <1>2, <1>6, <1>7

\* The evidence of one call, tool or subagent.
CalledAs(M, inv, a, b) == {o \in {p \in M : p.kind \in {a, b}} : Invocation(o) = inv}

LEMMA SpansOf ==
    ASSUME NEW M, NEW a, NEW b
    PROVE  /\ \A inv : inv \in DOMAIN Spans(M, a, b) <=> CalledAs(M, inv, a, b) # {}
           /\ \A inv \in DOMAIN Spans(M, a, b) : Spans(M, a, b)[inv] = Span(CalledAs(M, inv, a, b), a, b)
<1>1. Spans(M, a, b) = [inv \in {Invocation(o) : o \in {p \in M : p.kind \in {a, b}}} |->
                          Span(CalledAs(M, inv, a, b), a, b)]
  BY DEF Spans, CalledAs
<1>2. \A inv : inv \in {Invocation(o) : o \in {p \in M : p.kind \in {a, b}}} <=> CalledAs(M, inv, a, b) # {}
  BY DEF CalledAs
<1> QED
  BY <1>1, <1>2

\* Two observations that may be there of a call, and what is known of its span.
LEMMA PairSpan ==
    ASSUME NEW seen, seen # {}, NEW a, NEW b, a # b,
           \A o \in seen : o.kind \in {a, b} /\ o.at \in Nat,
           \A o, p \in seen : o.kind = p.kind => o = p
    PROVE  Span(seen, a, b) =
             IF Cardinality(seen) < 2 THEN "incomplete"
             ELSE IF \E o \in seen : o.kind = b /\ o.event = "PostToolUseFailure" THEN "error" ELSE "ok"
<1>1. CASE \E x, y \in seen : x.kind = a /\ y.kind = b
  <2>1. PICK x \in seen, y \in seen : x.kind = a /\ y.kind = b
    BY <1>1
  <2>2. seen = {x} \cup {y} /\ y \notin {x}
    BY <2>1
  <2>3. IsFiniteSet({x}) /\ Cardinality({x}) = 1
    BY FS_Singleton
  <2>4. Cardinality({x} \cup {y}) = 1 + 1
    BY <2>2, <2>3, FS_AddElement, Zenon
  <2>5. ~(Cardinality(seen) < 2)
    BY <2>2, <2>4
  <2>6. {o \in seen : o.kind = a} # {} /\ {o \in seen : o.kind = b} = {y}
    BY <2>1
  <2> DEFINE completions == {o \in seen : o.kind = b}
             last == CHOOSE q \in completions : \A p \in completions : p.at <= q.at
  <2>7. Span(seen, a, b) = IF last.event = "PostToolUseFailure" THEN "error" ELSE "ok"
    BY <2>6 DEF Span
  <2>8. last = y
    <3>1. y.at <= y.at
      BY <2>1
    <3> QED
      BY <2>6, <3>1
  <2> HIDE DEF last
  <2> QED
    BY <2>1, <2>2, <2>5, <2>7, <2>8
<1>2. CASE ~ \E x, y \in seen : x.kind = a /\ y.kind = b
  <2>1. PICK x \in seen : TRUE
    OBVIOUS
  <2>2. seen = {x}
    BY <1>2
  <2>3. Cardinality(seen) = 1
    BY <2>2, FS_Singleton
  <2>4. {o \in seen : o.kind = a} = {} \/ {o \in seen : o.kind = b} = {}
    BY <1>2
  <2>5. Span(seen, a, b) = "incomplete"
    BY <2>4, SpanStatus
  <2> QED
    BY <2>3, <2>5
<1> QED
  BY <1>1, <1>2

LEMMA CardinalityTwo == ASSUME NEW x, NEW y, x # y PROVE Cardinality({x, y}) = 2
<1>1. IsFiniteSet({x}) /\ Cardinality({x}) = 1
  BY FS_Singleton
<1>2. y \notin {x} /\ {x} \cup {y} = {x, y}
  OBVIOUS
<1>3. Cardinality({x} \cup {y}) = 1 + 1
  BY <1>1, <1>2, FS_AddElement, Zenon
<1> QED
  BY <1>2, <1>3

\* A subagent both of whose ends are stored, in different turns.
LEMMA CrossedEnds ==
    ASSUME Inv, adapter = "codex", NEW i \in DOMAIN events,
           \E j \in DOMAIN events : events[j].call = i /\ events[j].of # events[i].of,
           NEW x \in Held(stored), NEW y \in Held(stored),
           x.event \in Starts, y.event \in Ends, x.call = i, y.call = i
    PROVE  ReferenceTurn(Held(stored), x) # ReferenceTurn(Held(stored), y)
<1>1. Evidence(Held(stored))
  BY StoredFacts
<1>2. Named /\ TurnsInOrder /\ CallsPaired /\ DOMAIN events = 1 .. Len(events)
      /\ \A m \in DOMAIN events : events[m] \in Input
  BY DEF Inv, TypeOK
<1>3. /\ x.at \in DOMAIN events /\ events[x.at].event \in Starts /\ events[x.at].call = i
      /\ y.at \in DOMAIN events /\ events[y.at].event \in Ends /\ events[y.at].call = i
      /\ x.turn = events[x.at].turn /\ y.turn = events[y.at].turn
  BY StoredAt
<1>4. x.at = i
  BY <1>2, <1>3 DEF CallsPaired
<1>5. PICK j \in DOMAIN events : events[j].call = i /\ events[j].of # events[i].of
  OBVIOUS
<1>6. i # 0 /\ j # i
  BY <1>2, <1>5
<1>7. events[j].event \in Ends
  BY <1>2, <1>5, <1>6 DEF CallsPaired
<1>8. j = y.at
  BY <1>2, <1>3, <1>5, <1>7 DEF CallsPaired
<1>9. "SessionStart" \notin Starts \cup Ends
  BY DEF Starts, Ends
<1>10. x.turn = events[i].of /\ y.turn = events[j].of
  BY <1>2, <1>3, <1>4, <1>8, <1>9 DEF Named
<1>11. events[i].of >= 1 /\ events[j].of >= 1 /\ events[i].of \in Nat /\ events[j].of \in Nat
  BY <1>2, <1>3, <1>4, <1>8, <1>9 DEF TurnsInOrder, Input
<1>12. ReferenceTurn(Held(stored), x) = Explicit(x.turn) /\ ReferenceTurn(Held(stored), y) = Explicit(y.turn)
  BY <1>1, <1>10, <1>11, CodexTurn
<1> QED
  BY <1>5, <1>10, <1>12 DEF Explicit

\* The ends of a call that are stored are in one turn and its one span, or are those of
\* a subagent in two turns and the span of each.
LEMMA PairedSpan ==
    ASSUME Inv, NEW start \in {"PreToolUse", "SubagentStart"}, NEW i \in DOMAIN events
    PROVE  LET turns == Turns(stored)
               tool == start = "PreToolUse"
               ends == IF tool THEN {"PostToolUse", "PostToolUseFailure"} ELSE {"SubagentStop"}
               seen == {o \in Seen({start} \cup ends) : o.call = i}
               spans(t) == IF tool THEN t.tools ELSE t.subagents
               holding == {t \in turns : <<"native", i>> \in DOMAIN spans(t)}
               crossed == \E j \in DOMAIN events : events[j].call = i /\ events[j].of # events[i].of
               split == Cardinality(holding) = 2
               both == Cardinality(seen) = 2
           IN events[i].event = start /\ seen # {} =>
                /\ Cardinality(holding) \in {1, 2}
                /\ split => crossed /\ both
                /\ adapter = "codex" /\ crossed /\ both => split
                /\ \A t \in holding : spans(t)[<<"native", i>>] =
                     IF split \/ ~both THEN "incomplete"
                     ELSE IF \E o \in seen : o.event = "PostToolUseFailure" THEN "error" ELSE "ok"
<1> DEFINE S == Held(stored)
           turns == Turns(stored)
           tool == start = "PreToolUse"
           ends == IF tool THEN {"PostToolUse", "PostToolUseFailure"} ELSE {"SubagentStop"}
           seen == {o \in Seen({start} \cup ends) : o.call = i}
           spans(t) == IF tool THEN t.tools ELSE t.subagents
           inv == <<"native", i>>
           holding == {t \in turns : inv \in DOMAIN spans(t)}
           crossed == \E j \in DOMAIN events : events[j].call = i /\ events[j].of # events[i].of
           split == Cardinality(holding) = 2
           both == Cardinality(seen) = 2
           a == IF tool THEN "ToolStarted" ELSE "SubagentStarted"
           b == IF tool THEN "ToolCompleted" ELSE "SubagentStopped"
           R(o) == ReferenceTurn(S, o)
           M(id) == Members(S, id)
           part(id) == {o \in seen : R(o) = id}
           failed == IF \E o \in seen : o.event = "PostToolUseFailure" THEN "error" ELSE "ok"
<1>1. SUFFICES ASSUME events[i].event = start, seen # {}
               PROVE  /\ Cardinality(holding) \in {1, 2}
                      /\ split => crossed /\ both
                      /\ adapter = "codex" /\ crossed /\ both => split
                      /\ \A t \in holding : spans(t)[inv] = IF split \/ ~both THEN "incomplete" ELSE failed
  OBVIOUS
<1>2. Evidence(S) /\ Sound(stored)
  BY StoredFacts
<1>3. ends \subseteq Ends /\ start \in Starts /\ start \in {"PreToolUse", "SubagentStart"} /\ a # b
  BY DEF Ends, Starts
<1>4. \A o \in S : /\ o.kind = a <=> o.event = start
                   /\ o.kind = b <=> o.event \in ends
                   /\ o.kind \in {a, b} <=> o.event \in {start} \cup ends
  BY <1>2, <1>3, KindOf
<1>5. \A o \in S : o.kind \in {a, b} => Invocation(o) = <<"native", o.call>> /\ o.call \in Nat /\ o.at \in Nat
  BY <1>2, <1>3, <1>4 DEF Evidence, Invocation, Starts
<1>6. seen = {o \in S : o.event \in {start} \cup ends /\ o.call = i}
  BY DEF Seen, Stored, Held
<1>7. \A o \in S : o.event = "PostToolUseFailure" /\ o.event \in {start} \cup ends => o.event \in ends
  BY <1>3
<1> HIDE DEF S, ends, seen, a, b, tool
<1>8. \A o, p \in seen : o.kind = p.kind => o = p
  BY <1>2, <1>3, <1>4, <1>6 DEF Evidence
<1>9. \A o \in seen : o \in S /\ o.kind \in {a, b} /\ o.at \in Nat /\ R(o) # NoTurn
  <2> SUFFICES ASSUME NEW o \in seen PROVE o \in S /\ o.kind \in {a, b} /\ o.at \in Nat /\ R(o) # NoTurn
    OBVIOUS
  <2>1. o \in S /\ o.event \in {start} \cup ends /\ o.kind \in {a, b} /\ o.at \in Nat
    BY <1>4, <1>5, <1>6
  <2>2. Opens(o)
    BY <2>1, <1>2, <1>3, KindOf DEF Starts
  <2> QED
    BY <2>1, <2>2, <1>2, WorkHasTurn
<1>10. ASSUME NEW x \in seen, NEW y \in seen, x.event = start, y.event \in ends
       PROVE  /\ R(x) # R(y) => crossed
              /\ adapter = "codex" /\ crossed => R(x) # R(y)
  <2>1. x \in S /\ y \in S /\ x.call = i /\ y.call = i /\ x.event \in Starts /\ y.event \in Ends
    BY <1>3, <1>6, <1>10
  <2>2. ASSUME R(x) # R(y) PROVE crossed
    <3>1. x.at \in DOMAIN events /\ y.at \in DOMAIN events /\ events[x.at].event \in Starts
          /\ events[x.at].call = i /\ events[y.at].call = i
      BY <2>1, <1>10, StoredAt DEF S
    <3>2. events[x.at].of # events[y.at].of
      BY <2>1, <2>2, <1>10, SameTurn DEF S
    <3>3. events[x.at].call = x.at
      BY <3>1 DEF Inv, CallsPaired
    <3> QED
      BY <3>1, <3>2, <3>3
  <2>3. ASSUME adapter = "codex", crossed PROVE R(x) # R(y)
    BY <2>1, <2>3, <1>10, CrossedEnds DEF S
  <2> QED
    BY <2>2, <2>3
<1>11. ASSUME NEW id PROVE CalledAs(M(id), inv, a, b) = part(id)
  <2>1. \A o : o \in CalledAs(M(id), inv, a, b) <=> o \in S /\ R(o) = id /\ o.kind \in {a, b} /\ Invocation(o) = inv
    BY DEF CalledAs, Members
  <2>2. \A o \in S : o.kind \in {a, b} => (Invocation(o) = inv <=> o.call = i)
    BY <1>5
  <2>3. \A o : o \in CalledAs(M(id), inv, a, b) <=> o \in seen /\ R(o) = id
    BY <2>1, <2>2, <1>4, <1>6
  <2> QED
    BY <2>3
<1>12. \A id : spans(Turn(id, M(id))) = Spans(M(id), a, b) /\ Turn(id, M(id)).id = id
  BY DEF Turn, a, b
<1>13. turns = {Turn(id, M(id)) : id \in {R(o) : o \in S} \ {NoTurn}}
  BY <1>2, TurnsAre DEF S
<1> HIDE DEF turns, R, M, spans, inv, crossed, part
<1>14. ASSUME NEW id
       PROVE  /\ inv \in DOMAIN spans(Turn(id, M(id))) <=> part(id) # {}
              /\ part(id) # {} => spans(Turn(id, M(id)))[inv] = Span(part(id), a, b)
  BY <1>11, <1>12, SpansOf
<1>15. holding = {Turn(id, M(id)) : id \in {R(o) : o \in seen}}
  <2>1. \A id : part(id) # {} <=> id \in {R(o) : o \in seen}
    BY DEF part
  <2>2. \A id : id \in {R(o) : o \in seen} => id \in {R(o) : o \in S} \ {NoTurn}
    BY <1>9
  <2> QED
    BY <2>1, <2>2, <1>13, <1>14
<1>16. CASE \A o, p \in seen : R(o) = R(p)
  <2>1. PICK x \in seen : TRUE
    BY <1>1
  <2>2. part(R(x)) = seen
    BY <2>1, <1>16 DEF part
  <2>3. {R(o) : o \in seen} = {R(x)}
    BY <2>1, <1>16
  <2>4. holding = {Turn(R(x), M(R(x)))}
    BY <2>3, <1>15
  <2>5. Cardinality(holding) = 1
    BY <2>4, FS_Singleton
  <2>6. \A o \in seen : o.kind \in {a, b} /\ o.at \in Nat
    BY <1>9
  <2>7. \A o \in seen : o.event = "PostToolUseFailure" <=> o.kind = b /\ o.event = "PostToolUseFailure"
    BY <1>4, <1>6, <1>7
  <2>8. Span(seen, a, b) = IF Cardinality(seen) < 2 THEN "incomplete" ELSE failed
    BY <2>6, <2>7, <1>1, <1>3, <1>8, PairSpan
  <2>9. both \/ Cardinality(seen) < 2
    <3>1. CASE seen = {x}
      <4>1. Cardinality({x}) = 1
        BY FS_Singleton
      <4> QED
        BY <3>1, <4>1
    <3>2. CASE \E y \in seen : y # x
      <4>1. PICK y \in seen : y # x
        BY <3>2
      <4>2. seen = {x, y}
        BY <2>1, <4>1, <1>8, <1>9
      <4> QED
        BY <4>1, <4>2, CardinalityTwo
    <3> QED
      BY <2>1, <3>1, <3>2
  <2>10. both => ~(Cardinality(seen) < 2)
    OBVIOUS
  <2>11. ~(adapter = "codex" /\ crossed /\ both)
    <3>1. SUFFICES ASSUME adapter = "codex", crossed, both PROVE FALSE
      OBVIOUS
    <3>2. PICK y \in seen : y # x
      <4>1. Cardinality({x}) = 1
        BY FS_Singleton
      <4>2. seen # {x}
        BY <3>1, <4>1
      <4> QED
        BY <2>1, <4>2
    <3>3. x.kind # y.kind /\ x.kind \in {a, b} /\ y.kind \in {a, b}
      BY <2>1, <3>2, <1>8, <1>9
    <3>4. (x.event = start /\ y.event \in ends) \/ (y.event = start /\ x.event \in ends)
      BY <3>2, <3>3, <2>1, <1>4, <1>9
    <3> QED
      BY <3>1, <3>2, <3>4, <2>1, <1>10, <1>16
  <2>12. spans(Turn(R(x), M(R(x))))[inv] = Span(seen, a, b)
    BY <2>1, <2>2, <1>1, <1>14
  <2>13. ~split /\ Cardinality(holding) \in {1, 2}
    BY <2>5
  <2>14. \A t \in holding : spans(t)[inv] = IF ~both THEN "incomplete" ELSE failed
    BY <2>4, <2>8, <2>9, <2>10, <2>12
  <2> HIDE DEF split, both
  <2> QED
    BY <2>11, <2>13, <2>14
<1>17. CASE ~ \A o, p \in seen : R(o) = R(p)
  <2>1. PICK x \in seen, y \in seen : R(x) # R(y)
    BY <1>17
  <2>2. x # y /\ x.kind # y.kind /\ x.kind \in {a, b} /\ y.kind \in {a, b}
    BY <2>1, <1>8, <1>9
  <2>3. seen = {x, y}
    BY <2>1, <2>2, <1>8, <1>9
  <2>4. both
    BY <2>2, <2>3, CardinalityTwo
  <2>5. (x.event = start /\ y.event \in ends) \/ (y.event = start /\ x.event \in ends)
    BY <2>1, <2>2, <1>4, <1>9
  <2>6. crossed
    BY <2>1, <2>5, <1>10
  <2>7. {R(o) : o \in seen} = {R(x), R(y)}
    BY <2>3
  <2>8. holding = {Turn(R(x), M(R(x))), Turn(R(y), M(R(y)))}
    BY <2>7, <1>15
  <2>9. Turn(R(x), M(R(x))) # Turn(R(y), M(R(y)))
    BY <2>1, <1>12
  <2>10. split
    BY <2>8, <2>9, CardinalityTwo
  <2>11. part(R(x)) = {x} /\ part(R(y)) = {y}
    BY <2>1, <2>3 DEF part
  <2>12. \A z \in seen : Span({z}, a, b) = "incomplete"
    <3> SUFFICES ASSUME NEW z \in seen PROVE Span({z}, a, b) = "incomplete"
      OBVIOUS
    <3>1. {o \in {z} : o.kind = a} = {} \/ {o \in {z} : o.kind = b} = {}
      BY <1>3
    <3> QED
      BY <3>1, SpanStatus
  <2>13. \A t \in holding : spans(t)[inv] = "incomplete"
    BY <2>1, <2>8, <2>11, <2>12, <1>14
  <2>14. Cardinality(holding) \in {1, 2}
    BY <2>10
  <2> HIDE DEF split, both
  <2> QED
    BY <2>4, <2>6, <2>10, <2>13, <2>14
<1> QED
  BY <1>16, <1>17

\* With any number of calls at once, and any other event lost or late, a call is a span
\* of one turn, complete if and only if both its ends were stored; but a subagent that
\* ends in a later turn may be, and with Codex is, an incomplete span of two.
THEOREM CallsPairUp == Spec => []SpansPaired
<1>1. Inv => SpansPaired
  <2> SUFFICES ASSUME Inv PROVE SpansPaired
    OBVIOUS
  <2> QED
    BY PairedSpan, Zenon DEF SpansPaired
<1> QED
  BY <1>1, CaptureInvariant, PTL
=============================================================================
