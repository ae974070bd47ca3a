------------------------------ MODULE ListFacts ------------------------------
(***************************************************************************)
(* What the proofs about sequences share: least numbers, which stand for   *)
(* induction, what a selection holds, and what a sum is.                   *)
(***************************************************************************)
EXTENDS Selection, Sums, Integers, FiniteSets, TLAPS, WellFoundedInduction, FiniteSetTheorems

\* A set of numbers has a least one: what stands for induction below.
LEMMA NonEmptyMin ==
    ASSUME NEW T \in SUBSET Nat, T # {}
    PROVE  \E n \in T : \A m \in T : n <= m
<1>1. PICK x \in T : \A y \in T : <<y, x>> \notin OpToRel(<, Nat)
  BY WFMin, NatLessThanWellFounded
<1>2. \A y \in T : ~(y < x)
  BY <1>1 DEF OpToRel
<1> QED
  BY <1>2

\* Induction over the numbers up to n, on a set.
LEMMA UpTo ==
    ASSUME NEW n \in Nat, NEW T, 0 \in T, \A k \in 0 .. n : k # n /\ k \in T => k + 1 \in T
    PROVE  \A k \in 0 .. n : k \in T
<1> DEFINE U == {k \in 0 .. n : k \notin T}
<1>1. ASSUME U # {} PROVE FALSE
  <2>1. U \in SUBSET Nat
    OBVIOUS
  <2>2. PICK k \in U : \A m \in U : k <= m
    <3> HIDE DEF U
    <3> QED
      BY <1>1, <2>1, NonEmptyMin
  <2>3. k # 0 /\ k \in 0 .. n /\ k \notin T
    BY <2>2
  <2>4. k - 1 \in 0 .. n /\ ~(k <= k - 1) /\ k - 1 # n /\ k - 1 + 1 = k
    BY <2>3
  <2>5. k - 1 \in T
    BY <2>2, <2>4
  <2> QED
    BY <2>3, <2>4, <2>5
<1> QED
  BY <1>1

\* What has been selected after each entry.
IsSelection(u, seq, places) ==
    u = [i \in 0 .. Len(seq) |-> IF i = 0 THEN <<>>
                                 ELSE IF i \in places THEN Append(u[i - 1], seq[i]) ELSE u[i - 1]]

\* The recursive function of a selection exists.
LEMMA SelectionExists ==
    ASSUME NEW seq, NEW places, Len(seq) \in Nat
    PROVE  \E u : IsSelection(u, seq, places)
<1> DEFINE Good(n) == \E u : u = [i \in 0 .. n |-> IF i = 0 THEN <<>>
                                   ELSE IF i \in places THEN Append(u[i - 1], seq[i]) ELSE u[i - 1]]
           T == {n \in Nat : Good(n)}
<1>1. 0 \in T
  <2>1. [i \in 0 .. 0 |-> <<>>] = [i \in 0 .. 0 |-> IF i = 0 THEN <<>>
            ELSE IF i \in places THEN Append([k \in 0 .. 0 |-> <<>>][i - 1], seq[i])
                 ELSE [k \in 0 .. 0 |-> <<>>][i - 1]]
    OBVIOUS
  <2> QED
    BY <2>1
<1>2. ASSUME NEW n \in Nat, n \in T PROVE n + 1 \in T
  <2>1. PICK c : c = [i \in 0 .. n |-> IF i = 0 THEN <<>>
                                       ELSE IF i \in places THEN Append(c[i - 1], seq[i]) ELSE c[i - 1]]
    BY <1>2
  <2> DEFINE d == [i \in 0 .. n + 1 |-> IF i # n + 1 THEN c[i]
                     ELSE IF i \in places THEN Append(c[i - 1], seq[i]) ELSE c[i - 1]]
  <2>2. d = [i \in 0 .. n + 1 |-> IF i = 0 THEN <<>>
                                  ELSE IF i \in places THEN Append(d[i - 1], seq[i]) ELSE d[i - 1]]
    <3> SUFFICES ASSUME NEW i \in 0 .. n + 1
                 PROVE  d[i] = IF i = 0 THEN <<>>
                               ELSE IF i \in places THEN Append(d[i - 1], seq[i]) ELSE d[i - 1]
      OBVIOUS
    <3>1. CASE i = 0
      <4>1. i # n + 1 /\ i \in 0 .. n
        BY <3>1
      <4> QED
        BY <3>1, <4>1, <2>1
    <3>2. CASE i # 0
      <4>1. i - 1 \in 0 .. n + 1 /\ i - 1 # n + 1 /\ d[i - 1] = c[i - 1]
        BY <3>2
      <4>2. CASE i = n + 1
        BY <4>1, <4>2, <3>2
      <4>3. CASE i # n + 1
        <5>1. d[i] = c[i] /\ i \in 0 .. n
          BY <4>3
        <5>2. c[i] = IF i \in places THEN Append(c[i - 1], seq[i]) ELSE c[i - 1]
          BY <5>1, <2>1, <3>2
        <5> QED
          BY <5>1, <5>2, <4>1, <3>2
      <4> QED
        BY <4>2, <4>3
    <3> QED
      BY <3>1, <3>2
  <2> HIDE DEF d
  <2>3. Good(n + 1)
    BY <2>2
  <2> HIDE DEF Good
  <2> QED
    BY <2>3
<1> HIDE DEF T
<1>3. Len(seq) \in T
  <2>1. \A k \in 0 .. Len(seq) : k # Len(seq) /\ k \in T => k + 1 \in T
    BY <1>2
  <2>2. PICK n : n = Len(seq)
    OBVIOUS
  <2>3. n \in Nat /\ n \in 0 .. n
    BY <2>2
  <2>4. \A k \in 0 .. n : k \in T
    BY <1>1, <2>1, <2>2, <2>3, UpTo
  <2> QED
    BY <2>2, <2>3, <2>4
<1> QED
  BY <1>3 DEF T, IsSelection

\* A selection is the last of these.
LEMMA SelectionIs ==
    ASSUME NEW seq, NEW places, Len(seq) \in Nat
    PROVE  \E u : IsSelection(u, seq, places) /\ Selection(seq, places) = u[Len(seq)]
<1> DEFINE u == CHOOSE u : u = [i \in 0 .. Len(seq) |-> IF i = 0 THEN <<>>
                                 ELSE IF i \in places THEN Append(u[i - 1], seq[i]) ELSE u[i - 1]]
<1>0. \E v : v = [i \in 0 .. Len(seq) |-> IF i = 0 THEN <<>>
                                 ELSE IF i \in places THEN Append(v[i - 1], seq[i]) ELSE v[i - 1]]
  BY SelectionExists, Zenon DEF IsSelection
<1>1. u = [i \in 0 .. Len(seq) |-> IF i = 0 THEN <<>>
                                 ELSE IF i \in places THEN Append(u[i - 1], seq[i]) ELSE u[i - 1]]
  BY <1>0, Zenon
<1>2. Selection(seq, places) = u[Len(seq)]
  BY DEF Selection
<1> HIDE DEF u
<1> QED
  BY <1>1, <1>2 DEF IsSelection

\* At first nothing is selected.
LEMMA SelectionStarts ==
    ASSUME NEW seq, NEW places, Len(seq) \in Nat, NEW u, IsSelection(u, seq, places)
    PROVE  u[0] = <<>>
<1>1. 0 \in 0 .. Len(seq)
  OBVIOUS
<1> QED
  BY <1>1 DEF IsSelection

\* Entry by entry.
LEMMA SelectionSteps ==
    ASSUME NEW seq, NEW places, Len(seq) \in Nat, NEW u, IsSelection(u, seq, places)
    PROVE  /\ u[0] = <<>>
           /\ \A n \in Nat : n + 1 <= Len(seq) =>
                u[n + 1] = IF n + 1 \in places THEN Append(u[n], seq[n + 1]) ELSE u[n]
<1>1. \A i \in 0 .. Len(seq) : u[i] = IF i = 0 THEN <<>>
                                      ELSE IF i \in places THEN Append(u[i - 1], seq[i]) ELSE u[i - 1]
  BY DEF IsSelection
<1>2. 0 \in 0 .. Len(seq)
  OBVIOUS
<1>3. \A n \in Nat : n + 1 <= Len(seq) => n + 1 \in 0 .. Len(seq) /\ n + 1 # 0 /\ n + 1 - 1 = n
  OBVIOUS
<1> QED
  BY <1>1, <1>2, <1>3

\* How a selection grows, entry by entry.
Advances(u, seq, places) ==
    /\ u[0] = <<>>
    /\ \A n \in Nat : n + 1 <= Len(seq) =>
         u[n + 1] = IF n + 1 \in places THEN Append(u[n], seq[n + 1]) ELSE u[n]

\* A selection grows so.
LEMMA SelectionAdvances ==
    ASSUME NEW seq, NEW places, Len(seq) \in Nat, NEW u, IsSelection(u, seq, places)
    PROVE  Advances(u, seq, places)
BY SelectionSteps DEF Advances

\* An entry more.
LEMMA OneAppended ==
    ASSUME NEW S, NEW f \in Seq(S), NEW a \in S, NEW g, g = Append(f, a)
    PROVE  /\ g \in Seq(S) /\ Len(f) \in Nat /\ Len(g) = Len(f) + 1 /\ g[Len(f) + 1] = a
           /\ \A i \in 1 .. Len(f) : g[i] = f[i]
  OBVIOUS

\* The selected entries are entries.
LEMMA SelectionType ==
    ASSUME NEW S, NEW seq \in Seq(S), NEW places, NEW u, IsSelection(u, seq, places)
    PROVE  \A n \in 0 .. Len(seq) : u[n] \in Seq(S)
<1> DEFINE T == {n \in 0 .. Len(seq) : u[n] \in Seq(S)}
<1>1. Len(seq) \in Nat
  OBVIOUS
<1>2. 0 \in T
  <2>1. u[0] = <<>>
    BY <1>1, SelectionStarts
  <2>2. <<>> \in Seq(S)
    OBVIOUS
  <2>3. 0 \in 0 .. Len(seq)
    BY <1>1
  <2> QED
    BY <2>1, <2>2, <2>3
<1>3. ASSUME NEW k \in 0 .. Len(seq), k # Len(seq), k \in T PROVE k + 1 \in T
  <2>1. k \in Nat /\ k + 1 <= Len(seq) /\ k + 1 \in 0 .. Len(seq) /\ k + 1 \in 1 .. Len(seq)
    BY <1>1, <1>3
  <2>2. u[k + 1] = IF k + 1 \in places THEN Append(u[k], seq[k + 1]) ELSE u[k]
    BY <1>1, <2>1, SelectionSteps
  <2>3. u[k] \in Seq(S) /\ seq[k + 1] \in S
    BY <1>3, <2>1
  <2>4. Append(u[k], seq[k + 1]) \in Seq(S)
    BY <2>3, OneAppended
  <2> QED
    BY <2>1, <2>2, <2>3, <2>4
<1> HIDE DEF T
<1>4. \A n \in 0 .. Len(seq) : n \in T
  <2>1. PICK N : N = Len(seq)
    OBVIOUS
  <2> QED
    BY <1>1, <1>2, <1>3, <2>1, UpTo
<1> QED
  BY <1>4 DEF T

Begins(f, g) == Len(f) <= Len(g) /\ \A j \in 1 .. Len(f) : g[j] = f[j]

\* What was selected stays selected.
LEMMA SelectionGrows ==
    ASSUME NEW S, NEW seq \in Seq(S), NEW places, NEW u, IsSelection(u, seq, places),
           NEW m \in 0 .. Len(seq)
    PROVE  \A n \in 0 .. Len(seq) : m <= n => Begins(u[m], u[n])
<1> DEFINE T == {n \in 0 .. Len(seq) : m <= n => Begins(u[m], u[n])}
<1>1. Len(seq) \in Nat /\ 0 \in 0 .. Len(seq) /\ m \in Nat
  OBVIOUS
<1>2. \A n \in 0 .. Len(seq) : u[n] \in Seq(S)
  BY SelectionType
<1>3. Begins(u[m], u[m])
  BY <1>2 DEF Begins
<1>4. 0 \in T
  <2>1. m <= 0 => m = 0
    BY <1>1
  <2> QED
    BY <1>1, <1>3, <2>1
<1>5. ASSUME NEW k \in 0 .. Len(seq), k # Len(seq), k \in T PROVE k + 1 \in T
  <2>1. k \in Nat /\ k + 1 <= Len(seq) /\ k + 1 \in 0 .. Len(seq) /\ k + 1 \in 1 .. Len(seq)
    BY <1>1, <1>5
  <2>2. u[k + 1] = IF k + 1 \in places THEN Append(u[k], seq[k + 1]) ELSE u[k]
    BY <1>1, <2>1, SelectionSteps
  <2>3. ASSUME m <= k + 1, m # k + 1 PROVE Begins(u[m], u[k + 1])
    <3>1. m <= k
      BY <1>1, <2>1, <2>3
    <3>2. Begins(u[m], u[k])
      BY <1>5, <3>1
    <3>3. u[k] \in Seq(S) /\ seq[k + 1] \in S /\ Len(u[m]) \in Nat
      BY <1>2, <2>1
    <3>4. Len(u[k]) \in Nat /\ Len(u[k]) <= Len(u[k + 1]) /\ Len(u[k + 1]) \in Nat
            /\ \A j \in 1 .. Len(u[k]) : u[k + 1][j] = u[k][j]
      <4>1. CASE k + 1 \in places
        BY <2>2, <3>3, <4>1, OneAppended
      <4>2. CASE k + 1 \notin places
        BY <2>2, <3>3, <4>2
      <4> QED
        BY <4>1, <4>2
    <3> QED
      BY <3>2, <3>3, <3>4 DEF Begins
  <2> QED
    BY <1>3, <2>1, <2>3
<1> HIDE DEF T
<1>6. \A n \in 0 .. Len(seq) : n \in T
  <2>1. PICK N : N = Len(seq)
    OBVIOUS
  <2> QED
    BY <1>1, <1>4, <1>5, <2>1, UpTo
<1> QED
  BY <1>6 DEF T

\* The chosen places up to n, in order.
Orderly(w, n, places) ==
    /\ w \in Seq(Nat)
    /\ \A j \in 1 .. Len(w) : w[j] \in places /\ w[j] \in 1 .. n
    /\ \A i, j \in 1 .. Len(w) : i < j => w[i] < w[j]
    /\ \A x \in 1 .. n : x \in places => \E j \in 1 .. Len(w) : w[j] = x

\* The next place is chosen, or not.
LEMMA OrderlyNext ==
    ASSUME NEW w, NEW n \in Nat, NEW places, Orderly(w, n, places),
           NEW v, v = IF n + 1 \in places THEN Append(w, n + 1) ELSE w
    PROVE  Orderly(v, n + 1, places)
<1>1. /\ w \in Seq(Nat) /\ Len(w) \in Nat
      /\ \A j \in 1 .. Len(w) : w[j] \in places /\ w[j] \in 1 .. n
      /\ \A i, j \in 1 .. Len(w) : i < j => w[i] < w[j]
      /\ \A x \in 1 .. n : x \in places => \E j \in 1 .. Len(w) : w[j] = x
  BY DEF Orderly
<1>2. CASE n + 1 \notin places
  <2>1. \A x \in 1 .. n + 1 : x \in places => x \in 1 .. n
    BY <1>2
  <2>2. \A x \in 1 .. n : x \in 1 .. n + 1
    OBVIOUS
  <2> QED
    BY <1>1, <1>2, <2>1, <2>2 DEF Orderly
<1>3. CASE n + 1 \in places
  <2>1. PICK m : m = Len(w)
    OBVIOUS
  <2>2. /\ v \in Seq(Nat) /\ Len(v) = m + 1 /\ v[m + 1] = n + 1 /\ m \in Nat
        /\ \A j \in 1 .. m : v[j] = w[j]
    BY <1>1, <1>3, <2>1, OneAppended
  <2>3. \A j \in 1 .. m + 1 : j = m + 1 \/ j \in 1 .. m
    BY <2>2
  <2>4. \A j \in 1 .. m + 1 : v[j] \in places /\ v[j] \in 1 .. n + 1
    BY <1>1, <1>3, <2>1, <2>2, <2>3
  <2>5. ASSUME NEW i \in 1 .. m + 1, NEW j \in 1 .. m + 1, i < j PROVE v[i] < v[j]
    <3>1. i \in 1 .. m /\ v[i] = w[i] /\ w[i] \in 1 .. n
      BY <1>1, <2>1, <2>2, <2>5
    <3>2. CASE j = m + 1
      BY <2>2, <3>1, <3>2
    <3>3. CASE j # m + 1
      <4>1. j \in 1 .. m
        BY <2>3, <3>3
      <4> QED
        BY <1>1, <2>1, <2>2, <2>5, <3>1, <4>1
    <3> QED
      BY <3>2, <3>3
  <2>6. ASSUME NEW x \in 1 .. n + 1, x \in places PROVE \E j \in 1 .. m + 1 : v[j] = x
    <3>1. CASE x = n + 1
      <4>1. m + 1 \in 1 .. m + 1
        BY <2>2
      <4> QED
        BY <2>2, <3>1, <4>1
    <3>2. CASE x # n + 1
      <4>1. PICK j \in 1 .. m : w[j] = x
        <5>1. x \in 1 .. n
          BY <3>2
        <5> QED
          BY <1>1, <2>1, <2>6, <5>1
      <4>2. j \in 1 .. m + 1 /\ v[j] = x
        BY <2>2, <4>1
      <4> QED
        BY <4>2
    <3> QED
      BY <3>1, <3>2
  <2> QED
    BY <2>2, <2>4, <2>5, <2>6 DEF Orderly
<1> QED
  BY <1>2, <1>3

\* The places themselves, in a sequence of all numbers up to N.
LEMMA PlacesOrderly ==
    ASSUME NEW N \in Nat, NEW seq, Len(seq) = N, \A i \in 1 .. N : seq[i] = i, NEW places,
           NEW u, IsSelection(u, seq, places)
    PROVE  /\ \A n \in 0 .. N : Orderly(u[n], n, places)
           /\ \A n \in 0 .. N : n # N => u[n + 1] = IF n + 1 \in places THEN Append(u[n], n + 1) ELSE u[n]
<1> DEFINE T == {n \in 0 .. N : Orderly(u[n], n, places)}
<1>1. Len(seq) = N /\ \A i \in 1 .. N : seq[i] = i
  OBVIOUS
<1>2. u[0] = <<>> /\ \A n \in Nat : n + 1 <= N =>
         u[n + 1] = IF n + 1 \in places THEN Append(u[n], seq[n + 1]) ELSE u[n]
  <2>1. Len(seq) \in Nat
    BY <1>1
  <2>2. Advances(u, seq, places)
    BY <2>1, SelectionAdvances
  <2> QED
    BY <1>1, <2>2 DEF Advances
<1>3. \A n \in 0 .. N : n # N => n \in Nat /\ n + 1 <= N /\ n + 1 \in 1 .. N /\ n + 1 \in 0 .. N
  OBVIOUS
<1>4. \A n \in 0 .. N : n # N => u[n + 1] = IF n + 1 \in places THEN Append(u[n], n + 1) ELSE u[n]
  BY <1>1, <1>2, <1>3
<1>5. 0 \in T
  <2>1. Orderly(<<>>, 0, places)
    BY DEF Orderly
  <2> QED
    BY <1>2, <2>1
<1>6. ASSUME NEW k \in 0 .. N, k # N, k \in T PROVE k + 1 \in T
  <2>1. Orderly(u[k], k, places)
    BY <1>6
  <2>2. Orderly(u[k + 1], k + 1, places)
    BY <1>3, <1>4, <1>6, <2>1, OrderlyNext
  <2> QED
    BY <1>3, <1>6, <2>2
<1> HIDE DEF T
<1>7. \A n \in 0 .. N : n \in T
  BY <1>5, <1>6, UpTo
<1> QED
  BY <1>4, <1>7 DEF T

\* The body of a loop over 1 to n keeps within a set.
Within(step, n, S) == \A i \in 1 .. n : \A s \in S : step[<<s, i>>] \in S

\* What there is after each turn of the loop.
IsLoop(f, n, base, step) == f[0] = base /\ \A i \in 1 .. n : f[i] = step[<<f[i - 1], i>>]

\* A loop whose body keeps within a set has a value after each turn.
LEMMA LoopExists ==
    ASSUME NEW n \in Nat, NEW S, NEW base \in S, NEW step, Within(step, n, S)
    PROVE  \E f \in [0 .. n -> S] : IsLoop(f, n, base, step)
<1> DEFINE Loop(f, k) == f[0] = base /\ \A i \in 1 .. k : f[i] = step[<<f[i - 1], i>>]
           T == {k \in 0 .. n : \E f \in [0 .. k -> S] : Loop(f, k)}
<1>0. \A i \in 1 .. n, s \in S : step[<<s, i>>] \in S
  BY DEF Within
<1>1. 0 \in T
  <2>1. PICK f : f = [i \in 0 .. 0 |-> base]
    OBVIOUS
  <2>2. f \in [0 .. 0 -> S] /\ f[0] = base
    BY <2>1
  <2>3. Loop(f, 0)
    BY <2>2
  <2> HIDE DEF Loop
  <2>4. 0 \in 0 .. n
    OBVIOUS
  <2> QED
    BY <2>2, <2>3, <2>4
<1>2. ASSUME NEW k \in 0 .. n, k # n, k \in T PROVE k + 1 \in T
  <2>1. PICK f \in [0 .. k -> S] : Loop(f, k)
    BY <1>2
  <2> DEFINE g == [i \in 0 .. k + 1 |-> IF i = k + 1 THEN step[<<f[k], k + 1>>] ELSE f[i]]
  <2>2. k \in 0 .. k /\ f[k] \in S /\ k + 1 \in 1 .. n
    BY <1>2
  <2>3. g \in [0 .. k + 1 -> S]
    BY <1>0, <2>2
  <2>4. g[0] = base /\ g[k + 1] = step[<<f[k], k + 1>>] /\ \A i \in 0 .. k : g[i] = f[i]
    BY <1>2, <2>1
  <2>5. ASSUME NEW i \in 1 .. k + 1 PROVE g[i] = step[<<g[i - 1], i>>]
    <3>1. CASE i = k + 1
      <4>1. i - 1 = k
        BY <2>2, <3>1
      <4> QED
        BY <2>2, <2>4, <3>1, <4>1
    <3>2. CASE i # k + 1
      <4>1. i \in 1 .. k /\ i \in 0 .. k /\ i - 1 \in 0 .. k
        BY <2>2, <3>2
      <4>2. f[i] = step[<<f[i - 1], i>>]
        BY <2>1, <4>1
      <4> QED
        BY <2>4, <4>1, <4>2
    <3> QED
      BY <3>1, <3>2
  <2> HIDE DEF g
  <2>6. Loop(g, k + 1)
    BY <2>4, <2>5
  <2>7. k + 1 \in 0 .. n
    BY <2>2
  <2> QED
    BY <2>3, <2>6, <2>7
<1>3. n \in T
  <2> HIDE DEF T
  <2>1. \A k \in 0 .. n : k \in T
    BY <1>1, <1>2, UpTo
  <2> QED
    BY <2>1
<1> QED
  BY <1>3 DEF IsLoop

\* A selection is the entries at its places, in their order.
LEMMA SelectionPlaces ==
    ASSUME NEW S, NEW seq \in Seq(S), NEW places
    PROVE  \E w : /\ Orderly(w, Len(seq), places)
                  /\ Selection(seq, places) \in Seq(S)
                  /\ Len(Selection(seq, places)) = Len(w)
                  /\ \A j \in 1 .. Len(w) : Selection(seq, places)[j] = seq[w[j]]
<1>1. PICK N \in Nat : N = Len(seq)
  OBVIOUS
<1>2. PICK u : IsSelection(u, seq, places) /\ Selection(seq, places) = u[N]
  BY <1>1, SelectionIs
<1>3. PICK ids : ids = [i \in 1 .. N |-> i]
  OBVIOUS
<1>4. ids \in Seq(Nat) /\ Len(ids) = N /\ \A i \in 1 .. N : ids[i] = i
  BY <1>3
<1>5. PICK v : IsSelection(v, ids, places)
  <2>1. Len(ids) \in Nat
    BY <1>4
  <2> QED
    BY <2>1, SelectionExists
<1>6. /\ \A n \in 0 .. N : Orderly(v[n], n, places)
      /\ \A n \in 0 .. N : n # N => v[n + 1] = IF n + 1 \in places THEN Append(v[n], n + 1) ELSE v[n]
  BY <1>4, <1>5, PlacesOrderly
<1>7. u[0] = <<>> /\ v[0] = <<>>
  <2>1. 0 \in 0 .. Len(seq) /\ 0 \in 0 .. Len(ids)
    BY <1>1, <1>4
  <2>2. u[0] = <<>>
    BY <1>2, <2>1 DEF IsSelection
  <2>3. v[0] = <<>>
    BY <1>5, <2>1 DEF IsSelection
  <2> QED
    BY <2>2, <2>3
<1>8. \A n \in 0 .. N : u[n] \in Seq(S)
  BY <1>1, <1>2, SelectionType
<1> DEFINE Same(n) == Len(u[n]) = Len(v[n]) /\ \A j \in 1 .. Len(v[n]) : u[n][j] = seq[v[n][j]]
           T == {n \in 0 .. N : Same(n)}
<1>9. 0 \in T
  BY <1>1, <1>7
<1>10. ASSUME NEW k \in 0 .. N, k # N, k \in T PROVE k + 1 \in T
  <2>1. k \in Nat /\ k + 1 <= Len(seq) /\ k + 1 \in 0 .. N /\ k + 1 \in 1 .. N /\ seq[k + 1] \in S
    BY <1>1, <1>10
  <2>2. u[k + 1] = IF k + 1 \in places THEN Append(u[k], seq[k + 1]) ELSE u[k]
    <3>1. k + 1 \in 0 .. Len(seq) /\ k + 1 # 0 /\ k + 1 - 1 = k
      BY <1>1, <2>1
    <3>2. \A i \in 0 .. Len(seq) : u[i] = IF i = 0 THEN <<>>
                     ELSE IF i \in places THEN Append(u[i - 1], seq[i]) ELSE u[i - 1]
      BY <1>2 DEF IsSelection
    <3> QED
      BY <3>1, <3>2
  <2>3. v[k + 1] = IF k + 1 \in places THEN Append(v[k], k + 1) ELSE v[k]
    BY <1>6, <1>10
  <2>4. PICK p, q : p = u[k] /\ q = v[k]
    OBVIOUS
  <2>5. p \in Seq(S) /\ q \in Seq(Nat) /\ Len(p) = Len(q) /\ \A j \in 1 .. Len(q) : p[j] = seq[q[j]]
    BY <1>6, <1>8, <1>10, <2>4 DEF Orderly
  <2>6. CASE k + 1 \in places
    <3>1. PICK pp, qq : pp = Append(p, seq[k + 1]) /\ qq = Append(q, k + 1)
      OBVIOUS
    <3>2. PICK x \in S : x = seq[k + 1]
      BY <2>1
    <3>3. /\ Len(pp) = Len(p) + 1 /\ pp[Len(p) + 1] = seq[k + 1] /\ \A i \in 1 .. Len(p) : pp[i] = p[i]
          /\ Len(p) \in Nat
      <4>1. pp = Append(p, x)
        BY <3>1, <3>2
      <4> QED
        BY <2>5, <3>2, <4>1, OneAppended
    <3>4. Len(qq) = Len(q) + 1 /\ qq[Len(q) + 1] = k + 1 /\ \A i \in 1 .. Len(q) : qq[i] = q[i]
      BY <2>1, <2>5, <3>1, OneAppended
    <3>5. Len(pp) = Len(qq)
      BY <2>5, <3>3, <3>4
    <3>6. ASSUME NEW j \in 1 .. Len(qq) PROVE pp[j] = seq[qq[j]]
      <4>1. CASE j = Len(q) + 1
        BY <2>5, <3>3, <3>4, <4>1
      <4>2. CASE j # Len(q) + 1
        <5>1. j \in 1 .. Len(q)
          BY <2>5, <3>3, <3>4, <4>2
        <5> QED
          BY <2>5, <3>3, <3>4, <5>1
      <4> QED
        BY <4>1, <4>2
    <3>7. u[k + 1] = pp /\ v[k + 1] = qq
      BY <2>2, <2>3, <2>4, <2>6, <3>1
    <3>8. Same(k + 1)
      BY <3>5, <3>6, <3>7
    <3> QED
      BY <2>1, <3>8
  <2>7. CASE k + 1 \notin places
    <3>1. Same(k + 1)
      BY <2>2, <2>3, <2>4, <2>5, <2>7
    <3> QED
      BY <2>1, <3>1
  <2> QED
    BY <2>6, <2>7
<1>11. N \in T
  <2> HIDE DEF T
  <2>1. \A k \in 0 .. N : k \in T
    BY <1>1, <1>9, <1>10, UpTo
  <2> QED
    BY <1>1, <2>1
<1>12. PICK w, r : w = v[N] /\ r = u[N]
  OBVIOUS
<1>13. Orderly(w, N, places) /\ r \in Seq(S) /\ Len(r) = Len(w) /\ \A j \in 1 .. Len(w) : r[j] = seq[w[j]]
  BY <1>1, <1>6, <1>8, <1>11, <1>12
<1> HIDE DEF T
<1>14. Selection(seq, places) = r
  BY <1>2, <1>12
<1> QED
  BY <1>1, <1>13, <1>14

\* What a selection has, and that it has nothing else.
LEMMA SelectionRange ==
    ASSUME NEW S, NEW seq \in Seq(S), NEW places, NEW sel, sel = Selection(seq, places)
    PROVE  /\ sel \in Seq(S)
           /\ \A j \in 1 .. Len(sel) : \E i \in 1 .. Len(seq) : i \in places /\ sel[j] = seq[i]
           /\ \A i \in 1 .. Len(seq) : i \in places => \E j \in 1 .. Len(sel) : sel[j] = seq[i]
<1>1. PICK w : /\ Orderly(w, Len(seq), places) /\ sel \in Seq(S) /\ Len(sel) = Len(w)
               /\ \A j \in 1 .. Len(w) : sel[j] = seq[w[j]]
  BY SelectionPlaces
<1>2. PICK N \in Nat : N = Len(seq)
  OBVIOUS
<1>3. /\ \A j \in 1 .. Len(w) : w[j] \in places /\ w[j] \in 1 .. N
      /\ \A x \in 1 .. N : x \in places => \E j \in 1 .. Len(w) : w[j] = x
  BY <1>1, <1>2 DEF Orderly
<1>4. ASSUME NEW j \in 1 .. Len(sel) PROVE \E i \in 1 .. N : i \in places /\ sel[j] = seq[i]
  <2>1. j \in 1 .. Len(w)
    BY <1>1
  <2> QED
    BY <1>1, <1>3, <2>1
<1>5. ASSUME NEW i \in 1 .. N, i \in places PROVE \E j \in 1 .. Len(sel) : sel[j] = seq[i]
  <2>1. PICK j \in 1 .. Len(w) : w[j] = i
    BY <1>3, <1>5
  <2>2. j \in 1 .. Len(sel) /\ sel[j] = seq[i]
    BY <1>1, <2>1
  <2> QED
    BY <2>2
<1> QED
  BY <1>1, <1>2, <1>4, <1>5

\* The selection of all places is the sequence itself.
LEMMA SelectionAll ==
    ASSUME NEW S, NEW seq \in Seq(S), NEW places, \A i \in 1 .. Len(seq) : i \in places
    PROVE  Selection(seq, places) = seq
<1>1. PICK N \in Nat : N = Len(seq)
  OBVIOUS
<1>2. PICK u : IsSelection(u, seq, places) /\ Selection(seq, places) = u[N]
  BY <1>1, SelectionIs
<1>3. \A n \in 0 .. N : u[n] \in Seq(S)
  BY <1>1, <1>2, SelectionType
<1> DEFINE Same(n) == Len(u[n]) = n /\ \A j \in 1 .. n : u[n][j] = seq[j]
           T == {n \in 0 .. N : Same(n)}
<1>4. 0 \in T
  <2>1. u[0] = <<>>
    <3>1. 0 \in 0 .. Len(seq)
      BY <1>1
    <3> QED
      BY <1>2, <3>1 DEF IsSelection
  <2> QED
    BY <1>1, <2>1
<1>5. ASSUME NEW k \in 0 .. N, k # N, k \in T PROVE k + 1 \in T
  <2>1. k \in Nat /\ k + 1 <= Len(seq) /\ k + 1 \in 0 .. N /\ k + 1 \in places
    BY <1>1, <1>5
  <2>2. PICK x \in S : x = seq[k + 1]
    BY <1>1, <2>1
  <2>3. u[k + 1] = Append(u[k], x)
    <3>1. u[k + 1] = IF k + 1 \in places THEN Append(u[k], seq[k + 1]) ELSE u[k]
      <4>1. k + 1 \in 0 .. Len(seq) /\ k + 1 # 0 /\ k + 1 - 1 = k
        BY <1>1, <2>1
      <4>2. \A i \in 0 .. Len(seq) : u[i] = IF i = 0 THEN <<>>
                       ELSE IF i \in places THEN Append(u[i - 1], seq[i]) ELSE u[i - 1]
        BY <1>2 DEF IsSelection
      <4> QED
        BY <4>1, <4>2
    <3> QED
      BY <2>1, <2>2, <3>1
  <2>4. PICK p, q : p = u[k] /\ q = u[k + 1]
    OBVIOUS
  <2>5. p \in Seq(S) /\ q = Append(p, x) /\ Len(p) = k /\ \A j \in 1 .. k : p[j] = seq[j]
    BY <1>3, <1>5, <2>3, <2>4
  <2>6. Len(q) = k + 1 /\ q[k + 1] = x /\ \A j \in 1 .. k : q[j] = p[j]
    BY <2>5, OneAppended
  <2>7. ASSUME NEW j \in 1 .. k + 1 PROVE q[j] = seq[j]
    <3>1. j = k + 1 \/ j \in 1 .. k
      BY <2>1
    <3> QED
      BY <2>2, <2>5, <2>6, <3>1
  <2>8. Same(k + 1)
    BY <2>4, <2>6, <2>7
  <2> QED
    BY <2>1, <2>8
<1>6. N \in T
  <2> HIDE DEF T
  <2>1. \A k \in 0 .. N : k \in T
    BY <1>1, <1>4, <1>5, UpTo
  <2> QED
    BY <1>1, <2>1
<1>7. PICK r : r = u[N]
  OBVIOUS
<1>8. r \in Seq(S) /\ Len(r) = Len(seq) /\ \A j \in 1 .. Len(seq) : r[j] = seq[j]
  BY <1>1, <1>3, <1>6, <1>7
<1> HIDE DEF T
<1>9. r = seq
  BY <1>8
<1> QED
  BY <1>2, <1>7, <1>9

Some(S) == CHOOSE i \in S : TRUE
Small(D, k) == {S \in SUBSET D : Cardinality(S) <= k}
Summing(s, f, P) == s = [S \in P |-> IF S = {} THEN 0 ELSE f[Some(S)] + s[S \ {Some(S)}]]

\* A finite set without one of its elements is smaller by one.
LEMMA WithoutOne ==
    ASSUME NEW D, IsFiniteSet(D), NEW S \in SUBSET D, NEW x \in S
    PROVE  /\ IsFiniteSet(S) /\ Cardinality(S) \in Nat /\ Cardinality(S \ {x}) = Cardinality(S) - 1
           /\ S \ {x} \in SUBSET D /\ Cardinality(S \ {x}) \in Nat
<1>1. IsFiniteSet(S)
  BY FS_Subset
<1>2. IsFiniteSet(S \ {x}) /\ Cardinality(S \ {x}) = Cardinality(S) - 1
  BY <1>1, FS_RemoveElement
<1> QED
  BY <1>1, <1>2, FS_CardinalityType

\* The recursive function of SumOf exists, for ever larger subsets.
LEMMA SumsExist ==
    ASSUME NEW f, NEW D, IsFiniteSet(D), NEW k \in 0 .. Cardinality(D)
    PROVE  \E s : Summing(s, f, Small(D, k))
<1> DEFINE n == Cardinality(D)
           T == {j \in 0 .. n : \E s : Summing(s, f, Small(D, j))}
<1>0. n \in Nat
  BY FS_CardinalityType
<1>1. 0 \in T
  <2>1. Small(D, 0) = {{}}
    <3>1. \A S \in SUBSET D : IsFiniteSet(S) /\ Cardinality(S) \in Nat /\ (Cardinality(S) = 0 <=> S = {})
      BY FS_Subset, FS_CardinalityType, FS_EmptySet
    <3>2. \A S \in SUBSET D : Cardinality(S) <= 0 <=> S = {}
      BY <3>1
    <3> QED
      BY <3>2 DEF Small
  <2> DEFINE s == [S \in {{}} |-> 0]
  <2>2. s = [S \in {{}} |-> IF S = {} THEN 0 ELSE f[Some(S)] + s[S \ {Some(S)}]]
    OBVIOUS
  <2>3. Summing(s, f, Small(D, 0))
    BY <2>1, <2>2 DEF Summing
  <2> QED
    BY <1>0, <2>3
<1>2. ASSUME NEW j \in 0 .. n, j # n, j \in T PROVE j + 1 \in T
  <2>1. PICK s : Summing(s, f, Small(D, j))
    BY <1>2
  <2> DEFINE t == [S \in Small(D, j + 1) |-> IF S = {} THEN 0 ELSE f[Some(S)] + s[S \ {Some(S)}]]
  <2>2. \A S \in Small(D, j) : S \in Small(D, j + 1)
    <3>1. \A S \in SUBSET D : Cardinality(S) \in Nat
      BY FS_Subset, FS_CardinalityType
    <3> QED
      BY <3>1 DEF Small
  <2>3. \A S \in Small(D, j) : t[S] = s[S]
    BY <2>1, <2>2 DEF Summing
  <2>4. \A S \in Small(D, j + 1) : S # {} => S \ {Some(S)} \in Small(D, j)
    <3> SUFFICES ASSUME NEW S \in Small(D, j + 1), S # {} PROVE S \ {Some(S)} \in Small(D, j)
      OBVIOUS
    <3>1. S \in SUBSET D /\ Cardinality(S) <= j + 1 /\ Some(S) \in S
      BY DEF Small, Some
    <3>2. S \ {Some(S)} \in SUBSET D /\ Cardinality(S \ {Some(S)}) = Cardinality(S) - 1 /\ Cardinality(S) \in Nat
      BY <3>1, WithoutOne
    <3> QED
      BY <3>1, <3>2 DEF Small
  <2>5. Summing(t, f, Small(D, j + 1))
    <3>1. \A S \in Small(D, j + 1) : t[S] = IF S = {} THEN 0 ELSE f[Some(S)] + t[S \ {Some(S)}]
      BY <2>3, <2>4
    <3>2. t = [S \in Small(D, j + 1) |-> IF S = {} THEN 0 ELSE f[Some(S)] + t[S \ {Some(S)}]]
      <4> DEFINE u == [S \in Small(D, j + 1) |-> IF S = {} THEN 0 ELSE f[Some(S)] + t[S \ {Some(S)}]]
      <4>1. \A S \in Small(D, j + 1) : t[S] = u[S]
        BY <3>1
      <4>2. DOMAIN t = Small(D, j + 1) /\ DOMAIN u = Small(D, j + 1)
        OBVIOUS
      <4>3. t = [S \in Small(D, j + 1) |-> t[S]] /\ u = [S \in Small(D, j + 1) |-> u[S]]
        OBVIOUS
      <4> HIDE DEF t, u
      <4>4. t = u
        BY <4>1, <4>3
      <4> QED
        BY <4>4 DEF u
    <3> HIDE DEF t
    <3> QED
      BY <3>2 DEF Summing
  <2>6. j + 1 \in 0 .. n
    BY <1>0, <1>2
  <2> HIDE DEF t
  <2> QED
    BY <2>5, <2>6
<1> HIDE DEF n, T
<1>3. \A j \in 0 .. n : j \in T
  BY <1>0, <1>1, <1>2, UpTo
<1> QED
  BY <1>3 DEF n, T

IsSum(s, f) == Summing(s, f, SUBSET DOMAIN f)

\* The sum over a function is the value of a recursive function, which exists.
LEMMA SumOfIs ==
    ASSUME NEW f, IsFiniteSet(DOMAIN f)
    PROVE  \E s : IsSum(s, f) /\ SumOf(f) = s[DOMAIN f]
<1> DEFINE D == DOMAIN f
           s == CHOOSE s : s = [S \in SUBSET D |-> IF S = {} THEN 0 ELSE f[Some(S)] + s[S \ {Some(S)}]]
<1>1. Cardinality(D) \in Nat /\ \A S \in SUBSET D : Cardinality(S) <= Cardinality(D)
  BY FS_CardinalityType, FS_Subset
<1>2. Small(D, Cardinality(D)) = SUBSET D /\ Cardinality(D) \in 0 .. Cardinality(D)
  BY <1>1 DEF Small
<1>3. \E t : Summing(t, f, SUBSET D)
  <2>1. \E t : Summing(t, f, Small(D, Cardinality(D)))
    <3> HIDE DEF D
    <3>1. IsFiniteSet(D)
      BY DEF D
    <3> QED
      BY <1>2, <3>1, SumsExist
  <2> QED
    BY <1>2, <2>1
<1>4. s = [S \in SUBSET D |-> IF S = {} THEN 0 ELSE f[Some(S)] + s[S \ {Some(S)}]]
  BY <1>3 DEF Summing
<1>5. SumOf(f) = s[D]
  BY DEF SumOf, Some
<1> HIDE DEF s
<1> QED
  BY <1>4, <1>5 DEF Summing, IsSum

Counts(f) == IsFiniteSet(DOMAIN f) /\ \A x \in DOMAIN f : f[x] \in Nat

\* The order of adding does not matter.
LEMMA SumsAdd ==
    ASSUME NEW f, Counts(f), NEW s, IsSum(s, f)
    PROVE  \A S \in SUBSET DOMAIN f : s[S] \in Nat /\ \A x \in DOMAIN f \ S : s[S \cup {x}] = s[S] + f[x]
<1> DEFINE D == DOMAIN f
           n == Cardinality(D)
           Fine(S) == s[S] \in Nat /\ \A x \in D \ S : s[S \cup {x}] = s[S] + f[x]
           T == {k \in 0 .. n : \A S \in SUBSET D : Cardinality(S) <= k => Fine(S)}
<1> USE DEF Counts
<1>0. n \in Nat /\ \A S \in SUBSET D : IsFiniteSet(S) /\ Cardinality(S) \in Nat /\ Cardinality(S) <= n
                                       /\ (Cardinality(S) = 0 <=> S = {})
  BY FS_CardinalityType, FS_Subset, FS_EmptySet
<1>1. s[{}] = 0 /\ \A S \in SUBSET D : S # {} => s[S] = f[Some(S)] + s[S \ {Some(S)}]
  BY DEF Summing, IsSum
<1>2. \A S : S # {} => Some(S) \in S
  BY DEF Some
<1>3. ASSUME NEW S \in SUBSET D, NEW x \in D \ S,
             \A U \in SUBSET D : U # S /\ U \subseteq S => Fine(U), s[S] \in Nat
      PROVE  s[S \cup {x}] = s[S] + f[x]
  <2> DEFINE V == S \cup {x}
             i == Some(V)
  <2>1. V \in SUBSET D /\ V # {} /\ i \in V
    BY <1>2
  <2>2. s[V] = f[i] + s[V \ {i}]
    BY <1>1, <2>1
  <2>3. CASE i = x
    <3>1. V \ {i} = S
      BY <2>3
    <3>2. s[S] \in Nat /\ f[x] \in Nat
      BY <1>3
    <3>3. s[V] = f[x] + s[S]
      BY <2>2, <2>3, <3>1
    <3> HIDE DEF V
    <3>4. s[V] = s[S] + f[x]
      BY <3>2, <3>3
    <3> QED
      BY <3>4 DEF V
  <2>4. CASE i # x
    <3> DEFINE U == S \ {i}
    <3>1. /\ i \in S /\ V \ {i} = U \cup {x} /\ U \cup {i} = S /\ U # S /\ U \subseteq S
          /\ U \in SUBSET D /\ x \in D \ U /\ i \in D \ U
      BY <2>1, <2>4
    <3>2. Fine(U)
      BY <1>3, <3>1
    <3>3. s[U \cup {x}] = s[U] + f[x] /\ s[U \cup {i}] = s[U] + f[i] /\ s[U] \in Nat
      BY <3>1, <3>2
    <3>4. f[i] \in Nat /\ f[x] \in Nat
      BY <3>1
    <3>5. s[V] = f[i] + s[U \cup {x}] /\ s[S] = s[U] + f[i]
      BY <2>2, <3>1, <3>3
    <3> HIDE DEF V, U, i
    <3>6. s[V] = s[S] + f[x]
      BY <3>3, <3>4, <3>5
    <3> QED
      BY <3>6 DEF V
  <2> QED
    BY <2>3, <2>4
<1>4. 0 \in T
  <2>1. ASSUME NEW S \in SUBSET D, Cardinality(S) <= 0 PROVE Fine(S)
    <3>1. S = {} /\ s[S] = 0
      <4>1. Cardinality(S) \in Nat /\ (Cardinality(S) = 0 <=> S = {})
        BY <1>0
      <4>2. Cardinality(S) = 0
        BY <2>1, <4>1
      <4> QED
        BY <1>1, <4>1, <4>2
    <3>2. \A U \in SUBSET D : U # S /\ U \subseteq S => Fine(U)
      BY <3>1
    <3>3. s[S] \in Nat
      BY <3>1
    <3> HIDE DEF D
    <3>4. \A x \in D \ S : s[S \cup {x}] = s[S] + f[x]
      BY <1>3, <3>2, <3>3
    <3> QED
      BY <3>3, <3>4
  <2> HIDE DEF Counts, Fine
  <2> QED
    BY <1>0, <2>1
<1>5. ASSUME NEW k \in 0 .. n, k # n, k \in T PROVE k + 1 \in T
  <2>1. ASSUME NEW S \in SUBSET D, Cardinality(S) <= k + 1 PROVE Fine(S)
    <3>1. \A U \in SUBSET D : U # S /\ U \subseteq S => Fine(U)
      <4> SUFFICES ASSUME NEW U \in SUBSET D, U # S, U \subseteq S PROVE Fine(U)
        OBVIOUS
      <4>1. Cardinality(U) < Cardinality(S)
        BY <1>0, FS_Subset
      <4>2. Cardinality(U) <= k
        BY <1>0, <2>1, <4>1
      <4> QED
        BY <1>5, <4>2
    <3>2. s[S] \in Nat
      <4>1. CASE S = {}
        BY <1>1, <4>1
      <4>2. CASE S # {}
        <5>1. Some(S) \in S /\ S \ {Some(S)} # S /\ S \ {Some(S)} \subseteq S /\ S \ {Some(S)} \in SUBSET D
          BY <1>2, <4>2
        <5>2. Fine(S \ {Some(S)})
          BY <3>1, <5>1
        <5>3. f[Some(S)] \in Nat
          BY <5>1
        <5>4. s[S \ {Some(S)}] \in Nat
          BY <5>2
        <5>5. s[S] = f[Some(S)] + s[S \ {Some(S)}]
          BY <1>1, <4>2
        <5> QED
          BY <5>3, <5>4, <5>5
      <4> QED
        BY <4>1, <4>2
    <3> HIDE DEF D
    <3>3. \A x \in D \ S : s[S \cup {x}] = s[S] + f[x]
      BY <1>3, <3>1, <3>2
    <3> QED
      BY <3>2, <3>3
  <2> HIDE DEF Fine
  <2> QED
    BY <1>0, <1>5, <2>1
<1> HIDE DEF T
<1>6. \A k \in 0 .. n : k \in T
  <2> HIDE DEF n
  <2> QED
    BY <1>0, <1>4, <1>5, UpTo
<1>7. n \in T
  BY <1>0, <1>6
<1> QED
  BY <1>0, <1>7 DEF T

\* One element more adds its count.
LEMMA SumsPlus ==
    ASSUME NEW f, Counts(f), NEW s, IsSum(s, f), NEW S, S \subseteq DOMAIN f,
           NEW x, x \in DOMAIN f, x \notin S
    PROVE  s[S] \in Nat /\ s[S \cup {x}] = s[S] + f[x]
<1>1. S \in SUBSET DOMAIN f /\ x \in DOMAIN f \ S
  OBVIOUS
<1> QED
  BY <1>1, SumsAdd

\* Two functions that agree on a set have the same sum there.
LEMMA SumsAgree ==
    ASSUME NEW f, NEW g, IsFiniteSet(DOMAIN f),
           NEW s, IsSum(s, f), NEW t, IsSum(t, g),
           NEW D, D \subseteq DOMAIN f, D \subseteq DOMAIN g, \A x \in D : f[x] = g[x]
    PROVE  s[D] = t[D]
<1> DEFINE n == Cardinality(D)
           T == {k \in 0 .. n : \A S \in SUBSET D : Cardinality(S) <= k => s[S] = t[S]}
<1>0. IsFiniteSet(D)
  BY FS_Subset
<1>1. n \in Nat /\ \A S \in SUBSET D : Cardinality(S) \in Nat /\ Cardinality(S) <= n /\ (Cardinality(S) = 0 <=> S = {})
  <2>1. \A S \in SUBSET D : IsFiniteSet(S) /\ Cardinality(S) <= Cardinality(D)
    BY <1>0, FS_Subset
  <2> QED
    BY <1>0, <2>1, FS_CardinalityType, FS_EmptySet
<1>2. /\ s[{}] = 0 /\ \A S \in SUBSET D : S # {} => s[S] = f[Some(S)] + s[S \ {Some(S)}]
      /\ t[{}] = 0 /\ \A S \in SUBSET D : S # {} => t[S] = g[Some(S)] + t[S \ {Some(S)}]
  <2>1. \A S \in SUBSET D : S \in SUBSET DOMAIN f /\ S \in SUBSET DOMAIN g
    OBVIOUS
  <2>2. {} \in SUBSET DOMAIN f /\ {} \in SUBSET DOMAIN g
    OBVIOUS
  <2>3. \A S \in SUBSET DOMAIN f : s[S] = IF S = {} THEN 0 ELSE f[Some(S)] + s[S \ {Some(S)}]
    BY DEF Summing, IsSum
  <2>4. \A S \in SUBSET DOMAIN g : t[S] = IF S = {} THEN 0 ELSE g[Some(S)] + t[S \ {Some(S)}]
    BY DEF Summing, IsSum
  <2> QED
    BY <2>1, <2>2, <2>3, <2>4
<1>3. \A S : S # {} => Some(S) \in S
  BY DEF Some
<1>4. 0 \in T
  <2>1. ASSUME NEW S \in SUBSET D, Cardinality(S) <= 0 PROVE s[S] = t[S]
    <3>1. Cardinality(S) \in Nat /\ (Cardinality(S) = 0 <=> S = {})
      BY <1>1
    <3>2. S = {}
      BY <2>1, <3>1
    <3> QED
      BY <1>2, <3>2
  <2> QED
    BY <1>1, <2>1
<1>5. ASSUME NEW k \in 0 .. n, k # n, k \in T PROVE k + 1 \in T
  <2>1. ASSUME NEW S \in SUBSET D, Cardinality(S) <= k + 1 PROVE s[S] = t[S]
    <3>1. CASE S = {}
      BY <1>2, <3>1
    <3>2. CASE S # {}
      <4>1. Some(S) \in S
        BY <1>3, <3>2
      <4>2. Cardinality(S \ {Some(S)}) <= k /\ S \ {Some(S)} \in SUBSET D
        BY <1>0, <2>1, <4>1, WithoutOne
      <4>3. s[S \ {Some(S)}] = t[S \ {Some(S)}]
        BY <1>5, <4>2
      <4>4. f[Some(S)] = g[Some(S)]
        BY <4>1
      <4> QED
        BY <1>2, <3>2, <4>3, <4>4
    <3> QED
      BY <3>1, <3>2
  <2> QED
    BY <1>1, <1>5, <2>1
<1> HIDE DEF T
<1>6. \A k \in 0 .. n : k \in T
  <2> HIDE DEF n
  <2> QED
    BY <1>1, <1>4, <1>5, UpTo
<1>7. n \in T
  BY <1>1, <1>6
<1> QED
  BY <1>1, <1>7 DEF T

\* A sum of counts is a count.
LEMMA SumNat ==
    ASSUME NEW f, Counts(f)
    PROVE  SumOf(f) \in Nat
<1>1. PICK s : IsSum(s, f) /\ SumOf(f) = s[DOMAIN f]
  BY SumOfIs DEF Counts
<1> QED
  BY <1>1, SumsAdd

\* The sum of a function is what one expects: of nothing,
LEMMA SumEmpty ==
    ASSUME NEW f, DOMAIN f = {}
    PROVE  SumOf(f) = 0
<1>1. IsFiniteSet(DOMAIN f)
  BY FS_EmptySet
<1>2. PICK s : IsSum(s, f) /\ SumOf(f) = s[DOMAIN f]
  BY <1>1, SumOfIs
<1> QED
  BY <1>2 DEF Summing, IsSum

\* of the same numbers,
LEMMA SumSame ==
    ASSUME NEW f, Counts(f), NEW g, DOMAIN g = DOMAIN f, \A x \in DOMAIN f : g[x] = f[x]
    PROVE  SumOf(g) = SumOf(f)
<1>1. PICK s : IsSum(s, f) /\ SumOf(f) = s[DOMAIN f]
  BY SumOfIs DEF Counts
<1>2. PICK t : IsSum(t, g) /\ SumOf(g) = t[DOMAIN g]
  BY SumOfIs DEF Counts
<1>3. s[DOMAIN f] = t[DOMAIN f]
  BY <1>1, <1>2, SumsAgree DEF Counts
<1> QED
  BY <1>1, <1>2, <1>3

\* One more is added.
LEMMA SumMore ==
    ASSUME NEW f, Counts(f), NEW g, NEW x, x \notin DOMAIN f, DOMAIN g = DOMAIN f \cup {x},
           \A y \in DOMAIN f : g[y] = f[y], g[x] \in Nat
    PROVE  SumOf(g) = SumOf(f) + g[x]
<1>1. PICK s : IsSum(s, f) /\ SumOf(f) = s[DOMAIN f]
  BY SumOfIs DEF Counts
<1>2. IsFiniteSet(DOMAIN g) /\ Counts(g)
  BY FS_AddElement, Zenon DEF Counts
<1>3. PICK t : IsSum(t, g) /\ SumOf(g) = t[DOMAIN g]
  BY <1>2, SumOfIs
<1>4. s[DOMAIN f] = t[DOMAIN f]
  BY <1>1, <1>3, SumsAgree DEF Counts
<1>5. DOMAIN f \in SUBSET DOMAIN g /\ x \in DOMAIN g \ DOMAIN f
  OBVIOUS
<1>6. t[DOMAIN f \cup {x}] = t[DOMAIN f] + g[x]
  BY <1>2, <1>3, <1>5, SumsPlus
<1> QED
  BY <1>1, <1>3, <1>4, <1>6

\* One is changed.
LEMMA SumChanged ==
    ASSUME NEW f, Counts(f), NEW g, NEW x, x \in DOMAIN f, DOMAIN g = DOMAIN f,
           \A y \in DOMAIN f : y # x => g[y] = f[y], g[x] \in Nat
    PROVE  SumOf(g) + f[x] = SumOf(f) + g[x]
<1> DEFINE D == DOMAIN f \ {x}
<1>1. PICK s : IsSum(s, f) /\ SumOf(f) = s[DOMAIN f]
  BY SumOfIs DEF Counts
<1>2. IsFiniteSet(DOMAIN g) /\ Counts(g)
  BY DEF Counts
<1>3. PICK t : IsSum(t, g) /\ SumOf(g) = t[DOMAIN g]
  BY <1>2, SumOfIs
<1>4. D \in SUBSET DOMAIN f /\ x \in DOMAIN f \ D /\ D \cup {x} = DOMAIN f /\ \A y \in D : f[y] = g[y]
  OBVIOUS
<1>5. s[D] = t[D]
  <2> HIDE DEF D
  <2> QED
    BY <1>1, <1>3, <1>4, SumsAgree DEF Counts
<1>6. s[D \cup {x}] = s[D] + f[x] /\ s[D] \in Nat
  <2> HIDE DEF D
  <2> QED
    BY <1>1, <1>4, SumsPlus DEF Counts
<1>7. t[D \cup {x}] = t[D] + g[x]
  <2>1. D \subseteq DOMAIN g /\ x \in DOMAIN g /\ x \notin D
    BY <1>4
  <2>2. Counts(g) /\ IsSum(t, g)
    BY <1>2, <1>3
  <2> HIDE DEF D
  <2>3. t[D] \in Nat /\ t[D \cup {x}] = t[D] + g[x]
    BY <2>1, <2>2, SumsPlus
  <2> QED
    BY <2>3
<1>8. f[x] \in Nat
  BY DEF Counts
<1> HIDE DEF D
<1>9. s[DOMAIN f] = s[D] + f[x] /\ t[DOMAIN g] = s[D] + g[x]
  BY <1>4, <1>5, <1>6, <1>7
<1> QED
  BY <1>1, <1>3, <1>6, <1>8, <1>9

\* A function on some of its domain.
On(f, S) == [x \in S |-> f[x]]

\* The sum of nothing but zeros is zero.
LEMMA SumZero ==
    ASSUME NEW f, IsFiniteSet(DOMAIN f), \A x \in DOMAIN f : f[x] = 0
    PROVE  SumOf(f) = 0
<1>1. PICK s : IsSum(s, f) /\ SumOf(f) = s[DOMAIN f]
  BY SumOfIs
<1>2. PICK D : D = DOMAIN f
  OBVIOUS
<1>3. PICK t : t = [S \in SUBSET D |-> 0]
  OBVIOUS
<1>4. \A S \in SUBSET D : t[S] = IF S = {} THEN 0 ELSE f[Some(S)] + t[S \ {Some(S)}]
  <2> SUFFICES ASSUME NEW S \in SUBSET D, S # {} PROVE t[S] = f[Some(S)] + t[S \ {Some(S)}]
    BY <1>3
  <2>1. Some(S) \in S
    BY DEF Some
  <2>2. f[Some(S)] = 0 /\ S \ {Some(S)} \in SUBSET D
    BY <1>2, <2>1
  <2> QED
    BY <1>3, <2>2
<1>5. IsSum(t, f)
  <2> DEFINE u == [S \in SUBSET D |-> IF S = {} THEN 0 ELSE f[Some(S)] + t[S \ {Some(S)}]]
  <2>1. u = [S \in SUBSET D |-> u[S]] /\ t = [S \in SUBSET D |-> t[S]]
    BY <1>3
  <2>2. \A S \in SUBSET D : u[S] = t[S]
    BY <1>4
  <2> HIDE DEF u
  <2>3. t = u
    BY <2>1, <2>2
  <2> QED
    BY <1>2, <2>3 DEF IsSum, Summing, u
<1>6. s[D] = t[D]
  <2>1. D \subseteq DOMAIN f /\ \A x \in D : f[x] = f[x]
    BY <1>2
  <2> QED
    BY <1>1, <1>5, <2>1, SumsAgree
<1>7. D \in SUBSET D
  OBVIOUS
<1> QED
  BY <1>1, <1>2, <1>3, <1>6, <1>7

\* The sum on one element more.
LEMMA SumOnMore ==
    ASSUME NEW f, Counts(f), NEW S, S \subseteq DOMAIN f, NEW x \in DOMAIN f, x \notin S,
           NEW V, V = S \cup {x}
    PROVE  /\ Counts(On(f, S)) /\ Counts(On(f, V))
           /\ SumOf(On(f, V)) = SumOf(On(f, S)) + f[x]
<1>1. PICK a, b : a = On(f, S) /\ b = On(f, V)
  OBVIOUS
<1>2. IsFiniteSet(S) /\ IsFiniteSet(V)
  <2>1. V \subseteq DOMAIN f
    OBVIOUS
  <2> QED
    BY <2>1, FS_Subset DEF Counts
<1>3. DOMAIN a = S /\ DOMAIN b = S \cup {x} /\ b[x] = f[x] /\ \A y \in S : a[y] = f[y] /\ b[y] = f[y]
  BY <1>1 DEF On
<1>4. \A y \in DOMAIN f : f[y] \in Nat
  BY DEF Counts
<1>5. Counts(a) /\ Counts(b)
  BY <1>2, <1>3, <1>4 DEF Counts
<1>6. SumOf(b) = SumOf(a) + b[x]
  <2>1. x \notin DOMAIN a /\ DOMAIN b = DOMAIN a \cup {x} /\ (\A y \in DOMAIN a : b[y] = a[y]) /\ b[x] \in Nat
    BY <1>3, <1>4
  <2> QED
    BY <1>5, <2>1, SumMore
<1> QED
  BY <1>1, <1>3, <1>5, <1>6

\* The sum on one element.
LEMMA SumOne ==
    ASSUME NEW f, Counts(f), NEW x, DOMAIN f = {x}
    PROVE  SumOf(f) = f[x]
<1>1. SumOf(On(f, {x})) = SumOf(On(f, {})) + f[x]
  <2>1. {} \subseteq DOMAIN f /\ x \in DOMAIN f /\ x \notin {} /\ {x} = {} \cup {x}
    OBVIOUS
  <2> QED
    BY <2>1, SumOnMore
<1>2. SumOf(On(f, {})) = 0
  BY SumEmpty DEF On
<1>3. SumOf(On(f, {x})) = SumOf(f)
  <2>1. DOMAIN On(f, {x}) = DOMAIN f /\ \A y \in DOMAIN f : On(f, {x})[y] = f[y]
    BY DEF On
  <2> QED
    BY <2>1, SumSame
<1>4. f[x] \in Nat
  BY DEF Counts
<1> QED
  BY <1>1, <1>2, <1>3, <1>4

\* The elements of a group.
Group(S, key, k) == {x \in S : key[x] = k}

\* The sum of each group.
GroupSums(f, key, K, S) == [k \in K |-> SumOf(On(f, Group(S, key, k)))]

\* One element more adds to one group.
LEMMA GroupsMore ==
    ASSUME NEW f, Counts(f), NEW key, NEW K, IsFiniteSet(K), \A x \in DOMAIN f : key[x] \in K,
           NEW S, S \subseteq DOMAIN f, NEW x \in DOMAIN f, x \notin S, NEW V, V = S \cup {x}
    PROVE  SumOf(GroupSums(f, key, K, V)) = SumOf(GroupSums(f, key, K, S)) + f[x]
<1>1. PICK a, b : a = GroupSums(f, key, K, S) /\ b = GroupSums(f, key, K, V)
  OBVIOUS
<1>2. DOMAIN a = K /\ DOMAIN b = K
  BY <1>1 DEF GroupSums
<1>3. \A k \in K : a[k] = SumOf(On(f, Group(S, key, k))) /\ b[k] = SumOf(On(f, Group(V, key, k)))
  BY <1>1 DEF GroupSums
<1>4. PICK n \in K : n = key[x]
  OBVIOUS
<1>5. \A k \in K : k # n => Group(V, key, k) = Group(S, key, k)
  BY <1>4 DEF Group
<1>6. Group(V, key, n) = Group(S, key, n) \cup {x} /\ x \notin Group(S, key, n)
  BY <1>4 DEF Group
<1>7. \A U : U \subseteq DOMAIN f => Counts(On(f, U))
  <2> SUFFICES ASSUME NEW U, U \subseteq DOMAIN f PROVE Counts(On(f, U))
    OBVIOUS
  <2>1. IsFiniteSet(U) /\ \A y \in U : f[y] \in Nat
    BY FS_Subset DEF Counts
  <2> QED
    BY <2>1 DEF Counts, On
<1>8. \A k \in K : a[k] \in Nat /\ b[k] \in Nat
  <2> SUFFICES ASSUME NEW k \in K PROVE a[k] \in Nat /\ b[k] \in Nat
    OBVIOUS
  <2>1. Group(S, key, k) \subseteq DOMAIN f /\ Group(V, key, k) \subseteq DOMAIN f
    BY DEF Group
  <2>2. Counts(On(f, Group(S, key, k))) /\ Counts(On(f, Group(V, key, k)))
    BY <1>7, <2>1
  <2> QED
    BY <1>3, <2>2, SumNat
<1>9. Counts(a) /\ \A k \in DOMAIN a : k # n => b[k] = a[k]
  <2>1. Counts(a)
    BY <1>2, <1>8 DEF Counts
  <2> QED
    BY <1>2, <1>3, <1>5, <2>1
<1>10. SumOf(b) + a[n] = SumOf(a) + b[n]
  BY <1>2, <1>8, <1>9, SumChanged
<1>11. b[n] = a[n] + f[x]
  <2>1. Group(S, key, n) \subseteq DOMAIN f
    BY DEF Group
  <2>2. SumOf(On(f, Group(V, key, n))) = SumOf(On(f, Group(S, key, n))) + f[x]
    BY <1>6, <2>1, SumOnMore
  <2> QED
    BY <1>3, <2>2
<1>12. SumOf(a) \in Nat /\ SumOf(b) \in Nat /\ a[n] \in Nat /\ f[x] \in Nat
  <2>1. Counts(b)
    BY <1>2, <1>8 DEF Counts
  <2>2. f[x] \in Nat
    BY DEF Counts
  <2> QED
    BY <1>8, <1>9, <2>1, <2>2, SumNat
<1>13. SumOf(b) = SumOf(a) + f[x]
  BY <1>10, <1>11, <1>12
<1> QED
  BY <1>1, <1>13

\* The sums of the groups add up to the sum.
LEMMA SumGrouped ==
    ASSUME NEW f, Counts(f), NEW key, NEW K, IsFiniteSet(K), \A x \in DOMAIN f : key[x] \in K
    PROVE  SumOf(GroupSums(f, key, K, DOMAIN f)) = SumOf(f)
<1>1. PICK D : D = DOMAIN f
  OBVIOUS
<1>2. PICK n : n = Cardinality(D)
  OBVIOUS
<1>3. IsFiniteSet(D) /\ n \in Nat
  BY <1>1, <1>2, FS_CardinalityType DEF Counts
<1>4. \A S \in SUBSET D : IsFiniteSet(S) /\ Cardinality(S) \in Nat /\ Cardinality(S) <= n /\ (Cardinality(S) = 0 => S = {})
  <2>1. \A S \in SUBSET D : IsFiniteSet(S) /\ Cardinality(S) <= Cardinality(D)
    BY <1>3, FS_Subset
  <2> QED
    BY <1>2, <2>1, FS_CardinalityType, FS_EmptySet
<1> DEFINE Same(S) == SumOf(GroupSums(f, key, K, S)) = SumOf(On(f, S))
           T == {k \in 0 .. n : \A S \in SUBSET D : Cardinality(S) <= k => Same(S)}
<1>5. Same({})
  <2>1. SumOf(On(f, {})) = 0
    BY SumEmpty DEF On
  <2>2. PICK g : g = GroupSums(f, key, K, {})
    OBVIOUS
  <2>3. DOMAIN g = K /\ \A k \in K : g[k] = SumOf(On(f, {}))
    BY <2>2 DEF GroupSums, Group
  <2>4. SumOf(g) = 0
    BY <2>1, <2>3, SumZero
  <2> QED
    BY <2>1, <2>2, <2>4
<1>6. ASSUME NEW S \in SUBSET D, NEW x \in S, Same(S \ {x}) PROVE Same(S)
  <2>1. PICK U : U = S \ {x}
    OBVIOUS
  <2>2. U \subseteq DOMAIN f /\ x \in DOMAIN f /\ x \notin U /\ S = U \cup {x}
    BY <1>1, <1>6, <2>1
  <2>3. SumOf(GroupSums(f, key, K, S)) = SumOf(GroupSums(f, key, K, U)) + f[x]
    BY <2>2, GroupsMore
  <2>4. SumOf(On(f, S)) = SumOf(On(f, U)) + f[x]
    BY <2>2, SumOnMore
  <2> QED
    BY <1>6, <2>1, <2>3, <2>4
<1>7. 0 \in T
  <2>1. ASSUME NEW S \in SUBSET D, Cardinality(S) <= 0 PROVE S = {}
    BY <1>4, <2>1
  <2> HIDE DEF Same
  <2>2. \A S \in SUBSET D : Cardinality(S) <= 0 => Same(S)
    BY <1>5, <2>1
  <2> QED
    BY <1>3, <2>2
<1>8. ASSUME NEW k \in 0 .. n, k # n, k \in T PROVE k + 1 \in T
  <2> HIDE DEF Same
  <2>1. ASSUME NEW S \in SUBSET D, Cardinality(S) <= k + 1 PROVE Same(S)
    <3>1. CASE S = {}
      BY <1>5, <3>1
    <3>2. CASE S # {}
      <4>1. PICK x \in S : TRUE
        BY <3>2
      <4>2. Cardinality(S \ {x}) = Cardinality(S) - 1 /\ S \ {x} \in SUBSET D
        BY <1>3, <4>1, WithoutOne
      <4>3. Cardinality(S \ {x}) <= k
        BY <1>3, <1>4, <2>1, <4>2
      <4>4. Same(S \ {x})
        BY <1>8, <4>2, <4>3
      <4> QED
        BY <1>6, <4>1, <4>4
    <3> QED
      BY <3>1, <3>2
  <2> QED
    BY <1>3, <1>8, <2>1
<1>9. Same(D)
  <2> HIDE DEF T
  <2>1. \A k \in 0 .. n : k \in T
    BY <1>3, <1>7, <1>8, UpTo
  <2>2. n \in T
    BY <1>3, <2>1
  <2> HIDE DEF Same
  <2>3. \A S \in SUBSET D : Cardinality(S) <= n => Same(S)
    BY <2>2 DEF T
  <2> QED
    BY <1>4, <2>3
<1>10. SumOf(On(f, D)) = SumOf(f)
  <2>1. DOMAIN On(f, D) = DOMAIN f /\ \A y \in DOMAIN f : On(f, D)[y] = f[y]
    BY <1>1 DEF On
  <2> QED
    BY <2>1, SumSame
<1> QED
  BY <1>1, <1>9, <1>10

\* A sum is that of other names for the same values.
LEMMA SumRenamed ==
    ASSUME NEW f, Counts(f), NEW h, IsFiniteSet(DOMAIN h), NEW b,
           \A x \in DOMAIN f : b[x] \in DOMAIN h /\ h[b[x]] = f[x],
           \A e \in DOMAIN h : \E x \in DOMAIN f : b[x] = e,
           \A x, y \in DOMAIN f : b[x] = b[y] => x = y
    PROVE  Counts(h) /\ SumOf(h) = SumOf(f)
<1>1. PICK K, g : K = DOMAIN h /\ g = GroupSums(f, b, K, DOMAIN f)
  OBVIOUS
<1>2. DOMAIN g = K /\ \A k \in K : g[k] = SumOf(On(f, Group(DOMAIN f, b, k)))
  BY <1>1 DEF GroupSums
<1>3. \A x \in DOMAIN f : f[x] \in Nat
  BY DEF Counts
<1>4. ASSUME NEW k \in K PROVE g[k] = h[k] /\ h[k] \in Nat
  <2>1. PICK x \in DOMAIN f : b[x] = k
    BY <1>1
  <2>2. Group(DOMAIN f, b, k) = {x}
    BY <2>1 DEF Group
  <2>3. PICK u : u = On(f, {x})
    OBVIOUS
  <2>4. DOMAIN u = {x} /\ u[x] = f[x]
    BY <2>3 DEF On
  <2>5. Counts(u)
    <3>1. IsFiniteSet({x})
      BY FS_Singleton
    <3> QED
      BY <1>3, <2>4, <3>1 DEF Counts
  <2>6. SumOf(u) = f[x]
    BY <2>4, <2>5, SumOne
  <2> QED
    BY <1>2, <1>3, <2>1, <2>2, <2>3, <2>6
<1>5. SumOf(g) = SumOf(f)
  BY <1>1, SumGrouped
<1>6. Counts(h) /\ Counts(g)
  BY <1>1, <1>2, <1>4 DEF Counts
<1>7. SumOf(h) = SumOf(g)
  BY <1>1, <1>2, <1>4, <1>6, SumSame
<1> QED
  BY <1>5, <1>6, <1>7

\* A set of values of a function on a finite set is finite.
LEMMA FiniteImage ==
    ASSUME NEW S, IsFiniteSet(S), NEW T, NEW f, \A y \in T : \E x \in S : f[x] = y
    PROVE  IsFiniteSet(T)
<1>1. PICK U : U = {x \in S : f[x] \in T}
  OBVIOUS
<1>2. IsFiniteSet(U)
  BY <1>1, FS_Subset
<1>3. PICK g : g = [x \in U |-> f[x]]
  OBVIOUS
<1>4. g \in Surjection(U, T)
  BY <1>1, <1>3 DEF Surjection
<1> QED
  BY <1>2, <1>4, FS_Surjection
=============================================================================
