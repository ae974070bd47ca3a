--------------------------- MODULE InsightsProofs ---------------------------
(***************************************************************************)
(* Theorems about Insights, for any number of sessions, of any length.     *)
(*                                                                         *)
(* What was typed at one time is in a session and in its forks only, with  *)
(* the time in its id (History).  The prompts that distill keeps are then  *)
(* those that were typed, each once; and as its clusters never change what *)
(* they take, a text goes to the same one wherever it was typed.  The      *)
(* parser's ids and distill's keys of the steps differ by the same for all *)
(* of a session (Joined), so that prompts and steps meet as they should.   *)
(* The reports' sums count the responses, group by group, and their        *)
(* windows are the beginnings of lists that lead away from a commit.       *)
(***************************************************************************)
EXTENDS Insights, ListFacts, FiniteSetTheorems, SequenceTheorems

-----------------------------------------------------------------------------
(* What FlattenSeq and a stable sort make of their sequences. *)

IsFlat(f, seqs) ==
    f = [i \in 1 .. Len(seqs) |-> IF i = 1 THEN seqs[i] ELSE f[i - 1] \o seqs[i]]

\* What has been flattened after each of the sequences exists, and the last is all.
LEMMA FlattenIs ==
    ASSUME NEW S, NEW seqs \in Seq(Seq(S)), Len(seqs) # 0
    PROVE  \E f : IsFlat(f, seqs) /\ FlattenSeq(seqs) = f[Len(seqs)]
<1> DEFINE N == Len(seqs)
           step == [x \in Seq(S) \X (1 .. N - 1) |-> x[1] \o seqs[x[2] + 1]]
<1>1. N \in Nat /\ N - 1 \in Nat /\ 1 \in 1 .. N /\ \A i \in 1 .. N : seqs[i] \in Seq(S)
  OBVIOUS
<1>2. ASSUME NEW i \in 1 .. N - 1, NEW s \in Seq(S)
      PROVE  step[<<s, i>>] = s \o seqs[i + 1] /\ step[<<s, i>>] \in Seq(S)
  <2>1. i + 1 \in 1 .. N
    BY <1>1
  <2>2. seqs[i + 1] \in Seq(S)
    BY <1>1, <2>1
  <2>3. PICK x \in Seq(S) \X (1 .. N - 1) : x = <<s, i>> /\ x[1] = s /\ x[2] = i
    <3>1. <<s, i>> \in Seq(S) \X (1 .. N - 1)
      OBVIOUS
    <3>2. <<s, i>>[1] = s /\ <<s, i>>[2] = i
      OBVIOUS
    <3> HIDE DEF N, step
    <3> QED
      BY <3>1, <3>2
  <2>4. step[x] = x[1] \o seqs[x[2] + 1]
    OBVIOUS
  <2>5. s \o seqs[i + 1] \in Seq(S)
    BY <2>2
  <2> HIDE DEF step
  <2> QED
    BY <2>3, <2>4, <2>5
<1>3. PICK n : n = N - 1
  OBVIOUS
<1>4. \E g \in [0 .. n -> Seq(S)] : IsLoop(g, n, seqs[1], step)
  <2>1. PICK base, T, body : base = seqs[1] /\ T = Seq(S) /\ body = step
    OBVIOUS
  <2>2. n \in Nat
    BY <1>1, <1>3
  <2>3. base \in T
    BY <1>1, <2>1
  <2>4. Within(body, n, T)
    BY <1>2, <1>3, <2>1 DEF Within
  <2> HIDE DEF step
  <2>5. \E g \in [0 .. n -> T] : IsLoop(g, n, base, body)
    BY <2>2, <2>3, <2>4, LoopExists
  <2> QED
    BY <2>1, <2>5
<1>5. PICK g \in [0 .. n -> Seq(S)] : g[0] = seqs[1] /\ \A i \in 1 .. n : g[i] = step[<<g[i - 1], i>>]
  BY <1>4 DEF IsLoop
<1> DEFINE h == [i \in 1 .. N |-> g[i - 1]]
<1> HIDE DEF step
<1>6. ASSUME NEW i \in 1 .. N PROVE h[i] = IF i = 1 THEN seqs[i] ELSE h[i - 1] \o seqs[i]
  <2>1. h[i] = g[i - 1] /\ i - 1 \in 0 .. n
    BY <1>1, <1>3
  <2>2. CASE i = 1
    <3>1. g[0] = seqs[1]
      BY <1>1, <1>3, <1>5
    <3> QED
      BY <2>1, <2>2, <3>1
  <2>3. CASE i # 1
    <3>1. i - 1 \in 1 .. n /\ i - 1 \in 1 .. N - 1 /\ i - 1 # 0 /\ i - 1 + 1 = i /\ i - 1 - 1 \in 0 .. n
            /\ i - 1 \in 1 .. N
      BY <1>1, <1>3, <2>3
    <3>2. g[i - 1] = step[<<g[i - 1 - 1], i - 1>>]
      BY <1>5, <2>1, <3>1
    <3>3. g[i - 1 - 1] \in Seq(S)
      BY <1>5, <3>1
    <3>4. step[<<g[i - 1 - 1], i - 1>>] = g[i - 1 - 1] \o seqs[i - 1 + 1]
      BY <1>2, <3>1, <3>3
    <3>5. h[i - 1] = g[i - 1 - 1]
      BY <3>1
    <3> QED
      BY <2>1, <2>3, <3>1, <3>2, <3>4, <3>5
  <2> QED
    BY <2>2, <2>3
<1>7. h = [i \in 1 .. N |-> IF i = 1 THEN seqs[i] ELSE h[i - 1] \o seqs[i]]
  <2>1. h = [i \in 1 .. N |-> h[i]]
    OBVIOUS
  <2> HIDE DEF h
  <2> QED
    BY <1>6, <2>1
<1> HIDE DEF h
<1>8. \E f : f = [i \in 1 .. N |-> IF i = 1 THEN seqs[i] ELSE f[i - 1] \o seqs[i]]
  BY <1>7
<1> DEFINE f == CHOOSE f : f = [i \in 1 .. N |-> IF i = 1 THEN seqs[i] ELSE f[i - 1] \o seqs[i]]
<1>9. f = [i \in 1 .. N |-> IF i = 1 THEN seqs[i] ELSE f[i - 1] \o seqs[i]]
  BY <1>8, Zenon
<1>10. FlattenSeq(seqs) = f[N]
  BY DEF FlattenSeq
<1> HIDE DEF f
<1> QED
  BY <1>9, <1>10 DEF IsFlat

\* The entries of all the sequences, and nothing else.
Holds(flat, seqs, n) ==
    /\ \A m \in 1 .. Len(flat) : \E i \in 1 .. n : \E j \in 1 .. Len(seqs[i]) : flat[m] = seqs[i][j]
    /\ \A i \in 1 .. n : \A j \in 1 .. Len(seqs[i]) : \E m \in 1 .. Len(flat) : flat[m] = seqs[i][j]

\* One sequence more.
LEMMA HoldsMore ==
    ASSUME NEW S, NEW seqs \in Seq(Seq(S)), NEW n \in Nat, n + 1 \in 1 .. Len(seqs),
           NEW p \in Seq(S), Holds(p, seqs, n), NEW q, q = p \o seqs[n + 1]
    PROVE  q \in Seq(S) /\ Holds(q, seqs, n + 1)
<1>1. PICK r \in Seq(S) : r = seqs[n + 1]
  OBVIOUS
<1>2. /\ q \in Seq(S) /\ Len(q) = Len(p) + Len(r) /\ Len(p) \in Nat /\ Len(r) \in Nat
      /\ \A m \in 1 .. Len(p) : q[m] = p[m]
      /\ \A m \in 1 .. Len(r) : q[Len(p) + m] = r[m]
  BY <1>1
<1>3. ASSUME NEW m \in 1 .. Len(q)
      PROVE  \E i \in 1 .. n + 1 : \E j \in 1 .. Len(seqs[i]) : q[m] = seqs[i][j]
  <2>1. CASE m <= Len(p)
    <3>1. m \in 1 .. Len(p)
      BY <1>2, <2>1
    <3>2. PICK i \in 1 .. n : \E j \in 1 .. Len(seqs[i]) : p[m] = seqs[i][j]
      BY <3>1 DEF Holds
    <3>3. i \in 1 .. n + 1 /\ q[m] = p[m]
      BY <1>2, <3>1
    <3> QED
      BY <3>2, <3>3
  <2>2. CASE ~(m <= Len(p))
    <3>1. PICK j \in 1 .. Len(r) : m = Len(p) + j
      <4>1. m - Len(p) \in 1 .. Len(r) /\ m = Len(p) + (m - Len(p))
        BY <1>2, <2>2
      <4> QED
        BY <4>1
    <3>2. q[m] = seqs[n + 1][j] /\ j \in 1 .. Len(seqs[n + 1]) /\ n + 1 \in 1 .. n + 1
      BY <1>1, <1>2, <3>1
    <3> QED
      BY <3>2
  <2> QED
    BY <2>1, <2>2
<1>4. ASSUME NEW i \in 1 .. n + 1, NEW j \in 1 .. Len(seqs[i])
      PROVE  \E m \in 1 .. Len(q) : q[m] = seqs[i][j]
  <2>1. CASE i = n + 1
    <3>1. j \in 1 .. Len(r) /\ seqs[i][j] = r[j]
      BY <1>1, <2>1
    <3>2. Len(p) + j \in 1 .. Len(q) /\ q[Len(p) + j] = r[j]
      BY <1>2, <3>1
    <3> QED
      BY <3>1, <3>2
  <2>2. CASE i # n + 1
    <3>1. i \in 1 .. n
      BY <2>2
    <3>2. PICK m \in 1 .. Len(p) : p[m] = seqs[i][j]
      BY <3>1 DEF Holds
    <3>3. m \in 1 .. Len(q) /\ q[m] = p[m]
      BY <1>2
    <3> QED
      BY <3>2, <3>3
  <2> QED
    BY <2>1, <2>2
<1> QED
  BY <1>2, <1>3, <1>4 DEF Holds

\* A flattened sequence has the entries of all the sequences.
LEMMA FlattenRange ==
    ASSUME NEW S, NEW seqs \in Seq(Seq(S))
    PROVE  FlattenSeq(seqs) \in Seq(S) /\ Holds(FlattenSeq(seqs), seqs, Len(seqs))
<1>1. PICK N \in Nat : N = Len(seqs)
  OBVIOUS
<1>2. CASE N = 0
  <2>1. seqs = <<>> /\ FlattenSeq(seqs) = <<>> /\ Len(seqs) = 0
    <3>1. Len(seqs) = 0
      BY <1>1, <1>2
    <3>2. seqs = <<>>
      BY <3>1
    <3>3. FlattenSeq(seqs) = seqs
      BY <3>1 DEF FlattenSeq
    <3> QED
      BY <3>1, <3>2, <3>3
  <2>2. <<>> \in Seq(S) /\ Holds(<<>>, seqs, 0)
    BY DEF Holds
  <2> QED
    BY <2>1, <2>2
<1>3. CASE N # 0
  <2>1. PICK f : IsFlat(f, seqs) /\ FlattenSeq(seqs) = f[N]
    BY <1>1, <1>3, FlattenIs
  <2>2. \A i \in 1 .. N : f[i] = IF i = 1 THEN seqs[i] ELSE f[i - 1] \o seqs[i]
    BY <1>1, <2>1 DEF IsFlat
  <2> DEFINE T == {k \in 0 .. N : k # 0 => f[k] \in Seq(S) /\ Holds(f[k], seqs, k)}
  <2>3. 0 \in T
    BY <1>1
  <2>4. ASSUME NEW k \in 0 .. N, k # N, k \in T PROVE k + 1 \in T
    <3>1. k \in Nat /\ k + 1 \in 1 .. N /\ k + 1 \in 0 .. N /\ k + 1 - 1 = k
      BY <1>1, <2>4
    <3>2. CASE k = 0
      <4>1. f[k + 1] = seqs[1]
        BY <2>2, <3>1, <3>2
      <4>2. <<>> \in Seq(S) /\ Holds(<<>>, seqs, 0)
        BY DEF Holds
      <4>3. seqs[1] = <<>> \o seqs[0 + 1] /\ 0 + 1 \in 1 .. Len(seqs)
        BY <1>1, <3>1, <3>2
      <4>4. seqs[1] \in Seq(S) /\ Holds(seqs[1], seqs, 0 + 1)
        BY <4>2, <4>3, HoldsMore
      <4> QED
        BY <3>1, <3>2, <4>1, <4>4
    <3>3. CASE k # 0
      <4>1. f[k + 1] = f[k] \o seqs[k + 1]
        <5>1. k + 1 # 1
          BY <3>1, <3>3
        <5>2. PICK m : m = k + 1
          OBVIOUS
        <5>3. m \in 1 .. N /\ m # 1 /\ m - 1 = k
          BY <3>1, <5>1, <5>2
        <5>4. f[m] = f[m - 1] \o seqs[m]
          BY <2>2, <5>3
        <5> QED
          BY <5>2, <5>3, <5>4
      <4>2. PICK p, q : p = f[k] /\ q = f[k + 1]
        OBVIOUS
      <4>3. p \in Seq(S) /\ Holds(p, seqs, k) /\ q = p \o seqs[k + 1]
        BY <2>4, <3>3, <4>1, <4>2
      <4>4. q \in Seq(S) /\ Holds(q, seqs, k + 1)
        BY <1>1, <3>1, <4>3, HoldsMore
      <4> QED
        BY <3>1, <4>2, <4>4
    <3> QED
      BY <3>2, <3>3
  <2>5. N \in T
    <3> HIDE DEF T
    <3>1. \A k \in 0 .. N : k \in T
      BY <1>1, <2>3, <2>4, UpTo
    <3> QED
      BY <1>1, <3>1
  <2> QED
    BY <1>1, <1>3, <2>1, <2>5
<1> QED
  BY <1>2, <1>3

\* Whether the j-th of some numbers comes no later than the i-th.
NoLater(keys, j, i) == keys[j] > keys[i] \/ (keys[j] = keys[i] /\ j <= i)

Keys(keys, N) == DOMAIN keys = 1 .. N /\ \A i \in 1 .. N : keys[i] \in Int

\* Places are numbered from one, in the order in which they come.
LEMMA Ranks ==
    ASSUME NEW N \in Nat, NEW keys, Keys(keys, N)
    PROVE  /\ \A i \in 1 .. N : Rank(keys, i) \in 1 .. N
           /\ \A i, j \in 1 .. N : i # j /\ NoLater(keys, j, i) => Rank(keys, j) < Rank(keys, i)
<1>0. DOMAIN keys = 1 .. N /\ \A i \in 1 .. N : keys[i] \in Int
  BY DEF Keys
<1> DEFINE Upto(i) == {j \in 1 .. N : NoLater(keys, j, i)}
<1>1. ASSUME NEW i \in 1 .. N PROVE Rank(keys, i) = Cardinality(Upto(i))
  BY <1>0 DEF Rank, NoLater
<1>2. IsFiniteSet(1 .. N) /\ Cardinality(1 .. N) = N
  BY FS_Interval
<1>3. ASSUME NEW i \in 1 .. N
      PROVE  IsFiniteSet(Upto(i)) /\ Cardinality(Upto(i)) \in 1 .. N
  <2>1. Upto(i) \in SUBSET (1 .. N) /\ i \in Upto(i)
    BY DEF NoLater
  <2> HIDE DEF Upto
  <2>2. IsFiniteSet(Upto(i)) /\ Cardinality(Upto(i)) <= N
    BY <1>2, <2>1, FS_Subset
  <2>3. Cardinality(Upto(i)) \in Nat /\ Cardinality(Upto(i)) # 0
    BY <2>1, <2>2, FS_CardinalityType, FS_EmptySet
  <2> QED
    BY <2>2, <2>3
<1>4. ASSUME NEW i \in 1 .. N, NEW j \in 1 .. N, i # j, NoLater(keys, j, i)
      PROVE  Cardinality(Upto(j)) < Cardinality(Upto(i))
  <2>1. \A k \in 1 .. N : NoLater(keys, k, j) => NoLater(keys, k, i)
    <3> SUFFICES ASSUME NEW k \in 1 .. N, NoLater(keys, k, j) PROVE NoLater(keys, k, i)
      OBVIOUS
    <3>1. keys[i] \in Int /\ keys[j] \in Int /\ keys[k] \in Int
      BY <1>0
    <3> QED
      BY <1>4, <3>1 DEF NoLater
  <2>2. ~NoLater(keys, i, j)
    <3>1. keys[i] \in Int /\ keys[j] \in Int
      BY <1>0
    <3> QED
      BY <1>4, <3>1 DEF NoLater
  <2>3. Upto(j) \in SUBSET Upto(i) /\ i \notin Upto(j) /\ i \in Upto(i)
    <3>1. NoLater(keys, i, i)
      BY DEF NoLater
    <3> QED
      BY <2>1, <2>2, <3>1
  <2> HIDE DEF Upto
  <2>4. IsFiniteSet(Upto(i)) /\ Cardinality(Upto(i)) \in 1 .. N /\ Cardinality(Upto(j)) \in 1 .. N
    BY <1>3
  <2>5. Cardinality(Upto(j)) <= Cardinality(Upto(i)) /\ Upto(j) # Upto(i)
    BY <2>3, <2>4, FS_Subset
  <2>6. Cardinality(Upto(i)) # Cardinality(Upto(j))
    BY <2>3, <2>4, <2>5, FS_Subset
  <2> QED
    BY <2>4, <2>5, <2>6
<1> HIDE DEF Upto
<1>5. \A i \in 1 .. N : Rank(keys, i) \in 1 .. N
  BY <1>1, <1>3
<1>6. ASSUME NEW i \in 1 .. N, NEW j \in 1 .. N, i # j, NoLater(keys, j, i)
      PROVE  Rank(keys, j) < Rank(keys, i)
  BY <1>1, <1>4, <1>6
<1> QED
  BY <1>5, <1>6

\* Every number up to the length is the rank of one place.
LEMMA RanksAll ==
    ASSUME NEW N \in Nat, NEW keys, Keys(keys, N)
    PROVE  /\ \A n \in 1 .. N : \E i \in 1 .. N : Rank(keys, i) = n
           /\ \A i, j \in 1 .. N : Rank(keys, i) = Rank(keys, j) => i = j
<1>1. /\ \A i \in 1 .. N : Rank(keys, i) \in 1 .. N
      /\ \A i, j \in 1 .. N : i # j /\ NoLater(keys, j, i) => Rank(keys, j) < Rank(keys, i)
  BY Ranks
<1>2. ASSUME NEW i \in 1 .. N, NEW j \in 1 .. N, Rank(keys, i) = Rank(keys, j) PROVE i = j
  <2>1. NoLater(keys, i, j) \/ NoLater(keys, j, i)
    <3>1. keys[i] \in Int /\ keys[j] \in Int
      BY DEF Keys
    <3> QED
      BY <3>1 DEF NoLater
  <2>2. ~(Rank(keys, i) < Rank(keys, j)) /\ ~(Rank(keys, j) < Rank(keys, i))
    <3>1. Rank(keys, i) \in Nat
      BY <1>1
    <3> QED
      BY <1>2, <3>1
  <2>3. CASE i # j
    BY <1>1, <2>1, <2>2, <2>3
  <2> QED
    BY <2>3
<1>3. PICK r : r = [i \in 1 .. N |-> Rank(keys, i)]
  OBVIOUS
<1>4. r \in [1 .. N -> 1 .. N] /\ DOMAIN r = 1 .. N /\ \A i \in 1 .. N : r[i] = Rank(keys, i)
  BY <1>1, <1>3
<1>5. r \in Injection(1 .. N, 1 .. N)
  <2>1. \A a, b \in DOMAIN r : r[a] = r[b] => a = b
    BY <1>2, <1>4
  <2> QED
    BY <1>4, <2>1 DEF Injection, IsInjective
<1>6. IsFiniteSet(1 .. N)
  BY FS_Interval
<1>7. r \in Surjection(1 .. N, 1 .. N)
  BY <1>5, <1>6, FS_Injection
<1>8. \A n \in 1 .. N : \E i \in 1 .. N : r[i] = n
  BY <1>7 DEF Surjection
<1> QED
  BY <1>2, <1>4, <1>8

\* Where the entries of an ordered sequence come from: each from its own place,
\* none is lost, and none precedes what comes before it.
Arranges(p, N, keys) ==
    /\ p \in [1 .. N -> 1 .. N]
    /\ \A i \in 1 .. N : \E n \in 1 .. N : p[n] = i
    /\ \A m, n \in 1 .. N : m < n => NoLater(keys, p[m], p[n]) /\ p[m] # p[n]

\* An ordered sequence is the other one arranged.
LEMMA OrderedPlaces ==
    ASSUME NEW S, NEW seq \in Seq(S), NEW keys, DOMAIN keys = 1 .. Len(seq),
           \A i \in 1 .. Len(seq) : keys[i] \in Int, NEW sorted, sorted = Ordered(seq, keys)
    PROVE  /\ sorted \in Seq(S) /\ Len(sorted) = Len(seq)
           /\ \E p : Arranges(p, Len(seq), keys) /\ \A n \in 1 .. Len(seq) : sorted[n] = seq[p[n]]
<1>1. PICK N \in Nat : N = Len(seq) /\ DOMAIN seq = 1 .. N
  OBVIOUS
<1>0. Keys(keys, N)
  BY <1>1 DEF Keys
<1>2. /\ \A n \in 1 .. N : \E i \in 1 .. N : Rank(keys, i) = n
      /\ \A i, j \in 1 .. N : Rank(keys, i) = Rank(keys, j) => i = j
  BY <1>0, RanksAll
<1>3. PICK p : p = [n \in 1 .. N |-> CHOOSE i \in 1 .. N : Rank(keys, i) = n]
  OBVIOUS
<1>4. \A n \in 1 .. N : p[n] \in 1 .. N /\ Rank(keys, p[n]) = n
  BY <1>2, <1>3
<1>5. sorted = [n \in 1 .. N |-> seq[p[n]]]
  <2>1. sorted = [n \in 1 .. N |-> seq[CHOOSE i \in 1 .. N : Rank(keys, i) = n]]
    BY <1>1 DEF Ordered
  <2>2. \A n \in 1 .. N : p[n] = CHOOSE i \in 1 .. N : Rank(keys, i) = n
    BY <1>3
  <2> QED
    BY <2>1, <2>2
<1>6. \A i \in 1 .. N : seq[i] \in S
  BY <1>1
<1>7. sorted \in Seq(S) /\ Len(sorted) = N /\ \A n \in 1 .. N : sorted[n] = seq[p[n]]
  <2>1. \A n \in 1 .. N : seq[p[n]] \in S
    BY <1>4, <1>6
  <2> QED
    BY <1>5, <2>1
<1>8. /\ \A i \in 1 .. N : Rank(keys, i) \in 1 .. N
      /\ \A i, j \in 1 .. N : i # j /\ NoLater(keys, j, i) => Rank(keys, j) < Rank(keys, i)
  BY <1>0, Ranks
<1>9. Arranges(p, N, keys)
  <2>1. p \in [1 .. N -> 1 .. N]
    <3>1. p = [n \in 1 .. N |-> p[n]]
      BY <1>3
    <3> QED
      BY <1>4, <3>1
  <2>2. ASSUME NEW i \in 1 .. N PROVE \E n \in 1 .. N : p[n] = i
    <3>1. PICK n \in 1 .. N : n = Rank(keys, i)
      BY <1>8
    <3>2. p[n] \in 1 .. N /\ Rank(keys, p[n]) = n
      BY <1>4
    <3>3. p[n] = i
      BY <1>2, <3>1, <3>2
    <3> QED
      BY <3>3
  <2>3. ASSUME NEW m \in 1 .. N, NEW n \in 1 .. N, m < n
        PROVE  NoLater(keys, p[m], p[n]) /\ p[m] # p[n]
    <3>1. PICK a, b : a = p[m] /\ b = p[n]
      OBVIOUS
    <3>2. a \in 1 .. N /\ b \in 1 .. N /\ Rank(keys, a) = m /\ Rank(keys, b) = n
      BY <1>4, <3>1
    <3>3. a # b
      BY <2>3, <3>2
    <3>4. keys[a] \in Int /\ keys[b] \in Int
      BY <1>1, <3>2
    <3>5. NoLater(keys, a, b) \/ NoLater(keys, b, a)
      BY <3>2, <3>4 DEF NoLater
    <3>6. ~NoLater(keys, b, a)
      <4>1. ~(n < m)
        BY <2>3
      <4> QED
        BY <1>8, <3>2, <3>3, <4>1
    <3> QED
      BY <3>1, <3>3, <3>5, <3>6
  <2> QED
    BY <2>1, <2>2, <2>3 DEF Arranges
<1> QED
  BY <1>1, <1>7, <1>9

-----------------------------------------------------------------------------
(* The history of the sessions. *)

\* A step as it is in the history.
Recorded ==
    [text : {t.text : t \in Turns}, model : {t.model : t \in Turns} \cup {NoModel},
     responses : {t.responses : t \in Turns}, tools : {t.tools : t \in Turns},
     aborted : {t.aborted : t \in Turns}, interrupts : {t.interrupts : t \in Turns}, opens : BOOLEAN,
     typed : Nat, id : {"native", "turn", "step"} \X Nat, key : {"native", "turn"} \X Nat]

\* Where agents give ids, a step that was opened has its time as its id and its key.
NamedStep(p) ==
    /\ p.opens = TRUE => p.id = <<"native", p.typed>> /\ p.key = <<"native", p.typed>>
    /\ p.opens = FALSE => p.id[1] # "native"

\* Where they do not, the parser counts the steps and distill those that were opened.
CountedStep(steps, k) ==
    /\ steps[k].id = <<"turn", k - 1>>
    /\ steps[k].opens = TRUE => steps[k].key = <<"turn", IF steps[1].opens = TRUE THEN k - 1 ELSE k - 2>>

\* Only the first step of a session may not have been opened, and has no text then.
StepAt(named, steps, k) ==
    /\ steps[k].opens = FALSE => k = 1 /\ steps[k].text.chars = 0
    /\ IF named = TRUE THEN NamedStep(steps[k]) ELSE CountedStep(steps, k)

Joined(named, steps) ==
    /\ Len(steps) > 0
    /\ \A k \in 1 .. Len(steps) : StepAt(named, steps, k)
    /\ \A j, k \in 1 .. Len(steps) : j < k => steps[j].typed < steps[k].typed

Fields ==
    [adapter : {s.adapter : s \in Starts}, cwd : {s.cwd : s \in Starts}, named : {s.named : s \in Starts},
     id : Nat, root : Nat, started : Nat, updated : Nat, steps : Seq(Recorded),
     subagents : {0}, pr_links : {0}, compactions : {0}]

Session ==
    {s \in Fields : Joined(s.named, s.steps) /\ (s.adapter = "claude" => s.named = TRUE)}

\* The numbers of sessions are their places; a step was typed before now; and what
\* was typed at one time is in the forks of one session only.
HistoryOf(list, t) ==
    /\ list \in Seq(Session)
    /\ t \in Nat
    /\ \A i \in 1 .. Len(list) : list[i].id = i
    /\ \A i \in 1 .. Len(list) : \A k \in 1 .. Len(list[i].steps) : list[i].steps[k].typed < t
    /\ \A i, j \in 1 .. Len(list) :
         \A k \in 1 .. Len(list[i].steps), l \in 1 .. Len(list[j].steps) :
           list[i].steps[k].typed = list[j].steps[l].typed => list[i].root = list[j].root

History == HistoryOf(sessions, now)

\* The fields of a session are of their types.
LEMMA SessionFields ==
    ASSUME NEW s \in Session
    PROVE  /\ s.steps \in Seq(Recorded) /\ s.id \in Nat /\ s.root \in Nat
           /\ s.started \in Nat /\ s.updated \in Nat
           /\ s.adapter \in {x.adapter : x \in Starts} /\ s.named \in {x.named : x \in Starts}
           /\ s.cwd \in {x.cwd : x \in Starts}
<1>1. s \in Fields
  BY DEF Session
<1> QED
  BY <1>1 DEF Fields

\* And its steps are joined.
LEMMA SessionJoined ==
    ASSUME NEW s \in Session
    PROVE  Joined(s.named, s.steps) /\ (s.adapter = "claude" => s.named = TRUE)
  BY DEF Session

\* And those of a step.
LEMMA RecordedFields ==
    ASSUME NEW p \in Recorded
    PROVE  /\ p.typed \in Nat /\ p.id \in {"native", "turn", "step"} \X Nat
           /\ p.key \in {"native", "turn"} \X Nat /\ p.text \in {t.text : t \in Turns}
           /\ p.text.chars \in Nat /\ IsFiniteSet(p.text.words) /\ p.opens \in BOOLEAN
           /\ p.tools \in {t.tools : t \in Turns} /\ p.responses \in {t.responses : t \in Turns}
           /\ p.aborted \in {t.aborted : t \in Turns} /\ p.interrupts \in {t.interrupts : t \in Turns}
<1>1. /\ p.typed \in Nat /\ p.id \in {"native", "turn", "step"} \X Nat
      /\ p.key \in {"native", "turn"} \X Nat /\ p.text \in {t.text : t \in Turns} /\ p.opens \in BOOLEAN
      /\ p.tools \in {t.tools : t \in Turns} /\ p.responses \in {t.responses : t \in Turns}
      /\ p.aborted \in {t.aborted : t \in Turns} /\ p.interrupts \in {t.interrupts : t \in Turns}
  BY DEF Recorded
<1>2. PICK t \in Turns : p.text = t.text
  BY <1>1
<1>3. t.text.chars \in Nat /\ IsFiniteSet(t.text.words)
  BY InsightsAssumption DEF InsightsAssumption
<1> QED
  BY <1>1, <1>2, <1>3

\* Whether a session gives its steps ids, and Claude Code's do.
Starting(start) ==
    start.named \in BOOLEAN /\ (start.adapter = "claude" => start.named = TRUE)

\* The sessions that begin are.
LEMMA StartsAre ==
    ASSUME NEW start \in Starts
    PROVE  Starting(start)
<1>1. start.named \in BOOLEAN /\ (start.adapter = "claude" => start.named)
  BY InsightsAssumption DEF InsightsAssumption
<1>2. start.named = TRUE \/ start.named = FALSE
  BY <1>1, Zenon
<1>3. CASE start.named = TRUE
  BY <1>3, Zenon DEF Starting
<1>4. CASE start.named = FALSE
  BY <1>1, <1>4, Zenon DEF Starting
<1> QED
  BY <1>2, <1>3, <1>4

\* What is known of a step that is typed now after n steps, `opened' of which were.
TypedNow(p, start, turn, n, opened) ==
    /\ p \in Recorded /\ p.typed = now /\ p.opens = turn.opens
    /\ (p.opens = FALSE => p.text.chars = 0)
    /\ start.named = TRUE => NamedStep(p)
    /\ start.named = FALSE => p.id = <<"turn", n>> /\ p.key = <<"turn", opened>>

\* What is typed now is a step.
LEMMA StepRecorded ==
    ASSUME NEW turn \in Turns, NEW start, Starting(start), NEW steps, NEW n \in Nat, n = Len(steps),
           NEW opened \in Nat, opened = Cardinality({k \in DOMAIN steps : steps[k].opens}),
           now \in Nat, NEW p, p = Step(start, turn, steps)
    PROVE  TypedNow(p, start, turn, n, opened)
<1>1. PICK id, key, model :
        /\ id = IF start.named /\ turn.opens THEN <<"native", now>>
                ELSE <<IF start.adapter = "claude" THEN "step" ELSE "turn", n>>
        /\ key = IF start.named THEN <<"native", now>> ELSE <<"turn", opened>>
        /\ model = IF turn.opens THEN turn.model ELSE NoModel
  OBVIOUS
<1>2. start.named \in BOOLEAN /\ (start.adapter = "claude" => start.named = TRUE)
  BY DEF Starting
<1>3. turn.opens \in BOOLEAN /\ (turn.opens \/ turn.text.chars = 0)
  BY InsightsAssumption DEF InsightsAssumption
<1>4. id \in {"native", "turn", "step"} \X Nat /\ key \in {"native", "turn"} \X Nat
  BY <1>1
<1>5. model \in {t.model : t \in Turns} \cup {NoModel}
  BY <1>1
<1>6. p = [text |-> turn.text, responses |-> turn.responses, tools |-> turn.tools,
           aborted |-> turn.aborted, interrupts |-> turn.interrupts, opens |-> turn.opens,
           model |-> model, typed |-> now, id |-> id, key |-> key]
  BY <1>1, Zenon DEF Step
<1>7. p \in Recorded
  BY <1>3, <1>4, <1>5, <1>6 DEF Recorded
<1>8. p.typed = now /\ p.opens = turn.opens /\ p.text = turn.text /\ p.id = id /\ p.key = key
  BY <1>6
<1>9. p.opens = FALSE => p.text.chars = 0
  BY <1>3, <1>8
<1>10. start.named = TRUE => NamedStep(p)
  <2> SUFFICES ASSUME start.named = TRUE PROVE NamedStep(p)
    OBVIOUS
  <2>1. p.opens = TRUE => p.id = <<"native", p.typed>> /\ p.key = <<"native", p.typed>>
    BY <1>1, <1>8
  <2>2. p.opens = FALSE => p.id[1] # "native"
    BY <1>1, <1>8
  <2> QED
    BY <2>1, <2>2 DEF NamedStep
<1>11. start.named = FALSE => p.id = <<"turn", n>> /\ p.key = <<"turn", opened>>
  BY <1>1, <1>2, <1>8
<1> QED
  BY <1>7, <1>8, <1>9, <1>10, <1>11 DEF TypedNow

\* The first step of a session.
LEMMA JoinedFirst ==
    ASSUME NEW turn \in Turns, NEW start, Starting(start), now \in Nat, NEW p, p = Step(start, turn, <<>>),
           NEW steps, steps = <<p>>
    PROVE  p \in Recorded /\ p.typed = now /\ Joined(start.named, steps)
<1>1. PICK none : none = <<>>
  OBVIOUS
<1>2. Len(none) = 0 /\ {k \in DOMAIN none : none[k].opens} = {}
  BY <1>1
<1>3. Cardinality({k \in DOMAIN none : none[k].opens}) = 0
  BY <1>2, FS_EmptySet
<1>4. TypedNow(p, start, turn, 0, 0)
  <2>1. PICK n \in Nat : n = 0
    OBVIOUS
  <2>2. n = Len(none) /\ n = Cardinality({k \in DOMAIN none : none[k].opens}) /\ p = Step(start, turn, none)
    BY <1>1, <1>2, <1>3, <2>1
  <2>3. TypedNow(p, start, turn, n, n)
    BY <2>2, StepRecorded
  <2> QED
    BY <2>1, <2>3
<1>5. /\ p \in Recorded /\ p.typed = now /\ (p.opens = FALSE => p.text.chars = 0)
      /\ start.named = TRUE => NamedStep(p)
      /\ start.named = FALSE => p.id = <<"turn", 0>> /\ p.key = <<"turn", 0>>
  BY <1>4 DEF TypedNow
<1>6. Len(steps) = 1 /\ steps[1] = p
  OBVIOUS
<1>7. StepAt(start.named, steps, 1)
  <2>1. CASE start.named = TRUE
    BY <1>5, <1>6, <2>1 DEF StepAt
  <2>2. CASE start.named # TRUE
    <3>1. start.named = FALSE
      BY <2>2 DEF Starting
    <3>2. CountedStep(steps, 1)
      BY <1>5, <1>6, <3>1 DEF CountedStep
    <3> QED
      BY <1>5, <1>6, <2>2, <3>2 DEF StepAt
  <2> QED
    BY <2>1, <2>2
<1>8. Joined(start.named, steps)
  <2>1. \A k \in 1 .. Len(steps) : k = 1
    BY <1>6
  <2>2. \A k \in 1 .. Len(steps) : StepAt(start.named, steps, k)
    BY <1>7, <2>1
  <2>3. \A j, k \in 1 .. Len(steps) : ~(j < k)
    BY <1>6
  <2> QED
    BY <1>6, <2>2, <2>3 DEF Joined
<1> QED
  BY <1>5, <1>8

\* How many steps were opened.
LEMMA OpenedAre ==
    ASSUME NEW named, NEW steps \in Seq(Recorded), Joined(named, steps)
    PROVE  Cardinality({k \in DOMAIN steps : steps[k].opens}) =
             (IF steps[1].opens = TRUE THEN Len(steps) ELSE Len(steps) - 1)
<1>1. PICK n \in Nat : n = Len(steps) /\ DOMAIN steps = 1 .. n
  OBVIOUS
<1>2. n > 0
  BY <1>1 DEF Joined
<1>3. \A k \in 1 .. n : steps[k].opens \in BOOLEAN
  <2> SUFFICES ASSUME NEW k \in 1 .. n PROVE steps[k].opens \in BOOLEAN
    OBVIOUS
  <2>1. PICK p \in Recorded : p = steps[k]
    BY <1>1
  <2> QED
    BY <2>1, RecordedFields
<1>4. \A k \in 1 .. n : steps[k].opens = FALSE => k = 1
  BY <1>1 DEF Joined, StepAt
<1>5. PICK O : O = {k \in DOMAIN steps : steps[k].opens}
  OBVIOUS
<1>6. CASE steps[1].opens = TRUE
  <2>1. O = 1 .. n
    BY <1>1, <1>3, <1>4, <1>5, <1>6
  <2>2. Cardinality(1 .. n) = n
    BY FS_Interval
  <2> QED
    BY <1>1, <1>5, <1>6, <2>1, <2>2
<1>7. CASE steps[1].opens # TRUE
  <2>1. O = 2 .. n
    <3>1. 1 \in 1 .. n
      BY <1>2
    <3>2. steps[1].opens = FALSE
      BY <1>3, <1>7, <3>1
    <3>3. \A k \in 1 .. n : k # 1 => steps[k].opens = TRUE
      BY <1>3, <1>4
    <3>4. \A k \in 1 .. n : k \in O <=> k # 1
      BY <1>1, <1>5, <3>2, <3>3
    <3>5. O \subseteq 1 .. n
      BY <1>1, <1>5
    <3>6. \A k : k \in 2 .. n <=> k \in 1 .. n /\ k # 1
      OBVIOUS
    <3> QED
      BY <3>4, <3>5, <3>6
  <2>2. Cardinality(2 .. n) = n - 1
    <3>1. 2 \in Int /\ n \in Int
      OBVIOUS
    <3>2. Cardinality(2 .. n) = IF 2 > n THEN 0 ELSE n - 2 + 1
      BY <3>1, FS_Interval
    <3> QED
      BY <1>2, <3>2
  <2> QED
    BY <1>1, <1>5, <1>7, <2>1, <2>2
<1> QED
  BY <1>6, <1>7

\* One step more.
LEMMA JoinedMore ==
    ASSUME NEW turn \in Turns, turn.opens, NEW start, Starting(start), now \in Nat,
           NEW steps \in Seq(Recorded), Joined(start.named, steps),
           \A k \in 1 .. Len(steps) : steps[k].typed < now,
           NEW p, p = Step(start, turn, steps), NEW more, more = Append(steps, p)
    PROVE  p \in Recorded /\ p.typed = now /\ Joined(start.named, more)
<1>1. PICK n \in Nat : n = Len(steps)
  OBVIOUS
<1>2. n > 0 /\ (\A k \in 1 .. n : StepAt(start.named, steps, k))
        /\ \A j, k \in 1 .. n : j < k => steps[j].typed < steps[k].typed
  BY <1>1 DEF Joined
<1>3. PICK opened : opened = Cardinality({k \in DOMAIN steps : steps[k].opens})
  OBVIOUS
<1>4. opened = (IF steps[1].opens = TRUE THEN n ELSE n - 1) /\ opened \in Nat
  <2>1. opened = (IF steps[1].opens = TRUE THEN n ELSE n - 1)
    BY <1>1, <1>3, OpenedAre
  <2> QED
    BY <1>2, <2>1
<1>5. TypedNow(p, start, turn, n, opened)
  BY <1>1, <1>3, <1>4, StepRecorded
<1>6. turn.opens = TRUE
  BY InsightsAssumption DEF InsightsAssumption
<1>7. /\ p \in Recorded /\ p.typed = now /\ p.opens = TRUE
      /\ start.named = TRUE => NamedStep(p)
      /\ start.named = FALSE => p.id = <<"turn", n>> /\ p.key = <<"turn", opened>>
  BY <1>5, <1>6 DEF TypedNow
<1>8. /\ Len(more) = n + 1 /\ more[n + 1] = p /\ \A k \in 1 .. n : more[k] = steps[k]
  BY <1>1, <1>7
<1>9. more[1] = steps[1]
  BY <1>2, <1>8
<1>10. \A k \in 1 .. n : StepAt(start.named, more, k)
  <2> SUFFICES ASSUME NEW k \in 1 .. n PROVE StepAt(start.named, more, k)
    OBVIOUS
  <2>1. StepAt(start.named, steps, k) /\ more[k] = steps[k]
    BY <1>2, <1>8
  <2>2. CountedStep(steps, k) => CountedStep(more, k)
    BY <1>9, <2>1 DEF CountedStep
  <2> QED
    BY <2>1, <2>2 DEF StepAt
<1>11. StepAt(start.named, more, n + 1)
  <2>1. CASE start.named = TRUE
    BY <1>7, <1>8, <2>1 DEF StepAt
  <2>2. CASE start.named # TRUE
    <3>1. start.named = FALSE
      BY <2>2 DEF Starting
    <3>2. more[n + 1].id = <<"turn", n + 1 - 1>>
      BY <1>7, <1>8, <3>1
    <3>3. more[n + 1].key = <<"turn", IF more[1].opens = TRUE THEN n + 1 - 1 ELSE n + 1 - 2>>
      BY <1>4, <1>7, <1>8, <1>9, <3>1
    <3>4. CountedStep(more, n + 1)
      BY <3>2, <3>3 DEF CountedStep
    <3> QED
      BY <1>7, <1>8, <2>2, <3>4 DEF StepAt
  <2> QED
    BY <2>1, <2>2
<1>12. \A k \in 1 .. n + 1 : k \in 1 .. n \/ k = n + 1
  OBVIOUS
<1>13. \A k \in 1 .. Len(more) : StepAt(start.named, more, k)
  BY <1>8, <1>10, <1>11, <1>12
<1>14. ASSUME NEW j \in 1 .. Len(more), NEW k \in 1 .. Len(more), j < k
       PROVE  more[j].typed < more[k].typed
  <2>1. j \in 1 .. n /\ more[j] = steps[j]
    BY <1>8, <1>14
  <2>2. CASE k \in 1 .. n
    BY <1>2, <1>8, <1>14, <2>1, <2>2
  <2>3. CASE k = n + 1
    BY <1>1, <1>7, <1>8, <2>1, <2>3
  <2> QED
    BY <1>8, <1>12, <2>2, <2>3
<1>15. Joined(start.named, more)
  BY <1>8, <1>13, <1>14 DEF Joined
<1> QED
  BY <1>7, <1>15

\* The first steps of some.
LEMMA JoinedLess ==
    ASSUME NEW named, NEW steps \in Seq(Recorded), Joined(named, steps), NEW k \in 1 .. Len(steps),
           NEW less, Len(less) = k, \A m \in 1 .. k : less[m] = steps[m]
    PROVE  Joined(named, less)
<1>1. PICK n \in Nat : n = Len(steps) /\ k \in 1 .. n
  OBVIOUS
<1>2. (\A m \in 1 .. n : StepAt(named, steps, m))
        /\ \A j, m \in 1 .. n : j < m => steps[j].typed < steps[m].typed
  BY <1>1 DEF Joined
<1>3. \A m \in 1 .. k : m \in 1 .. n
  BY <1>1
<1>4. less[1] = steps[1] /\ k > 0
  BY <1>1
<1>5. \A m \in 1 .. k : StepAt(named, less, m)
  <2> SUFFICES ASSUME NEW m \in 1 .. k PROVE StepAt(named, less, m)
    OBVIOUS
  <2>1. StepAt(named, steps, m) /\ less[m] = steps[m]
    BY <1>2, <1>3
  <2>2. CountedStep(steps, m) => CountedStep(less, m)
    BY <1>4, <2>1 DEF CountedStep
  <2> QED
    BY <2>1, <2>2 DEF StepAt
<1>6. \A j, m \in 1 .. k : j < m => less[j].typed < less[m].typed
  BY <1>2, <1>3
<1> QED
  BY <1>4, <1>5, <1>6 DEF Joined

\* At first there is no session.
LEMMA InitHistory == Init => History
<1> SUFFICES ASSUME Init PROVE History
  OBVIOUS
<1>1. sessions = <<>> /\ now = 1
  BY DEF Init
<1>2. sessions \in Seq(Session) /\ Len(sessions) = 0 /\ now \in Nat
  BY <1>1
<1> QED
  BY <1>2 DEF History, HistoryOf

\* What a new entry of the history has to satisfy beside those there are.
Fits(s, n, t) ==
    /\ s \in Session /\ s.id = n
    /\ \A k \in 1 .. Len(s.steps) : s.steps[k].typed < t
    /\ \A j \in 1 .. Len(sessions) : \A k \in 1 .. Len(s.steps), l \in 1 .. Len(sessions[j].steps) :
         s.steps[k].typed = sessions[j].steps[l].typed => s.root = sessions[j].root

\* The history with a session in the place n, new or instead of the one there.
LEMMA HistoryWith ==
    ASSUME History, NEW n, n \in 1 .. Len(sessions) + 1, NEW s, Fits(s, n, now + 1),
           now' = now + 1, sessions' \in Seq(Session),
           Len(sessions') = (IF n = Len(sessions) + 1 THEN n ELSE Len(sessions)),
           sessions'[n] = s, \A i \in 1 .. Len(sessions) : i # n => sessions'[i] = sessions[i]
    PROVE  History'
<1>1. /\ sessions \in Seq(Session) /\ now \in Nat /\ Len(sessions) \in Nat
      /\ \A i \in 1 .. Len(sessions) : sessions[i].id = i
      /\ \A i \in 1 .. Len(sessions) : \A k \in 1 .. Len(sessions[i].steps) : sessions[i].steps[k].typed < now
      /\ \A i, j \in 1 .. Len(sessions) :
           \A k \in 1 .. Len(sessions[i].steps), l \in 1 .. Len(sessions[j].steps) :
             sessions[i].steps[k].typed = sessions[j].steps[l].typed => sessions[i].root = sessions[j].root
  <2>1. HistoryOf(sessions, now)
    BY DEF History
  <2>2. sessions \in Seq(Session) /\ Len(sessions) \in Nat
    BY <2>1 DEF HistoryOf
  <2> QED
    BY <2>1, <2>2, Zenon DEF HistoryOf
<1>2. PICK old, new : old = sessions /\ new = sessions'
  OBVIOUS
<1>3. \A i \in 1 .. Len(new) : (i = n /\ new[i] = s) \/ (i \in 1 .. Len(old) /\ i # n /\ new[i] = old[i])
  BY <1>1, <1>2
<1>4. /\ s \in Session /\ s.id = n
      /\ \A k \in 1 .. Len(s.steps) : s.steps[k].typed < now + 1
      /\ \A j \in 1 .. Len(old) : \A k \in 1 .. Len(s.steps), l \in 1 .. Len(old[j].steps) :
           s.steps[k].typed = old[j].steps[l].typed => s.root = old[j].root
  BY <1>2 DEF Fits
<1>5. \A i \in 1 .. Len(new) : new[i].id = i
  BY <1>1, <1>2, <1>3, <1>4
<1>6. ASSUME NEW i \in 1 .. Len(new), NEW k \in 1 .. Len(new[i].steps)
      PROVE  new[i].steps[k].typed < now + 1
  <2>1. CASE i = n /\ new[i] = s
    BY <1>4, <2>1
  <2>2. CASE i \in 1 .. Len(old) /\ i # n /\ new[i] = old[i]
    <3>1. old[i] \in Session
      BY <1>1, <1>2, <2>2
    <3>2. old[i].steps \in Seq(Recorded)
      BY <3>1, SessionFields
    <3>3. PICK p \in Recorded : p = old[i].steps[k]
      BY <2>2, <3>2
    <3>4. p.typed \in Nat
      BY RecordedFields
    <3>5. p.typed < now
      BY <1>1, <1>2, <2>2, <3>3
    <3> QED
      BY <1>1, <2>2, <3>3, <3>4, <3>5
  <2> QED
    BY <1>3, <2>1, <2>2
<1>7. ASSUME NEW i \in 1 .. Len(new), NEW j \in 1 .. Len(new),
             NEW k \in 1 .. Len(new[i].steps), NEW l \in 1 .. Len(new[j].steps),
             new[i].steps[k].typed = new[j].steps[l].typed
      PROVE  new[i].root = new[j].root
  <2>1. CASE new[i] = s /\ new[j] = s
    <3>1. new[i] = new[j]
      BY <2>1
    <3> QED
      BY <3>1
  <2>2. CASE new[i] = s /\ j \in 1 .. Len(old) /\ new[j] = old[j]
    BY <1>4, <1>7, <2>2
  <2>3. CASE new[j] = s /\ i \in 1 .. Len(old) /\ new[i] = old[i]
    BY <1>4, <1>7, <2>3
  <2>4. CASE i \in 1 .. Len(old) /\ new[i] = old[i] /\ j \in 1 .. Len(old) /\ new[j] = old[j]
    <3>1. k \in 1 .. Len(old[i].steps) /\ l \in 1 .. Len(old[j].steps)
            /\ old[i].steps[k].typed = old[j].steps[l].typed
      BY <1>7, <2>4
    <3>2. old[i].root = old[j].root
      BY <1>1, <1>2, <2>4, <3>1
    <3> QED
      BY <2>4, <3>2
  <2>5. /\ new[i] = s \/ (i \in 1 .. Len(old) /\ new[i] = old[i])
        /\ new[j] = s \/ (j \in 1 .. Len(old) /\ new[j] = old[j])
    BY <1>3
  <2>6. CASE new[i] = s
    BY <2>1, <2>2, <2>5, <2>6
  <2>7. CASE i \in 1 .. Len(old) /\ new[i] = old[i]
    BY <2>3, <2>4, <2>5, <2>7
  <2> QED
    BY <2>5, <2>6, <2>7
<1>8. new \in Seq(Session) /\ now + 1 \in Nat
  BY <1>1, <1>2
<1>9. HistoryOf(new, now + 1)
  BY <1>5, <1>6, <1>7, <1>8 DEF HistoryOf
<1> QED
  BY <1>2, <1>9 DEF History

\* A new session keeps the history.
LEMMA BeginHistory ==
    ASSUME History, NEW start \in Starts, NEW turn \in Turns, Begin(start, turn)
    PROVE  History'
<1>1. /\ sessions \in Seq(Session) /\ now \in Nat
      /\ \A i \in 1 .. Len(sessions) : \A k \in 1 .. Len(sessions[i].steps) : sessions[i].steps[k].typed < now
  BY DEF History, HistoryOf
<1>2. now' = now + 1
  BY DEF Begin, Later
<1>3. PICK n \in Nat : n = Len(sessions) + 1
  BY <1>1
<1>4. PICK p : p = Step(start, turn, <<>>)
  OBVIOUS
<1>5. PICK steps : steps = <<p>>
  OBVIOUS
<1>6. p \in Recorded /\ p.typed = now /\ Joined(start.named, steps)
  <2>1. Starting(start)
    BY StartsAre
  <2> QED
    BY <1>1, <1>4, <1>5, <2>1, JoinedFirst
<1>7. steps \in Seq(Recorded) /\ Len(steps) = 1 /\ steps[1] = p
  BY <1>5, <1>6
<1>8. PICK s : s =
         [adapter |-> start.adapter, cwd |-> start.cwd, named |-> start.named,
          id |-> n, root |-> n, started |-> now, updated |-> now,
          steps |-> steps, subagents |-> 0, pr_links |-> 0, compactions |-> 0]
  OBVIOUS
<1>9. s \in Session /\ s.id = n /\ s.root = n /\ s.steps = steps
  <2>1. s \in Fields
    BY <1>1, <1>3, <1>7, <1>8 DEF Fields
  <2>2. /\ s.id = n /\ s.root = n /\ s.steps = steps /\ s.named = start.named
        /\ s.adapter = start.adapter
    BY <1>8
  <2>3. s.adapter = "claude" => s.named = TRUE
    BY <2>2, StartsAre DEF Starting
  <2> QED
    BY <1>6, <2>1, <2>2, <2>3 DEF Session
<1>10. sessions' = Append(sessions, s)
  BY <1>3, <1>4, <1>5, <1>8 DEF Begin
<1>11. Fits(s, n, now + 1)
  <2>1. ASSUME NEW k \in 1 .. Len(s.steps)
        PROVE  s.steps[k] = p
    <3>1. k \in 1 .. 1
      BY <1>7, <1>9, Zenon
    <3>2. k = 1
      BY <3>1
    <3> QED
      BY <1>7, <1>9, <3>2, Zenon
  <2>2. ASSUME NEW j \in 1 .. Len(sessions), NEW k \in 1 .. Len(s.steps), NEW l \in 1 .. Len(sessions[j].steps)
        PROVE  s.steps[k].typed # sessions[j].steps[l].typed
    <3>1. sessions[j].steps[l].typed < now /\ s.steps[k].typed = now
      BY <1>1, <1>6, <2>1
    <3> QED
      BY <1>1, <3>1
  <2>3. now < now + 1
    BY <1>1
  <2> QED
    BY <1>6, <1>9, <2>1, <2>2, <2>3 DEF Fits
<1>12. /\ n \in 1 .. Len(sessions) + 1 /\ sessions' \in Seq(Session)
       /\ Len(sessions') = (IF n = Len(sessions) + 1 THEN n ELSE Len(sessions))
       /\ sessions'[n] = s /\ \A i \in 1 .. Len(sessions) : i # n => sessions'[i] = sessions[i]
  BY <1>1, <1>3, <1>9, <1>10
<1> QED
  BY <1>2, <1>11, <1>12, HistoryWith

\* So does one that goes on.
LEMMA ResumeHistory ==
    ASSUME History, NEW i \in DOMAIN sessions, NEW turn \in Turns, Resume(i, turn)
    PROVE  History'
<1>1. /\ sessions \in Seq(Session) /\ now \in Nat /\ i \in 1 .. Len(sessions)
      /\ sessions[i].id = i
      /\ \A j \in 1 .. Len(sessions) : \A k \in 1 .. Len(sessions[j].steps) : sessions[j].steps[k].typed < now
      /\ \A j, h \in 1 .. Len(sessions) :
           \A k \in 1 .. Len(sessions[j].steps), l \in 1 .. Len(sessions[h].steps) :
             sessions[j].steps[k].typed = sessions[h].steps[l].typed => sessions[j].root = sessions[h].root
  <2>1. HistoryOf(sessions, now)
    BY DEF History
  <2>2. i \in 1 .. Len(sessions)
    BY <2>1 DEF HistoryOf
  <2> QED
    BY <2>1, <2>2 DEF HistoryOf
<1>2. now' = now + 1
  BY DEF Resume, Later
<1>3. PICK o \in Session : o = sessions[i]
  BY <1>1
<1>4. o.steps \in Seq(Recorded) /\ o.root \in Nat /\ o.id = i
  BY <1>1, <1>3, SessionFields
<1>5. PICK p : p = Step(o, turn, o.steps)
  OBVIOUS
<1>6. PICK steps : steps = Append(o.steps, p)
  OBVIOUS
<1>7. p \in Recorded /\ p.typed = now /\ Joined(o.named, steps)
  <2>1. turn.opens /\ \A k \in 1 .. Len(o.steps) : o.steps[k].typed < now
    BY <1>1, <1>3 DEF Resume
  <2>2. Joined(o.named, o.steps) /\ Starting(o)
    <3>1. o.named \in BOOLEAN
      <4>1. PICK x \in Starts : x.named = o.named
        BY SessionFields
      <4> QED
        BY <4>1, StartsAre DEF Starting
    <3> QED
      BY <3>1, SessionJoined DEF Starting
  <2>3. PICK before : before = o.steps
    OBVIOUS
  <2>4. p = Step(o, turn, before) /\ steps = Append(before, p) /\ before \in Seq(Recorded)
          /\ Joined(o.named, before) /\ \A k \in 1 .. Len(before) : before[k].typed < now
    BY <1>4, <1>5, <1>6, <2>1, <2>2, <2>3
  <2> QED
    BY <1>1, <2>1, <2>2, <2>4, JoinedMore
<1>8. steps \in Seq(Recorded) /\ Len(steps) = Len(o.steps) + 1 /\ steps[Len(o.steps) + 1] = p
        /\ \A k \in 1 .. Len(o.steps) : steps[k] = o.steps[k]
  BY <1>4, <1>6, <1>7
<1>9. PICK s : s = [o EXCEPT !.updated = now, !.steps = steps]
  OBVIOUS
<1>10. s \in Session /\ s.id = i /\ s.root = o.root /\ s.steps = steps
  <2>1. o \in Fields
    BY DEF Session
  <2>2. s \in Fields
    BY <1>1, <1>8, <1>9, <2>1 DEF Fields
  <2>3. /\ s.id = o.id /\ s.root = o.root /\ s.steps = steps /\ s.named = o.named
        /\ s.adapter = o.adapter
    BY <1>9, <2>1 DEF Fields
  <2> QED
    BY <1>4, <1>7, <2>2, <2>3, SessionJoined DEF Session
<1>11. sessions' = [sessions EXCEPT ![i] = s]
  BY <1>1, <1>3, <1>5, <1>6, <1>9 DEF Resume
<1>12. ASSUME NEW k \in 1 .. Len(s.steps)
       PROVE  s.steps[k] = p \/ (k \in 1 .. Len(o.steps) /\ s.steps[k] = o.steps[k])
  BY <1>4, <1>8, <1>10
<1>13. Fits(s, i, now + 1)
  <2>1. ASSUME NEW k \in 1 .. Len(s.steps)
        PROVE  s.steps[k].typed < now + 1
    <3>1. CASE s.steps[k] = p
      BY <1>1, <1>7, <3>1
    <3>2. CASE k \in 1 .. Len(o.steps) /\ s.steps[k] = o.steps[k]
      <4>1. PICK q \in Recorded : q = o.steps[k]
        BY <1>4, <3>2
      <4>2. q.typed \in Nat
        BY RecordedFields
      <4>3. q.typed < now
        BY <1>1, <1>3, <3>2, <4>1
      <4> QED
        BY <1>1, <3>2, <4>1, <4>2, <4>3
    <3> QED
      BY <1>12, <3>1, <3>2
  <2>2. ASSUME NEW j \in 1 .. Len(sessions), NEW k \in 1 .. Len(s.steps), NEW l \in 1 .. Len(sessions[j].steps),
               s.steps[k].typed = sessions[j].steps[l].typed
        PROVE  s.root = sessions[j].root
    <3>1. CASE s.steps[k] = p
      <4>1. sessions[j].steps[l].typed < now /\ s.steps[k].typed = now
        BY <1>1, <1>7, <3>1
      <4> QED
        BY <1>1, <2>2, <4>1
    <3>2. CASE k \in 1 .. Len(o.steps) /\ s.steps[k] = o.steps[k]
      <4>1. o.steps[k].typed = sessions[j].steps[l].typed
        BY <2>2, <3>2
      <4>2. o.root = sessions[j].root
        BY <1>1, <1>3, <3>2, <4>1
      <4> QED
        BY <1>10, <4>2
    <3> QED
      BY <1>12, <3>1, <3>2
  <2> QED
    BY <1>10, <2>1, <2>2 DEF Fits
<1>14. /\ i \in 1 .. Len(sessions) + 1 /\ sessions' \in Seq(Session)
       /\ Len(sessions') = (IF i = Len(sessions) + 1 THEN i ELSE Len(sessions))
       /\ sessions'[i] = s /\ \A j \in 1 .. Len(sessions) : j # i => sessions'[j] = sessions[j]
  BY <1>1, <1>10, <1>11
<1> QED
  BY <1>2, <1>13, <1>14, HistoryWith

\* So does a fork.
LEMMA ForkHistory ==
    ASSUME History, NEW i \in DOMAIN sessions, NEW k \in DOMAIN sessions[i].steps, Fork(i, k)
    PROVE  History'
<1>1. /\ sessions \in Seq(Session) /\ now \in Nat /\ i \in 1 .. Len(sessions)
      /\ \A j \in 1 .. Len(sessions) : \A m \in 1 .. Len(sessions[j].steps) : sessions[j].steps[m].typed < now
      /\ \A j, h \in 1 .. Len(sessions) :
           \A m \in 1 .. Len(sessions[j].steps), l \in 1 .. Len(sessions[h].steps) :
             sessions[j].steps[m].typed = sessions[h].steps[l].typed => sessions[j].root = sessions[h].root
  <2>1. HistoryOf(sessions, now)
    BY DEF History
  <2>2. i \in 1 .. Len(sessions)
    BY <2>1 DEF HistoryOf
  <2> QED
    BY <2>1, <2>2 DEF HistoryOf
<1>2. now' = now + 1
  BY DEF Fork, Later
<1>3. PICK o \in Session : o = sessions[i]
  BY <1>1
<1>4. o.steps \in Seq(Recorded) /\ o.root \in Nat /\ k \in 1 .. Len(o.steps)
  BY <1>1, <1>3, SessionFields
<1>5. PICK n \in Nat : n = Len(sessions) + 1
  BY <1>1
<1>6. PICK steps : steps = SubSeq(o.steps, 1, k)
  OBVIOUS
<1>7. steps \in Seq(Recorded) /\ Len(steps) = k /\ \A m \in 1 .. k : steps[m] = o.steps[m]
  BY <1>4, <1>6
<1>8. PICK s : s = [o EXCEPT !.id = n, !.updated = now, !.steps = steps]
  OBVIOUS
<1>9. s \in Session /\ s.id = n /\ s.root = o.root /\ s.steps = steps
  <2>1. o \in Fields
    BY DEF Session
  <2>2. s \in Fields
    BY <1>1, <1>5, <1>7, <1>8, <2>1 DEF Fields
  <2>3. /\ s.id = n /\ s.root = o.root /\ s.steps = steps /\ s.named = o.named
        /\ s.adapter = o.adapter
    BY <1>8, <2>1 DEF Fields
  <2>4. Joined(o.named, steps)
    <3>1. PICK before : before = o.steps
      OBVIOUS
    <3>2. before \in Seq(Recorded) /\ Joined(o.named, before) /\ k \in 1 .. Len(before)
      BY <1>4, <3>1, SessionJoined
    <3>3. Len(steps) = k /\ \A m \in 1 .. k : steps[m] = before[m]
      BY <1>7, <3>1
    <3> QED
      BY <3>2, <3>3, JoinedLess
  <2> QED
    BY <2>2, <2>3, <2>4, SessionJoined DEF Session
<1>10. sessions' = Append(sessions, s)
  BY <1>1, <1>3, <1>5, <1>6, <1>8 DEF Fork
<1>11. ASSUME NEW m \in 1 .. Len(s.steps)
       PROVE  m \in 1 .. Len(o.steps) /\ s.steps[m] = o.steps[m]
  BY <1>4, <1>7, <1>9
<1>12. Fits(s, n, now + 1)
  <2>1. ASSUME NEW m \in 1 .. Len(s.steps)
        PROVE  s.steps[m].typed < now + 1
    <3>1. PICK q \in Recorded : q = o.steps[m]
      BY <1>4, <1>11
    <3>2. q.typed \in Nat
      BY RecordedFields
    <3>3. q.typed < now
      BY <1>1, <1>3, <1>11, <3>1
    <3> QED
      BY <1>1, <1>11, <3>1, <3>2, <3>3
  <2>2. ASSUME NEW j \in 1 .. Len(sessions), NEW m \in 1 .. Len(s.steps), NEW l \in 1 .. Len(sessions[j].steps),
               s.steps[m].typed = sessions[j].steps[l].typed
        PROVE  s.root = sessions[j].root
    <3>1. o.steps[m].typed = sessions[j].steps[l].typed /\ m \in 1 .. Len(o.steps)
      BY <1>11, <2>2
    <3>2. o.root = sessions[j].root
      BY <1>1, <1>3, <3>1
    <3> QED
      BY <1>9, <3>2
  <2> QED
    BY <1>9, <2>1, <2>2 DEF Fits
<1>13. /\ n \in 1 .. Len(sessions) + 1 /\ sessions' \in Seq(Session)
       /\ Len(sessions') = (IF n = Len(sessions) + 1 THEN n ELSE Len(sessions))
       /\ sessions'[n] = s /\ \A j \in 1 .. Len(sessions) : j # n => sessions'[j] = sessions[j]
  BY <1>1, <1>5, <1>9, <1>10
<1> QED
  BY <1>2, <1>12, <1>13, HistoryWith

\* Every step keeps it.
LEMMA NextHistory == History /\ [Next]_vars => History'
<1> SUFFICES ASSUME History, [Next]_vars PROVE History'
  OBVIOUS
<1>1. CASE \E start \in Starts, turn \in Turns : Begin(start, turn)
  BY <1>1, BeginHistory
<1>2. CASE \E i \in DOMAIN sessions, turn \in Turns : Resume(i, turn)
  BY <1>2, ResumeHistory
<1>3. CASE \E i \in DOMAIN sessions : \E k \in DOMAIN sessions[i].steps : Fork(i, k)
  BY <1>3, ForkHistory
<1>4. CASE \E offset \in Offsets : Commit(offset)
  <2>1. sessions' = sessions /\ now' = now + 1
    BY <1>4 DEF Commit, Later
  <2>2. HistoryOf(sessions, now)
    BY DEF History
  <2>3. sessions \in Seq(Session) /\ now \in Nat
    BY <2>2 DEF HistoryOf
  <2>4. ASSUME NEW i \in 1 .. Len(sessions), NEW k \in 1 .. Len(sessions[i].steps)
        PROVE  sessions[i].steps[k].typed < now + 1
    <3>1. sessions[i].steps \in Seq(Recorded)
      BY <2>3, SessionFields
    <3>2. sessions[i].steps[k].typed \in Nat
      BY <3>1, RecordedFields
    <3>3. sessions[i].steps[k].typed < now
      BY <2>2 DEF HistoryOf
    <3> QED
      BY <2>3, <3>2, <3>3
  <2>5. HistoryOf(sessions, now + 1)
    BY <2>2, <2>3, <2>4 DEF HistoryOf
  <2> QED
    BY <2>1, <2>5 DEF History
<1>5. CASE UNCHANGED vars
  BY <1>5 DEF vars, History
<1> QED
  BY <1>1, <1>2, <1>3, <1>4, <1>5 DEF Next

-----------------------------------------------------------------------------
(* The sessions in scope and their signals. *)

\* The less of two numbers.
LEMMA MinOfTwo ==
    ASSUME NEW a \in Nat, NEW b \in Nat
    PROVE  Min({a, b}) \in Nat /\ Min({a, b}) <= a /\ Min({a, b}) <= b
<1>1. \E x \in {a, b} : \A y \in {a, b} : x <= y
  BY SMT
<1>2. PICK m : m = CHOOSE x \in {a, b} : \A y \in {a, b} : x <= y
  OBVIOUS
<1>3. m \in {a, b} /\ \A y \in {a, b} : m <= y
  BY <1>1, <1>2
<1>4. Min({a, b}) = m
  BY <1>2 DEF Min
<1> QED
  BY <1>3, <1>4

\* Whether the entries of a list are sessions of the history.
FromHistory(list) ==
    /\ list \in Seq(Session)
    /\ \A i \in 1 .. Len(list) : \E a \in 1 .. Len(sessions) : list[i] = sessions[a]

\* Those of a scope are.
LEMMA ScopeFrom ==
    ASSUME History, NEW scope \in Scopes
    PROVE  FromHistory(scope)
<1>1. sessions \in Seq(Session) /\ Len(sessions) \in Nat
  BY DEF History, HistoryOf
<1>2. PICK agent, limit, since : limit \in 1 .. MaxSessions /\ scope = SelectNativeSessions(agent, limit, since)
  BY DEF Scopes
<1>3. MaxSessions \in Nat
  BY InsightsAssumption DEF InsightsAssumption
<1>4. PICK places : places = {i \in DOMAIN sessions : /\ agent \in {"all", sessions[i].adapter}
                                                      /\ sessions[i].updated >= since}
  OBVIOUS
<1>5. PICK touched : touched = Selection(sessions, places)
  OBVIOUS
<1>6. /\ touched \in Seq(Session)
      /\ \A j \in 1 .. Len(touched) : \E i \in 1 .. Len(sessions) : i \in places /\ touched[j] = sessions[i]
  BY <1>1, <1>5, SelectionRange
<1>7. PICK keys : keys = [i \in DOMAIN touched |-> touched[i].updated]
  OBVIOUS
<1>8. DOMAIN keys = 1 .. Len(touched) /\ \A i \in 1 .. Len(touched) : keys[i] \in Int
  <2>1. \A i \in 1 .. Len(touched) : touched[i].updated \in Nat
    BY <1>6, SessionFields
  <2> QED
    BY <1>6, <1>7, <2>1
<1>9. PICK found : found = Ordered(touched, keys)
  OBVIOUS
<1>10. /\ found \in Seq(Session) /\ Len(found) = Len(touched)
       /\ \E p : Arranges(p, Len(touched), keys) /\ \A n \in 1 .. Len(touched) : found[n] = touched[p[n]]
  BY <1>6, <1>8, <1>9, OrderedPlaces
<1>11. PICK p : Arranges(p, Len(touched), keys) /\ \A n \in 1 .. Len(touched) : found[n] = touched[p[n]]
  BY <1>10
<1>12. p \in [1 .. Len(touched) -> 1 .. Len(touched)]
  BY <1>11 DEF Arranges
<1>13. PICK m : m = Min({limit, Len(found)})
  OBVIOUS
<1>14. m \in Nat /\ m <= Len(found)
  <2>1. limit \in Nat /\ Len(found) \in Nat
    BY <1>2, <1>3, <1>10
  <2> QED
    BY <1>13, <2>1, MinOfTwo
<1>15. scope = SubSeq(found, 1, m)
  BY <1>2, <1>4, <1>5, <1>7, <1>9, <1>13, Zenon DEF SelectNativeSessions, Descending
<1>16. scope \in Seq(Session) /\ Len(scope) = m /\ \A i \in 1 .. m : scope[i] = found[i]
  BY <1>10, <1>14, <1>15
<1>17. ASSUME NEW i \in 1 .. Len(scope)
       PROVE  \E a \in 1 .. Len(sessions) : scope[i] = sessions[a]
  <2>1. i \in 1 .. Len(touched) /\ scope[i] = found[i]
    BY <1>10, <1>14, <1>16
  <2>2. PICK n \in 1 .. Len(touched) : n = p[i]
    BY <1>12, <2>1
  <2>3. scope[i] = touched[n]
    BY <1>11, <2>1, <2>2
  <2>4. PICK a \in 1 .. Len(sessions) : touched[n] = sessions[a]
    BY <1>6
  <2> QED
    BY <2>3, <2>4
<1> QED
  BY <1>16, <1>17 DEF FromHistory
-----------------------------------------------------------------------------
\* Which of some steps has a text under the id of which: the step itself, or the
\* one d places after it.
Moved(steps, d) ==
    /\ \A j \in 1 .. Len(steps) : steps[j].text.chars > 0 => j > d
    /\ \A j, k \in 1 .. Len(steps) :
         (steps[j].text.chars > 0 /\ steps[j].key = steps[k].id)
           <=> (j = k + d /\ steps[j].text.chars > 0)

\* With ids of the agent's own it is the step itself.
LEMMA NamedMoved ==
    ASSUME NEW steps \in Seq(Recorded), Joined(TRUE, steps)
    PROVE  Moved(steps, 0)
<1>1. PICK n \in Nat : n = Len(steps)
  OBVIOUS
<1>2. ASSUME NEW k \in 1 .. n
      PROVE  /\ steps[k].text.chars \in Nat /\ steps[k].typed \in Nat
             /\ steps[k].opens = FALSE => steps[k].text.chars = 0 /\ steps[k].id[1] # "native"
             /\ steps[k].opens = TRUE =>
                  steps[k].id = <<"native", steps[k].typed>> /\ steps[k].key = <<"native", steps[k].typed>>
             /\ steps[k].opens \in BOOLEAN
  <2>1. StepAt(TRUE, steps, k)
    BY <1>1 DEF Joined
  <2>2. NamedStep(steps[k]) /\ (steps[k].opens = FALSE => steps[k].text.chars = 0)
    BY <2>1 DEF StepAt
  <2>3. PICK p \in Recorded : p = steps[k]
    BY <1>1
  <2>4. p.text.chars \in Nat /\ p.typed \in Nat /\ p.opens \in BOOLEAN
    BY RecordedFields
  <2> QED
    BY <2>2, <2>3, <2>4 DEF NamedStep
<1>3. ASSUME NEW j \in 1 .. n, NEW k \in 1 .. n, steps[j].text.chars > 0
      PROVE  steps[j].key = steps[k].id <=> j = k
  <2>1. steps[j].opens = TRUE
    <3>1. steps[j].opens \in BOOLEAN /\ (steps[j].opens = FALSE => steps[j].text.chars = 0)
      BY <1>2
    <3>2. steps[j].text.chars # 0
      BY <1>3
    <3> QED
      BY <3>1, <3>2
  <2>2. PICK a \in Nat, b \in Nat : a = steps[j].typed /\ b = steps[k].typed
    BY <1>2
  <2>3. steps[j].key = <<"native", a>>
    BY <1>2, <2>1, <2>2
  <2>4. CASE steps[k].opens = TRUE
    <3>1. steps[k].id = <<"native", b>>
      BY <1>2, <2>2, <2>4
    <3>2. steps[j].key = steps[k].id <=> a = b
      BY <2>3, <3>1
    <3>3. (j < k => a < b) /\ (k < j => b < a)
      BY <1>1, <2>2 DEF Joined
    <3>4. a = b <=> j = k
      BY <2>2, <3>3
    <3> QED
      BY <3>2, <3>4
  <2>5. CASE steps[k].opens = FALSE
    <3>1. steps[k].id[1] # "native" /\ steps[k].text.chars = 0
      BY <1>2, <2>5
    <3>2. steps[j].key # steps[k].id
      BY <2>3, <3>1
    <3>3. j # k
      BY <1>2, <1>3, <3>1
    <3> QED
      BY <3>2, <3>3
  <2> QED
    BY <1>2, <2>4, <2>5
<1>4. \A j \in 1 .. n : j > 0 /\ \A k \in 1 .. n : j = k <=> j = k + 0
  OBVIOUS
<1> QED
  BY <1>1, <1>3, <1>4 DEF Moved

\* Where they are counted it is the next one if nothing opened the first.
LEMMA CountedMoved ==
    ASSUME NEW steps \in Seq(Recorded), NEW named, named # TRUE, Joined(named, steps)
    PROVE  Moved(steps, 0) \/ Moved(steps, 1)
<1>1. PICK n \in Nat : n = Len(steps) /\ n > 0
  BY DEF Joined
<1>2. PICK d \in {0, 1} : d = 0 <=> steps[1].opens = TRUE
  <2>1. CASE steps[1].opens = TRUE
    BY <2>1
  <2>2. CASE steps[1].opens # TRUE
    BY <2>2
  <2> QED
    BY <2>1, <2>2
<1>3. ASSUME NEW k \in 1 .. n
      PROVE  /\ steps[k].text.chars \in Nat /\ steps[k].opens \in BOOLEAN
             /\ steps[k].opens = FALSE => k = 1 /\ steps[k].text.chars = 0
             /\ steps[k].id = <<"turn", k - 1>>
             /\ steps[k].opens = TRUE => steps[k].key = <<"turn", k - 1 - d>>
  <2>1. StepAt(named, steps, k)
    BY <1>1 DEF Joined
  <2>2. CountedStep(steps, k) /\ (steps[k].opens = FALSE => k = 1 /\ steps[k].text.chars = 0)
    BY <2>1 DEF StepAt
  <2>3. PICK p \in Recorded : p = steps[k]
    BY <1>1
  <2>4. p.text.chars \in Nat /\ p.opens \in BOOLEAN
    BY RecordedFields
  <2>5. k - 1 - d = IF steps[1].opens = TRUE THEN k - 1 ELSE k - 2
    BY <1>2
  <2> QED
    BY <2>2, <2>3, <2>4, <2>5 DEF CountedStep
<1>4. ASSUME NEW j \in 1 .. n, steps[j].text.chars > 0 PROVE j > d /\ steps[j].opens = TRUE
  <2>1. steps[j].opens = TRUE
    <3>1. steps[j].opens \in BOOLEAN /\ (steps[j].opens = FALSE => steps[j].text.chars = 0)
      BY <1>3
    <3>2. steps[j].text.chars # 0
      BY <1>4
    <3> QED
      BY <3>1, <3>2
  <2>2. CASE d = 1
    <3>1. steps[1].opens # TRUE
      <4>1. d # 0
        BY <2>2
      <4> QED
        BY <1>2, <4>1, Zenon
    <3>2. j # 1
      BY <2>1, <3>1
    <3> QED
      BY <2>1, <2>2, <3>2
  <2>3. CASE d = 0
    BY <2>1, <2>3
  <2> QED
    BY <2>2, <2>3
<1>5. ASSUME NEW j \in 1 .. n, NEW k \in 1 .. n, steps[j].text.chars > 0
      PROVE  steps[j].key = steps[k].id <=> j = k + d
  <2>1. steps[j].opens = TRUE
    BY <1>4, <1>5
  <2>2. steps[j].key = <<"turn", j - 1 - d>> /\ steps[k].id = <<"turn", k - 1>>
    BY <1>3, <2>1
  <2>3. steps[j].key = steps[k].id <=> j - 1 - d = k - 1
    BY <2>2
  <2> QED
    BY <2>3
<1>6. Moved(steps, d)
  BY <1>1, <1>4, <1>5 DEF Moved
<1>7. d = 0 \/ d = 1
  OBVIOUS
<1> QED
  BY <1>6, <1>7

\* So of a session: distill's prompt of the step k is the text of the step k + d.
Shifted(s, d) ==
    /\ s.named = TRUE => d = 0
    /\ \A j \in 1 .. Len(s.steps) : s.steps[j].text.chars > 0 => j > d
    /\ \A k \in 1 .. Len(s.steps) :
         k \in Prompted(s) <=> k + d <= Len(s.steps) /\ s.steps[k + d].text.chars > 0
    /\ \A k \in Prompted(s) : SignalOf(s, k).text = s.steps[k + d].text

\* And d is none or one.
LEMMA Shift ==
    ASSUME NEW s \in Session
    PROVE  \E d \in {0, 1} : Shifted(s, d)
<1>1. PICK steps \in Seq(Recorded) : steps = s.steps
  BY SessionFields
<1>2. PICK n \in Nat : n = Len(steps) /\ DOMAIN steps = 1 .. n
  BY <1>1
<1>3. PICK d \in {0, 1} : Moved(steps, d) /\ (s.named = TRUE => d = 0)
  <2>1. Joined(s.named, steps)
    BY <1>1, SessionJoined
  <2>2. CASE s.named = TRUE
    BY <2>1, <2>2, NamedMoved
  <2>3. CASE s.named # TRUE
    <3>1. PICK named : named = s.named
      OBVIOUS
    <3>2. Moved(steps, 0) \/ Moved(steps, 1)
      BY <2>1, <2>3, <3>1, CountedMoved
    <3> QED
      BY <2>3, <3>2
  <2> QED
    BY <2>2, <2>3
<1>4. /\ \A j \in 1 .. n : steps[j].text.chars > 0 => j > d
      /\ \A j, k \in 1 .. n : (steps[j].text.chars > 0 /\ steps[j].key = steps[k].id)
                                <=> (j = k + d /\ steps[j].text.chars > 0)
  BY <1>2, <1>3 DEF Moved
<1>5. ASSUME NEW k \in 1 .. n
      PROVE  \A j : j \in Keyed(s, steps[k].id) <=> j \in 1 .. n /\ j = k + d /\ steps[j].text.chars > 0
  BY <1>1, <1>2, <1>4 DEF Keyed
<1>6. ASSUME NEW k \in 1 .. n
      PROVE  k \in Prompted(s) <=> k + d <= n /\ steps[k + d].text.chars > 0
  <2>1. k \in Prompted(s) <=> \E j : j \in Keyed(s, steps[k].id)
    BY <1>1, <1>2 DEF Prompted
  <2>2. k + d \in 1 .. n <=> k + d <= n
    BY <1>2
  <2> QED
    BY <1>5, <2>1, <2>2
<1>7. ASSUME NEW k \in Prompted(s) PROVE SignalOf(s, k).text = steps[k + d].text
  <2>1. k \in 1 .. n
    BY <1>1, <1>2 DEF Prompted
  <2>2. PICK e \in Nat : e = k + d
    BY <2>1
  <2>3. Keyed(s, steps[k].id) = {e}
    <3>1. e \in 1 .. n /\ steps[e].text.chars > 0
      BY <1>6, <1>7, <2>1, <2>2
    <3> QED
      BY <1>5, <2>1, <2>2, <3>1
  <2>4. Max({e}) = e
    <3>1. e = CHOOSE x \in {e} : \A y \in {e} : x >= y
      OBVIOUS
    <3> QED
      BY <3>1 DEF Max
  <2>5. PICK text : text = s.steps[Max(Keyed(s, s.steps[k].id))].text
    OBVIOUS
  <2>6. text = steps[e].text
    BY <1>1, <2>3, <2>4, <2>5
  <2>7. SignalOf(s, k).text = text
    BY <2>5 DEF SignalOf
  <2> QED
    BY <2>2, <2>6, <2>7
<1>8. Shifted(s, d)
  BY <1>1, <1>2, <1>3, <1>4, <1>6, <1>7 DEF Shifted
<1> QED
  BY <1>8
-----------------------------------------------------------------------------
\* The type of the signals.
Signal ==
    [agent : {s.adapter : s \in Starts}, session : Nat, step : {"native", "turn", "step"} \X Nat,
     text : {t.text : t \in Turns}, tokens : {Len(t.responses) : t \in Turns},
     tools : {Len(t.tools) : t \in Turns}, aborted : {t.aborted : t \in Turns}, at : Nat]

\* It is of the type of signals.
LEMMA SignalTyped ==
    ASSUME NEW s \in Session, NEW k \in Prompted(s)
    PROVE  SignalOf(s, k) \in Signal
<1>1. /\ s.adapter \in {x.adapter : x \in Starts} /\ s.id \in Nat /\ s.started \in Nat
  BY SessionFields
<1>2. PICK steps \in Seq(Recorded) : steps = s.steps
  BY SessionFields
<1>3. k \in 1 .. Len(steps)
  BY <1>2 DEF Prompted
<1>4. PICK p \in Recorded : p = steps[k]
  BY <1>2, <1>3
<1>5. /\ p.id \in {"native", "turn", "step"} \X Nat
      /\ p.tools \in {t.tools : t \in Turns} /\ p.responses \in {t.responses : t \in Turns}
      /\ p.aborted \in {t.aborted : t \in Turns}
  BY RecordedFields
<1>6. PICK x : x = SignalOf(s, k)
  OBVIOUS
<1>7. x.text \in {t.text : t \in Turns}
  <2>1. PICK d \in {0, 1} : Shifted(s, d)
    BY Shift
  <2>2. k + d <= Len(steps) /\ x.text = steps[k + d].text
    BY <1>2, <1>3, <1>6, <2>1 DEF Shifted
  <2>3. k + d \in 1 .. Len(steps)
    BY <1>3, <2>2
  <2>4. PICK q \in Recorded : q = steps[k + d]
    BY <1>2, <2>3
  <2>5. q.text \in {t.text : t \in Turns}
    BY RecordedFields
  <2> QED
    BY <2>2, <2>4, <2>5
<1>8. PICK tokens, tools, text : tokens = Len(p.responses) /\ tools = Len(p.tools)
                                   /\ text = s.steps[Max(Keyed(s, p.id))].text
  OBVIOUS
<1>9. tokens \in {Len(t.responses) : t \in Turns} /\ tools \in {Len(t.tools) : t \in Turns}
  BY <1>5, <1>8
<1>10. x = [agent |-> s.adapter, session |-> s.id, step |-> p.id, text |-> text, tokens |-> tokens,
            tools |-> tools, aborted |-> p.aborted, at |-> s.started]
  BY <1>2, <1>4, <1>6, <1>8, Zenon DEF SignalOf
<1>11. x.text = text
  BY <1>10
<1>12. x \in Signal
  BY <1>1, <1>5, <1>7, <1>9, <1>10, <1>11 DEF Signal
<1> QED
  BY <1>6, <1>12

\* The signals of a session are those of its prompts at the places w, in order.
SignalsBy(s, w) ==
    /\ Orderly(w, Len(s.steps), Prompted(s))
    /\ Len(Signals(s)) = Len(w)
    /\ \A i \in 1 .. Len(w) : Signals(s)[i] = SignalOf(s, w[i])

\* There are such places.
LEMMA SignalsAre ==
    ASSUME NEW s \in Session
    PROVE  Signals(s) \in Seq(Signal) /\ \E w : SignalsBy(s, w)
<1>1. PICK steps \in Seq(Recorded) : steps = s.steps
  BY SessionFields
<1>2. PICK n \in Nat : n = Len(steps) /\ DOMAIN steps = 1 .. n
  BY <1>1
<1>3. PICK places : places = Prompted(s)
  OBVIOUS
<1>4. PICK all : all = [k \in DOMAIN steps |-> k]
  OBVIOUS
<1>5. all \in Seq(Nat) /\ Len(all) = n /\ \A k \in 1 .. n : all[k] = k
  <2>1. all \in [1 .. n -> Nat] /\ \A k \in 1 .. n : all[k] = k
    BY <1>2, <1>4
  <2> QED
    BY <2>1
<1>6. PICK prompted : prompted = Selection(all, places)
  OBVIOUS
<1>7. PICK w : /\ Orderly(w, n, places) /\ prompted \in Seq(Nat) /\ Len(prompted) = Len(w)
               /\ \A j \in 1 .. Len(w) : prompted[j] = all[w[j]]
  BY <1>5, <1>6, SelectionPlaces
<1>8. \A j \in 1 .. Len(w) : prompted[j] = w[j] /\ w[j] \in places
  <2>1. \A j \in 1 .. Len(w) : w[j] \in places /\ w[j] \in 1 .. n
    BY <1>7 DEF Orderly
  <2> QED
    BY <1>5, <1>7, <2>1
<1>9. PICK signals : signals = [i \in DOMAIN prompted |-> SignalOf(s, prompted[i])]
  OBVIOUS
<1>10. Signals(s) = signals
  <2>1. prompted = Selection([k \in DOMAIN s.steps |-> k], Prompted(s))
    BY <1>1, <1>3, <1>4, <1>6
  <2> QED
    BY <1>9, <2>1, Zenon DEF Signals
<1>11. DOMAIN signals = 1 .. Len(w) /\ \A i \in 1 .. Len(w) : signals[i] = SignalOf(s, w[i])
  BY <1>7, <1>8, <1>9
<1>12. \A i \in 1 .. Len(w) : signals[i] \in Signal
  BY <1>3, <1>8, <1>11, SignalTyped
<1>13. signals \in Seq(Signal) /\ Len(signals) = Len(w)
  <2>1. Len(w) \in Nat
    BY <1>7
  <2>2. signals = [i \in 1 .. Len(w) |-> signals[i]]
    BY <1>9, <1>11
  <2> QED
    BY <1>12, <2>1, <2>2
<1>14. SignalsBy(s, w)
  BY <1>1, <1>2, <1>3, <1>7, <1>10, <1>11, <1>13 DEF SignalsBy
<1> QED
  BY <1>10, <1>13, <1>14

\* The least of some numbers, when there is one.
LEMMA MinIs ==
    ASSUME NEW P \in SUBSET Nat, NEW m \in P, \A x \in P : m <= x
    PROVE  Min(P) = m
<1>1. PICK n : n = CHOOSE x \in P : \A y \in P : x <= y
  OBVIOUS
<1>2. n \in P /\ \A y \in P : n <= y
  BY <1>1
<1>3. n \in Nat /\ m \in Nat /\ n <= m /\ m <= n
  BY <1>2
<1>4. n = m
  BY <1>3
<1> QED
  BY <1>1, <1>4 DEF Min

\* The code tells ASA's own sessions by the first of their signals.
LEMMA OwnIs ==
    ASSUME NEW s \in Session
    PROVE  Internal(s) <=> IsOwn(s)
<1>1. PICK w : SignalsBy(s, w)
  BY SignalsAre
<1>2. PICK steps \in Seq(Recorded), n \in Nat : steps = s.steps /\ n = Len(steps) /\ DOMAIN steps = 1 .. n
  BY SessionFields
<1>3. PICK signals \in Seq(Signal) : signals = Signals(s)
  BY SignalsAre
<1>4. PICK d \in {0, 1} : Shifted(s, d)
  BY Shift
<1>5. /\ \A j \in 1 .. n : steps[j].text.chars > 0 => j > d
      /\ \A k \in 1 .. n : k \in Prompted(s) <=> k + d <= n /\ steps[k + d].text.chars > 0
      /\ \A k \in Prompted(s) : SignalOf(s, k).text = steps[k + d].text
  BY <1>2, <1>4 DEF Shifted
<1>6. PICK P : P = {k \in 1 .. n : steps[k].text.chars > 0}
  OBVIOUS
<1>7. P \in SUBSET Nat /\ \A k : k \in P <=> k \in 1 .. n /\ steps[k].text.chars > 0
  BY <1>6
<1>8. /\ w \in Seq(Nat) /\ Len(w) \in Nat /\ Len(signals) = Len(w)
      /\ \A j \in 1 .. Len(w) : w[j] \in Prompted(s) /\ w[j] \in 1 .. n
      /\ \A i, j \in 1 .. Len(w) : i < j => w[i] < w[j]
      /\ \A x \in 1 .. n : x \in Prompted(s) => \E j \in 1 .. Len(w) : w[j] = x
      /\ \A i \in 1 .. Len(w) : signals[i] = SignalOf(s, w[i])
  BY <1>1, <1>2, <1>3 DEF SignalsBy, Orderly
<1>9. IsOwn(s) <=> P # {} /\ steps[Min(P)].text.opening = Sentinel
  BY <1>2, <1>6, Zenon DEF IsOwn
<1>10. Internal(s) <=> signals # <<>> /\ signals[1].text.opening = Sentinel
  BY <1>3, Zenon DEF Internal
<1>11. ASSUME NEW x \in P PROVE \E j \in 1 .. Len(w) : w[j] + d = x
  <2>1. x \in 1 .. n /\ steps[x].text.chars > 0 /\ x > d
    BY <1>5, <1>7
  <2>2. PICK k \in 1 .. n : k = x - d
    BY <2>1
  <2>3. k + d = x
    BY <2>1, <2>2
  <2>4. k \in Prompted(s)
    BY <1>5, <2>1, <2>3
  <2>5. PICK j \in 1 .. Len(w) : w[j] = k
    BY <1>8, <2>4
  <2> QED
    BY <2>3, <2>5
<1>12. CASE Len(w) = 0
  <2>1. P = {}
    BY <1>11, <1>12
  <2>2. signals = <<>>
    BY <1>8, <1>12
  <2> QED
    BY <1>9, <1>10, <2>1, <2>2
<1>13. CASE Len(w) # 0
  <2>1. 1 \in 1 .. Len(w)
    BY <1>8, <1>13
  <2>2. PICK m \in 1 .. n : m = w[1] /\ m \in Prompted(s)
    BY <1>8, <2>1
  <2>3. m + d \in P
    BY <1>5, <1>7, <2>2
  <2>4. \A x \in P : m + d <= x
    <3> SUFFICES ASSUME NEW x \in P PROVE m + d <= x
      OBVIOUS
    <3>1. PICK j \in 1 .. Len(w) : w[j] + d = x
      BY <1>11
    <3>2. w[j] \in 1 .. n /\ (j = 1 \/ 1 < j)
      BY <1>8
    <3>3. CASE 1 < j
      <4>1. m < w[j]
        BY <1>8, <2>1, <2>2, <3>3
      <4> QED
        BY <3>1, <3>2, <4>1
    <3>4. CASE j = 1
      <4>1. w[j] = m
        BY <2>2, <3>4
      <4> QED
        BY <3>1, <3>2, <4>1
    <3> QED
      BY <3>2, <3>3, <3>4
  <2>5. Min(P) = m + d
    BY <1>7, <2>3, <2>4, MinIs
  <2>6. signals # <<>>
    BY <1>8, <1>13
  <2>7. signals[1] = SignalOf(s, m)
    BY <1>8, <2>1, <2>2
  <2>8. signals[1].text = steps[m + d].text
    BY <1>5, <2>2, <2>7
  <2> QED
    BY <1>9, <1>10, <2>3, <2>5, <2>6, <2>8
<1> QED
  BY <1>12, <1>13
-----------------------------------------------------------------------------
\* A command reads the sessions of a scope that are not ASA's own.
LEMMA IncludedIs ==
    ASSUME NEW scope \in Seq(Session)
    PROVE  Included(scope) = Selection(scope, External(scope))
<1>1. \A i \in DOMAIN scope : Internal(scope[i]) <=> IsOwn(scope[i])
  BY OwnIs
<1>2. {i \in DOMAIN scope : ~Internal(scope[i])} = External(scope)
  BY <1>1 DEF External
<1> QED
  BY <1>2, Zenon DEF Included

\* Of those alone it leaves none out.
LEMMA IncludedAgain ==
    ASSUME NEW scope \in Seq(Session), NEW others, others = Selection(scope, External(scope))
    PROVE  Included(others) = others
<1>1. PICK places : places = External(scope)
  OBVIOUS
<1>2. /\ others \in Seq(Session)
      /\ \A j \in 1 .. Len(others) : \E i \in 1 .. Len(scope) : i \in places /\ others[j] = scope[i]
  BY <1>1, SelectionRange
<1>3. PICK all : all = External(others)
  OBVIOUS
<1>4. \A j \in 1 .. Len(others) : j \in all
  <2> SUFFICES ASSUME NEW j \in 1 .. Len(others) PROVE j \in all
    OBVIOUS
  <2>1. PICK i \in 1 .. Len(scope) : i \in places /\ others[j] = scope[i]
    BY <1>2
  <2>2. ~IsOwn(others[j])
    BY <1>1, <2>1 DEF External
  <2> QED
    BY <1>2, <1>3, <2>2 DEF External
<1>5. Selection(others, all) = others
  BY <1>2, <1>4, SelectionAll
<1> QED
  BY <1>2, <1>3, <1>5, IncludedIs

\* What a command reports is what it reports of the other sessions alone.
LEMMA OwnLeaveNone ==
    ASSUME History
    PROVE  OwnLeavesNoTrace
<1>1. ASSUME NEW scope \in Scopes, NEW others, others = Selection(scope, External(scope))
      PROVE  /\ DistillSessions(scope) = DistillSessions(others)
             /\ AnalyzePrompter(scope) = AnalyzePrompter(others)
             /\ BuildIntentReport(scope) = BuildIntentReport(others)
             /\ \A repo \in Repos :
                  BuildEfficacyReport(repo, scope, commits, 1) = BuildEfficacyReport(repo, others, commits, 1)
  <2>1. scope \in Seq(Session)
    BY ScopeFrom DEF FromHistory
  <2>2. Included(scope) = others /\ Included(others) = others
    BY <1>1, <2>1, IncludedIs, IncludedAgain
  <2>3. DistillSessions(scope) = DistillSessions(others)
    BY <2>2, Zenon DEF DistillSessions
  <2>4. AnalyzePrompter(scope) = AnalyzePrompter(others)
    BY <2>2, Zenon DEF AnalyzePrompter
  <2>5. BuildIntentReport(scope) = BuildIntentReport(others)
    BY <2>2, Zenon DEF BuildIntentReport
  <2>6. \A repo \in Repos :
          BuildEfficacyReport(repo, scope, commits, 1) = BuildEfficacyReport(repo, others, commits, 1)
    BY <2>2, Zenon DEF BuildEfficacyReport
  <2> QED
    BY <2>3, <2>4, <2>5, <2>6
<1> QED
  BY <1>1, Zenon DEF OwnLeavesNoTrace

\* The history of the sessions is as the proofs need it.
THEOREM HistoryKept == Spec => []History
<1> QED
  BY InitHistory, NextHistory, PTL DEF Spec

\* Sessions of ASA's own leave no trace in what is reported of any scope: the
\* reports are those of the other sessions in it.
THEOREM NoTraceOfOwn == Spec => []OwnLeavesNoTrace
<1> QED
  BY HistoryKept, OwnLeaveNone, PTL

\* Every agent gives its steps an id of their own.
AllNamed == \A s \in Starts : s.named = TRUE

\* A list holds the signals of the prompts of the sessions that are not ASA's own.
HoldsSignals(all, scope) ==
    /\ \A m \in 1 .. Len(all) :
         \E i \in External(scope) : \E k \in Prompted(scope[i]) : all[m] = SignalOf(scope[i], k)
    /\ \A i \in External(scope) : \A k \in Prompted(scope[i]) :
         \E m \in 1 .. Len(all) : all[m] = SignalOf(scope[i], k)

\* So does what the reports read.
LEMMA SignalsOfScope ==
    ASSUME NEW scope \in Seq(Session), NEW all, all = SignalsOf(Included(scope))
    PROVE  all \in Seq(Signal) /\ HoldsSignals(all, scope)
<1>1. PICK places : places = External(scope)
  OBVIOUS
<1>2. PICK others : others = Selection(scope, places)
  OBVIOUS
<1>3. others = Included(scope)
  BY <1>1, <1>2, IncludedIs
<1>4. /\ others \in Seq(Session)
      /\ \A j \in 1 .. Len(others) : \E i \in 1 .. Len(scope) : i \in places /\ others[j] = scope[i]
      /\ \A i \in 1 .. Len(scope) : i \in places => \E j \in 1 .. Len(others) : others[j] = scope[i]
  <2>1. others \in Seq(Session)
    BY <1>2, SelectionRange
  <2>2. \A j \in 1 .. Len(others) : \E i \in 1 .. Len(scope) : i \in places /\ others[j] = scope[i]
    BY <1>2, SelectionRange
  <2>3. \A i \in 1 .. Len(scope) : i \in places => \E j \in 1 .. Len(others) : others[j] = scope[i]
    BY <1>2, SelectionRange
  <2> QED
    BY <2>1, <2>2, <2>3
<1>5. PICK seqs : seqs = [i \in DOMAIN others |-> Signals(others[i])]
  OBVIOUS
<1>6. seqs \in Seq(Seq(Signal)) /\ Len(seqs) = Len(others)
        /\ \A i \in 1 .. Len(others) : seqs[i] = Signals(others[i])
  <2>1. \A i \in 1 .. Len(others) : Signals(others[i]) \in Seq(Signal)
    <3> SUFFICES ASSUME NEW i \in 1 .. Len(others) PROVE Signals(others[i]) \in Seq(Signal)
      OBVIOUS
    <3>1. PICK s \in Session : s = others[i]
      BY <1>4
    <3>2. Signals(s) \in Seq(Signal)
      BY SignalsAre
    <3> QED
      BY <3>1, <3>2
  <2>2. DOMAIN others = 1 .. Len(others) /\ Len(others) \in Nat
    BY <1>4
  <2>3. \A i \in 1 .. Len(others) : seqs[i] \in Seq(Signal)
    BY <1>5, <2>1, <2>2
  <2>4. PICK T : T = Seq(Signal)
    OBVIOUS
  <2>5. seqs \in [1 .. Len(others) -> T]
    BY <1>5, <2>2, <2>3, <2>4
  <2>6. seqs \in Seq(T) /\ Len(seqs) = Len(others)
    BY <2>2, <2>5
  <2> QED
    BY <1>5, <2>2, <2>4, <2>6
<1>7. all = FlattenSeq(seqs)
  BY <1>3, <1>5, Zenon DEF SignalsOf
<1>8. all \in Seq(Signal) /\ Holds(all, seqs, Len(seqs))
  BY <1>6, <1>7, FlattenRange
<1>9. /\ \A m \in 1 .. Len(all) : \E i \in 1 .. Len(others) : \E j \in 1 .. Len(seqs[i]) : all[m] = seqs[i][j]
      /\ \A i \in 1 .. Len(others) : \A j \in 1 .. Len(seqs[i]) : \E m \in 1 .. Len(all) : all[m] = seqs[i][j]
  BY <1>6, <1>8 DEF Holds
<1>10. DOMAIN scope = 1 .. Len(scope)
  OBVIOUS
<1>11. ASSUME NEW m \in 1 .. Len(all)
       PROVE  \E i \in External(scope) : \E k \in Prompted(scope[i]) :
                all[m] = SignalOf(scope[i], k)
  <2>0. PICK j \in 1 .. Len(others) : \E n \in 1 .. Len(seqs[j]) : all[m] = seqs[j][n]
    BY <1>9
  <2>1. PICK n \in 1 .. Len(seqs[j]) : all[m] = seqs[j][n]
    BY <2>0
  <2>2. PICK i \in 1 .. Len(scope) : i \in places /\ others[j] = scope[i]
    BY <1>4
  <2>3. PICK s \in Session : s = scope[i]
    OBVIOUS
  <2>4. seqs[j] = Signals(s)
    BY <1>6, <2>2, <2>3
  <2>5. PICK w : SignalsBy(s, w)
    BY SignalsAre
  <2>6. n \in 1 .. Len(w) /\ all[m] = SignalOf(s, w[n])
    BY <2>1, <2>4, <2>5 DEF SignalsBy
  <2>7. w[n] \in Prompted(s)
    BY <2>5, <2>6 DEF SignalsBy, Orderly
  <2> QED
    BY <1>1, <2>2, <2>3, <2>6, <2>7
<1>12. ASSUME NEW i \in External(scope), NEW k \in Prompted(scope[i])
       PROVE  \E m \in 1 .. Len(all) : all[m] = SignalOf(scope[i], k)
  <2>1. i \in 1 .. Len(scope)
    BY <1>10 DEF External
  <2>2. PICK j \in 1 .. Len(others) : others[j] = scope[i]
    BY <1>1, <1>4, <2>1
  <2>3. PICK s \in Session : s = scope[i]
    BY <2>1
  <2>4. seqs[j] = Signals(s)
    BY <1>6, <2>2, <2>3
  <2>5. PICK w : SignalsBy(s, w)
    BY SignalsAre
  <2>6. k \in Prompted(s) /\ k \in 1 .. Len(s.steps)
    <3>1. s.steps \in Seq(Recorded)
      BY SessionFields
    <3> QED
      BY <2>3, <3>1 DEF Prompted
  <2>7. PICK n \in 1 .. Len(w) : w[n] = k
    BY <2>5, <2>6 DEF SignalsBy, Orderly
  <2>8. n \in 1 .. Len(seqs[j]) /\ seqs[j][n] = SignalOf(s, k)
    BY <2>4, <2>5, <2>7 DEF SignalsBy
  <2>9. PICK x : x = SignalOf(s, k)
    OBVIOUS
  <2>10. \E m \in 1 .. Len(all) : all[m] = seqs[j][n]
    BY <1>9, <2>8
  <2>11. seqs[j][n] = x
    BY <2>8, <2>9
  <2> QED
    BY <2>3, <2>9, <2>10, <2>11, Zenon
<1> QED
  BY <1>8, <1>11, <1>12 DEF HoldsSignals

\* Whether two signals are of one step and one text.
SameStep(x, y) == x.step = y.step /\ x.text = y.text

\* What has been deduplicated has each of them once.
LEMMA DeduplicatedIs ==
    ASSUME NEW all \in Seq(Signal), NEW once, once = Deduplicated(all)
    PROVE  /\ once \in Seq(Signal)
           /\ \A j \in 1 .. Len(once) : \E m \in 1 .. Len(all) : once[j] = all[m]
           /\ \A m \in 1 .. Len(all) : \E j \in 1 .. Len(once) : SameStep(once[j], all[m])
           /\ \A i, j \in 1 .. Len(once) : SameStep(once[i], once[j]) => i = j
<1>1. PICK places : places = {i \in DOMAIN all : \A j \in 1 .. i - 1 : ~SameStep(all[j], all[i])}
  OBVIOUS
<1>2. once = Selection(all, places)
  BY <1>1, Zenon DEF Deduplicated, SameStep
<1>3. PICK w : /\ Orderly(w, Len(all), places) /\ once \in Seq(Signal) /\ Len(once) = Len(w)
               /\ \A j \in 1 .. Len(w) : once[j] = all[w[j]]
  BY <1>2, SelectionPlaces
<1>4. /\ w \in Seq(Nat) /\ Len(w) \in Nat
      /\ \A j \in 1 .. Len(w) : w[j] \in places /\ w[j] \in 1 .. Len(all)
      /\ \A i, j \in 1 .. Len(w) : i < j => w[i] < w[j]
      /\ \A x \in 1 .. Len(all) : x \in places => \E j \in 1 .. Len(w) : w[j] = x
  BY <1>3 DEF Orderly
<1>5. \A j \in 1 .. Len(once) : \E m \in 1 .. Len(all) : once[j] = all[m]
  BY <1>3, <1>4
<1>6. ASSUME NEW m \in 1 .. Len(all) PROVE \E j \in 1 .. Len(once) : SameStep(once[j], all[m])
  <2>1. PICK T : T = {n \in 1 .. Len(all) : SameStep(all[n], all[m])}
    OBVIOUS
  <2>2. T \in SUBSET Nat /\ m \in T
    BY <2>1 DEF SameStep
  <2>3. PICK n \in T : \A o \in T : n <= o
    BY <2>2, NonEmptyMin
  <2>4. n \in 1 .. Len(all) /\ SameStep(all[n], all[m])
    BY <2>1
  <2>5. ASSUME NEW j \in 1 .. n - 1 PROVE ~SameStep(all[j], all[n])
    <3>1. j \in 1 .. Len(all) /\ ~(n <= j)
      BY <2>4
    <3>2. ~SameStep(all[j], all[m])
      BY <2>1, <2>3, <3>1
    <3> QED
      BY <2>4, <3>2 DEF SameStep
  <2>6. n \in places
    BY <1>1, <2>4, <2>5
  <2>7. PICK j \in 1 .. Len(w) : w[j] = n
    BY <1>4, <2>4, <2>6
  <2> QED
    BY <1>3, <2>4, <2>7
<1>7. ASSUME NEW i \in 1 .. Len(once), NEW j \in 1 .. Len(once), i < j PROVE ~SameStep(once[i], once[j])
  <2>1. PICK a, b : a = w[i] /\ b = w[j]
    OBVIOUS
  <2>2. a \in 1 .. Len(all) /\ b \in 1 .. Len(all) /\ b \in places /\ a < b
    BY <1>3, <1>4, <1>7, <2>1
  <2>3. a \in 1 .. b - 1
    BY <2>2
  <2>4. ~SameStep(all[a], all[b])
    BY <1>1, <2>2, <2>3
  <2> QED
    BY <1>3, <2>1, <2>4
<1>8. ASSUME NEW i \in 1 .. Len(once), NEW j \in 1 .. Len(once), SameStep(once[i], once[j]) PROVE i = j
  <2>1. SameStep(once[j], once[i])
    BY <1>8 DEF SameStep
  <2>2. ~(i < j) /\ ~(j < i)
    BY <1>7, <1>8, <2>1
  <2>3. Len(once) \in Nat
    BY <1>3
  <2> QED
    BY <2>2, <2>3
<1> QED
  BY <1>3, <1>5, <1>6, <1>8

\* A step of a session in scope.
StepOf(scope, i, k, p) == i \in 1 .. Len(scope) /\ k \in 1 .. Len(scope[i].steps) /\ p = scope[i].steps[k]

\* It is one of a session of the history, and its id says when it was typed.
LEMMA StepNamed ==
    ASSUME History, AllNamed, NEW scope \in Scopes, NEW i, NEW k, NEW p, StepOf(scope, i, k, p),
           p.text.chars > 0
    PROVE  /\ p \in Recorded /\ p.id = <<"native", p.typed>>
           /\ \E a \in 1 .. Len(sessions) : /\ scope[i] = sessions[a]
                                            /\ scope[i].id = a /\ k \in 1 .. Len(sessions[a].steps)
<1>0. i \in 1 .. Len(scope) /\ k \in 1 .. Len(scope[i].steps) /\ p = scope[i].steps[k]
  BY DEF StepOf
<1>1. FromHistory(scope)
  BY ScopeFrom
<1>2. PICK a \in 1 .. Len(sessions) : scope[i] = sessions[a]
  BY <1>0, <1>1 DEF FromHistory
<1>3. HistoryOf(sessions, now)
  BY DEF History
<1>4. PICK s \in Session : s = sessions[a]
  BY <1>3 DEF HistoryOf
<1>5. s.steps \in Seq(Recorded) /\ s.named \in {x.named : x \in Starts}
  BY SessionFields
<1>6. p = s.steps[k] /\ k \in 1 .. Len(s.steps)
  BY <1>0, <1>2, <1>4
<1>7. p \in Recorded
  BY <1>5, <1>6
<1>8. s.named = TRUE
  BY <1>5 DEF AllNamed
<1>9. p.id = <<"native", p.typed>>
  <2>1. StepAt(TRUE, s.steps, k)
    BY <1>6, <1>8, SessionJoined DEF Joined
  <2>2. NamedStep(p) /\ (p.opens = FALSE => p.text.chars = 0)
    BY <1>6, <2>1 DEF StepAt
  <2>3. p.opens \in BOOLEAN
    BY <1>7, RecordedFields
  <2>4. p.opens = TRUE
    BY <2>2, <2>3
  <2> QED
    BY <2>2, <2>4 DEF NamedStep
<1>10. s.id = a
  BY <1>3, <1>4 DEF HistoryOf
<1> QED
  BY <1>2, <1>4, <1>6, <1>7, <1>9, <1>10

\* Where agents give ids, the prompts are those of their own steps.
LEMMA OwnSteps ==
    ASSUME AllNamed, NEW s \in Session
    PROVE  /\ \A k : k \in Prompted(s) <=> k \in DOMAIN s.steps /\ s.steps[k].text.chars > 0
           /\ \A k \in Prompted(s) : SignalOf(s, k).text = s.steps[k].text
<1>1. PICK d \in {0, 1} : Shifted(s, d)
  BY Shift
<1>2. s.named = TRUE
  BY SessionFields DEF AllNamed
<1>3. PICK steps \in Seq(Recorded), n \in Nat : steps = s.steps /\ n = Len(steps) /\ DOMAIN steps = 1 .. n
  BY SessionFields
<1>4. /\ \A k \in 1 .. n : k \in Prompted(s) <=> k + d <= n /\ steps[k + d].text.chars > 0
      /\ \A k \in Prompted(s) : SignalOf(s, k).text = steps[k + d].text
      /\ d = 0
  BY <1>1, <1>2, <1>3 DEF Shifted
<1>5. \A k \in 1 .. n : k + d = k /\ k <= n
  BY <1>4
<1>6. \A k : k \in Prompted(s) => k \in 1 .. n
  BY <1>3 DEF Prompted
<1> QED
  BY <1>3, <1>4, <1>5, <1>6

\* What was typed in a scope, by the prompts of its sessions.
LEMMA TypedIs ==
    ASSUME AllNamed, NEW scope \in Seq(Session), NEW y
    PROVE  y \in Typed(scope) <=>
             \E i \in External(scope) : \E k \in Prompted(scope[i]) :
               y = <<scope[i].steps[k].typed, scope[i].steps[k].text>>
<1>1. PICK steps : steps = UNION {ToSet(scope[i].steps) : i \in External(scope)}
  OBVIOUS
<1>2. \A q : q \in steps <=> \E i \in External(scope) : q \in ToSet(scope[i].steps)
  BY <1>1
<1>3. \A i \in External(scope) : \A q :
        q \in ToSet(scope[i].steps) <=> \E k \in DOMAIN scope[i].steps : q = scope[i].steps[k]
  BY DEF ToSet
<1>4. y \in Typed(scope) <=> \E q \in steps : q.text.chars > 0 /\ y = <<q.typed, q.text>>
  BY <1>1 DEF Typed
<1>5. ASSUME NEW q \in steps, q.text.chars > 0, y = <<q.typed, q.text>>
      PROVE  \E i \in External(scope) : \E k \in Prompted(scope[i]) :
               y = <<scope[i].steps[k].typed, scope[i].steps[k].text>>
  <2>1. PICK i \in External(scope) : q \in ToSet(scope[i].steps)
    BY <1>2
  <2>2. PICK k \in DOMAIN scope[i].steps : q = scope[i].steps[k]
    BY <1>3, <2>1
  <2>3. i \in 1 .. Len(scope)
    BY DEF External
  <2>4. PICK s \in Session : s = scope[i]
    BY <2>3
  <2>5. k \in Prompted(s)
    BY <1>5, <2>2, <2>4, OwnSteps
  <2> QED
    BY <1>5, <2>2, <2>4, <2>5
<1>6. ASSUME NEW i \in External(scope), NEW k \in Prompted(scope[i]),
             y = <<scope[i].steps[k].typed, scope[i].steps[k].text>>
      PROVE  \E q \in steps : q.text.chars > 0 /\ y = <<q.typed, q.text>>
  <2>1. PICK q : q = scope[i].steps[k]
    OBVIOUS
  <2>2. k \in DOMAIN scope[i].steps /\ q.text.chars > 0
    <3>1. i \in 1 .. Len(scope)
      BY DEF External
    <3>2. PICK s \in Session : s = scope[i]
      BY <3>1
    <3> QED
      BY <2>1, <3>2, OwnSteps
  <2>3. q \in steps
    BY <1>2, <1>3, <2>1, <2>2
  <2> QED
    BY <1>6, <2>1, <2>2, <2>3
<1> QED
  BY <1>4, <1>5, <1>6

\* When the prompt of a signal was typed, and its text.
NameOf(x) == <<x.step[2], x.text>>

\* What distill keeps has each prompt that was typed, once.
LEMMA OnceIs ==
    ASSUME History, AllNamed, NEW scope \in Scopes, NEW once, once = Deduplicated(SignalsOf(Included(scope)))
    PROVE  /\ once \in Seq(Signal)
           /\ \A j \in 1 .. Len(once) : NameOf(once[j]) \in Typed(scope)
           /\ \A y \in Typed(scope) : \E j \in 1 .. Len(once) : NameOf(once[j]) = y
           /\ \A i, j \in 1 .. Len(once) : NameOf(once[i]) = NameOf(once[j]) => i = j
<1>1. scope \in Seq(Session)
  BY ScopeFrom DEF FromHistory
<1>2. PICK all : all = SignalsOf(Included(scope))
  OBVIOUS
<1>3. all \in Seq(Signal) /\ HoldsSignals(all, scope)
  BY <1>1, <1>2, SignalsOfScope
<1>4. once = Deduplicated(all)
  BY <1>2
<1>5. once \in Seq(Signal)
  BY <1>3, <1>4, DeduplicatedIs
<1>6. \A j \in 1 .. Len(once) : \E m \in 1 .. Len(all) : once[j] = all[m]
  BY <1>3, <1>4, DeduplicatedIs
<1>7. \A m \in 1 .. Len(all) : \E j \in 1 .. Len(once) : SameStep(once[j], all[m])
  BY <1>3, <1>4, DeduplicatedIs
<1>8. \A i, j \in 1 .. Len(once) : SameStep(once[i], once[j]) => i = j
  BY <1>3, <1>4, DeduplicatedIs
<1>9. ASSUME NEW i \in External(scope), NEW k \in Prompted(scope[i]), NEW x, x = SignalOf(scope[i], k)
      PROVE  /\ x.step = <<"native", x.step[2]>>
             /\ NameOf(x) = <<scope[i].steps[k].typed, scope[i].steps[k].text>>
  <2>1. i \in 1 .. Len(scope)
    BY <1>1 DEF External
  <2>2. PICK s \in Session : s = scope[i]
    BY <1>1, <2>1
  <2>3. PICK steps \in Seq(Recorded) : steps = scope[i].steps
    BY <2>2, SessionFields
  <2>4. k \in 1 .. Len(steps)
    BY <2>2, <2>3 DEF Prompted
  <2>5. PICK p : p = steps[k]
    OBVIOUS
  <2>6. p.id = <<"native", p.typed>>
    <3>1. StepOf(scope, i, k, p)
      BY <2>1, <2>3, <2>4, <2>5 DEF StepOf
    <3>2. p.text.chars > 0
      BY <2>2, <2>3, <2>5, OwnSteps
    <3> QED
      BY <3>1, <3>2, StepNamed
  <2>7. x.step = p.id /\ x.text = p.text
    <3>1. x.step = p.id
      BY <1>9, <2>3, <2>5 DEF SignalOf
    <3>2. SignalOf(s, k).text = p.text
      BY <2>2, <2>3, <2>5, OwnSteps
    <3> QED
      BY <1>9, <2>2, <3>1, <3>2
  <2> QED
    BY <2>3, <2>5, <2>6, <2>7 DEF NameOf
<1>10. ASSUME NEW j \in 1 .. Len(once)
       PROVE  once[j].step = <<"native", once[j].step[2]>> /\ NameOf(once[j]) \in Typed(scope)
  <2>1. PICK m \in 1 .. Len(all) : once[j] = all[m]
    BY <1>6
  <2>2. PICK i \in External(scope) : \E k \in Prompted(scope[i]) : all[m] = SignalOf(scope[i], k)
    BY <1>3 DEF HoldsSignals
  <2>3. PICK k \in Prompted(scope[i]) : all[m] = SignalOf(scope[i], k)
    BY <2>2
  <2>4. /\ once[j].step = <<"native", once[j].step[2]>>
        /\ NameOf(once[j]) = <<scope[i].steps[k].typed, scope[i].steps[k].text>>
    BY <1>9, <2>1, <2>3
  <2> QED
    BY <1>1, <2>4, TypedIs
<1>11. ASSUME NEW y \in Typed(scope) PROVE \E j \in 1 .. Len(once) : NameOf(once[j]) = y
  <2>1. PICK i \in External(scope) : \E k \in Prompted(scope[i]) :
               y = <<scope[i].steps[k].typed, scope[i].steps[k].text>>
    BY <1>1, TypedIs
  <2>2. PICK k \in Prompted(scope[i]) : y = <<scope[i].steps[k].typed, scope[i].steps[k].text>>
    BY <2>1
  <2>3. PICK m \in 1 .. Len(all) : all[m] = SignalOf(scope[i], k)
    BY <1>3 DEF HoldsSignals
  <2>4. NameOf(all[m]) = y
    BY <1>9, <2>2, <2>3
  <2>5. PICK j \in 1 .. Len(once) : SameStep(once[j], all[m])
    BY <1>7
  <2>6. NameOf(once[j]) = NameOf(all[m])
    BY <2>5 DEF SameStep, NameOf
  <2> QED
    BY <2>4, <2>6
<1>12. ASSUME NEW i \in 1 .. Len(once), NEW j \in 1 .. Len(once), NameOf(once[i]) = NameOf(once[j])
       PROVE  i = j
  <2>1. once[i].step[2] = once[j].step[2] /\ once[i].text = once[j].text
    BY <1>12 DEF NameOf
  <2>2. once[i].step = once[j].step
    BY <1>10, <2>1
  <2> QED
    BY <1>8, <2>1, <2>2 DEF SameStep
<1> QED
  BY <1>5, <1>10, <1>11, <1>12

\* As many signals have one of some texts as prompts that were typed.
SameNumber(once, scope, T) ==
    Cardinality({j \in DOMAIN once : once[j].text \in T}) = Cardinality({y \in Typed(scope) : y[2] \in T})

\* That is so of what distill keeps.
LEMMA CountIs ==
    ASSUME History, AllNamed, NEW scope \in Scopes, NEW once, once = Deduplicated(SignalsOf(Included(scope))),
           NEW T
    PROVE  SameNumber(once, scope, T)
<1>1. once \in Seq(Signal)
  BY OnceIs
<1>2. \A j \in 1 .. Len(once) : NameOf(once[j]) \in Typed(scope)
  BY OnceIs
<1>3. \A y \in Typed(scope) : \E j \in 1 .. Len(once) : NameOf(once[j]) = y
  BY OnceIs
<1>4. \A i, j \in 1 .. Len(once) : NameOf(once[i]) = NameOf(once[j]) => i = j
  BY OnceIs
<1>5. Len(once) \in Nat /\ DOMAIN once = 1 .. Len(once)
  BY <1>1
<1>6. PICK J : J = {j \in DOMAIN once : once[j].text \in T}
  OBVIOUS
<1>7. PICK Y : Y = {y \in Typed(scope) : y[2] \in T}
  OBVIOUS
<1>8. \A j \in 1 .. Len(once) : NameOf(once[j])[2] = once[j].text
  BY DEF NameOf
<1>9. PICK f : f = [j \in J |-> NameOf(once[j])]
  OBVIOUS
<1>10. J \in SUBSET (1 .. Len(once)) /\ DOMAIN f = J /\ \A j \in J : f[j] = NameOf(once[j])
  BY <1>5, <1>6, <1>9
<1>11. \A j \in J : f[j] \in Y
  BY <1>2, <1>6, <1>7, <1>8, <1>10
<1>12. f \in [J -> Y]
  BY <1>9, <1>10, <1>11
<1>13. \A i, j \in J : f[i] = f[j] => i = j
  BY <1>4, <1>10
<1>14. \A y \in Y : \E j \in J : f[j] = y
  <2> SUFFICES ASSUME NEW y \in Y PROVE \E j \in J : f[j] = y
    OBVIOUS
  <2>1. y \in Typed(scope) /\ y[2] \in T
    BY <1>7
  <2>2. PICK j \in 1 .. Len(once) : NameOf(once[j]) = y
    BY <1>3, <2>1
  <2>3. j \in J
    BY <1>5, <1>6, <1>8, <2>1, <2>2
  <2> QED
    BY <1>10, <2>2, <2>3
<1>15. f \in Bijection(J, Y)
  BY <1>10, <1>12, <1>13, <1>14 DEF Bijection, Injection, Surjection, IsInjective
<1>16. IsFiniteSet(J)
  <2>1. IsFiniteSet(1 .. Len(once))
    BY <1>5, FS_Interval
  <2> QED
    BY <1>10, <2>1, FS_Subset
<1>17. ExistsBijection(J, Y)
  BY <1>15 DEF ExistsBijection
<1>18. Cardinality(Y) = Cardinality(J)
  BY <1>16, <1>17, FS_Bijection
<1> QED
  BY <1>6, <1>7, <1>18 DEF SameNumber

\* Distill counts what was typed.
LEMMA CountedOnce ==
    ASSUME History, AllNamed
    PROVE  PromptsCountedOnce
<1>1. ASSUME NEW scope \in Scopes
      PROVE  LET report == DistillSessions(scope)
                 commands == {x \in Typed(scope) : x[2].command # ""}
             IN /\ report.prompts = Cardinality(Typed(scope) \ commands)
                /\ \A c \in {x[2].command : x \in commands} :
                     report.command_usage[c].count = Cardinality({x \in commands : x[2].command = c})
  <2>0. PICK report, commands : /\ report = DistillSessions(scope)
                                /\ commands = {x \in Typed(scope) : x[2].command # ""}
    OBVIOUS
  <2>1. PICK once : once = Deduplicated(SignalsOf(Included(scope)))
    OBVIOUS
  <2>2. report.prompts = Count(once, LAMBDA x : SignalKind(x.text) # "command")
    BY <2>0, <2>1 DEF DistillSessions, DistillOf
  <2>3. report.command_usage = CommandUsage(once)
    BY <2>0, <2>1 DEF DistillSessions, DistillOf
  <2>4. \A j \in DOMAIN once : SignalKind(once[j].text) # "command" <=> once[j].text.command = ""
    BY DEF SignalKind
  <2>5. PICK texts : texts = {y[2] : y \in Typed(scope)}
    OBVIOUS
  <2>6. \A j \in DOMAIN once : once[j].text \in texts
    <3>1. once \in Seq(Signal)
      BY <2>1, OnceIs
    <3>2. \A j \in 1 .. Len(once) : NameOf(once[j]) \in Typed(scope)
      BY <2>1, OnceIs
    <3>3. \A j \in 1 .. Len(once) : NameOf(once[j])[2] = once[j].text
      BY DEF NameOf
    <3>4. DOMAIN once = 1 .. Len(once)
      BY <3>1
    <3> QED
      BY <2>5, <3>2, <3>3, <3>4
  <2>7. report.prompts = Cardinality(Typed(scope) \ commands)
    <3>1. PICK T : T = {t \in texts : t.command = ""}
      OBVIOUS
    <3>2. Cardinality({j \in DOMAIN once : once[j].text \in T}) = Cardinality({y \in Typed(scope) : y[2] \in T})
      <4>1. SameNumber(once, scope, T)
        BY <2>1, CountIs
      <4> QED
        BY <4>1 DEF SameNumber
    <3>3. {j \in DOMAIN once : once[j].text \in T} = {j \in DOMAIN once : SignalKind(once[j].text) # "command"}
      BY <2>4, <2>6, <3>1
    <3>4. {y \in Typed(scope) : y[2] \in T} = Typed(scope) \ commands
      BY <2>0, <2>5, <3>1
    <3>5. report.prompts = Cardinality({j \in DOMAIN once : SignalKind(once[j].text) # "command"})
      BY <2>2 DEF Count
    <3> QED
      BY <3>2, <3>3, <3>4, <3>5
  <2>8. ASSUME NEW c \in {x[2].command : x \in commands}
        PROVE  report.command_usage[c].count = Cardinality({x \in commands : x[2].command = c})
    <3>1. PICK T : T = {t \in texts : t.command # "" /\ t.command = c}
      OBVIOUS
    <3>2. Cardinality({j \in DOMAIN once : once[j].text \in T}) = Cardinality({y \in Typed(scope) : y[2] \in T})
      <4>1. SameNumber(once, scope, T)
        BY <2>1, CountIs
      <4> QED
        BY <4>1 DEF SameNumber
    <3>3. PICK used : used = {j \in DOMAIN once : once[j].text.command # ""}
      OBVIOUS
    <3>4. {j \in DOMAIN once : once[j].text \in T} = {j \in used : once[j].text.command = c}
      BY <2>6, <3>1, <3>3
    <3>5. {y \in Typed(scope) : y[2] \in T} = {x \in commands : x[2].command = c}
      BY <2>0, <2>5, <3>1
    <3>6. c \in {once[j].text.command : j \in used}
      <4>1. PICK x \in commands : x[2].command = c
        OBVIOUS
      <4>2. x \in Typed(scope) /\ x[2].command # ""
        BY <2>0
      <4>3. \A y \in Typed(scope) : \E j \in 1 .. Len(once) : NameOf(once[j]) = y
        BY <2>1, OnceIs
      <4>4. PICK j \in 1 .. Len(once) : NameOf(once[j]) = x
        BY <4>2, <4>3
      <4>5. once[j].text = x[2]
        BY <4>4 DEF NameOf
      <4>6. once \in Seq(Signal)
        BY <2>1, OnceIs
      <4>7. j \in DOMAIN once
        BY <4>6
      <4>8. once[j].text.command # ""
        BY <4>2, <4>5, Zenon
      <4>9. j \in used
        BY <3>3, <4>7, <4>8
      <4> QED
        BY <4>1, <4>5, <4>9
    <3>7. PICK uses : uses = {j \in used : once[j].text.command = c}
      OBVIOUS
    <3>8. CommandUsage(once)[c] =
            [count |-> Cardinality(uses), sessions |-> Cardinality({once[i].session : i \in uses})]
      BY <3>3, <3>6, <3>7 DEF CommandUsage
    <3>9. CommandUsage(once)[c].count = Cardinality(uses)
      BY <3>8
    <3> QED
      BY <2>3, <3>2, <3>4, <3>5, <3>7, <3>9
  <2> QED
    BY <2>0, <2>7, <2>8, Zenon
<1> QED
  BY <1>1, Zenon DEF PromptsCountedOnce

\* If every agent gives its steps an id of their own, each prompt and each command
\* that was typed in a scope is counted once, whatever was forked.
THEOREM PromptsCounted == AllNamed => (Spec => []PromptsCountedOnce)
<1>1. AllNamed => (History => PromptsCountedOnce)
  BY CountedOnce
<1>2. ASSUME AllNamed PROVE Spec => []PromptsCountedOnce
  <2>1. History => PromptsCountedOnce
    BY <1>1, <1>2
  <2> QED
    BY HistoryKept, <2>1, PTL
<1> QED
  BY <1>2

-----------------------------------------------------------------------------
(* The clusters. *)

Cluster ==
    [kind : {"command", "correction", "question", "directive"}, words : {t.text.words : t \in Turns},
     members : Seq(Signal)]

\* The fields of a signal and of its text.
LEMMA SignalFields ==
    ASSUME NEW x \in Signal
    PROVE  /\ x.session \in Nat /\ x.text \in {t.text : t \in Turns} /\ x.text.chars \in Nat
           /\ x.text.words \in {t.text.words : t \in Turns} /\ IsFiniteSet(x.text.words)
           /\ SignalKind(x.text) \in {"command", "correction", "question", "directive"}
<1>1. x.session \in Nat /\ x.text \in {t.text : t \in Turns}
  BY DEF Signal
<1>2. PICK t \in Turns : x.text = t.text
  BY <1>1
<1>3. t.text.chars \in Nat /\ IsFiniteSet(t.text.words)
  BY InsightsAssumption DEF InsightsAssumption
<1>4. SignalKind(x.text) \in {"command", "correction", "question", "directive"}
  BY DEF SignalKind
<1> QED
  BY <1>1, <1>2, <1>3, <1>4

\* The k-th of some clusters is the first that takes a text.
FirstTaking(clusters, k, text) ==
    /\ k \in 1 .. Len(clusters)
    /\ Takes(clusters[k], text)
    /\ \A h \in 1 .. k - 1 : ~Takes(clusters[h], text)

\* And it has a signal with that text.
HasFirst(clusters, k, x) ==
    /\ FirstTaking(clusters, k, x.text)
    /\ \E l \in 1 .. Len(clusters[k].members) : clusters[k].members[l] = x

\* A signal has been placed in some clusters, and those of before stay where they are.
Placed(clusters, new, x) ==
    /\ new \in Seq(Cluster)
    /\ \E k \in 1 .. Len(new) : HasFirst(new, k, x)
    /\ \A y, k : HasFirst(clusters, k, y) => HasFirst(new, k, y)

\* A text is similar to itself.
LEMMA TakesOwn ==
    ASSUME NEW x \in Signal, x.text.words # {}, NEW c,
           c.kind = SignalKind(x.text), c.words = x.text.words
    PROVE  Takes(c, x.text)
<1>1. PICK words : words = x.text.words
  OBVIOUS
<1>2. IsFiniteSet(words) /\ words # {}
  BY <1>1, SignalFields
<1>3. Cardinality(words) \in Nat
  BY <1>2, FS_CardinalityType
<1>4. words \cap words = words /\ words \cup words = words
  OBVIOUS
<1>5. Cardinality(words) * 100 >= Cardinality(words) * 45
  BY <1>3
<1>6. JaccardAtLeast(words, words, 45)
  BY <1>2, <1>4, <1>5 DEF JaccardAtLeast
<1> QED
  BY <1>1, <1>6 DEF Takes

\* A signal begins a cluster.
LEMMA BeginsCluster ==
    ASSUME NEW clusters \in Seq(Cluster), NEW x \in Signal, x.text.words # {},
           \A k \in 1 .. Len(clusters) : ~Takes(clusters[k], x.text),
           NEW c, c = [kind |-> SignalKind(x.text), words |-> x.text.words, members |-> <<x>>],
           NEW new, new = Append(clusters, c)
    PROVE  Placed(clusters, new, x)
<1>1. PICK members : members = <<x>>
  OBVIOUS
<1>2. members \in Seq(Signal) /\ Len(members) = 1 /\ members[1] = x
  BY <1>1
<1>3. c.kind = SignalKind(x.text) /\ c.words = x.text.words /\ c.members = members
  BY <1>1
<1>4. c \in Cluster
  <2>1. PICK kind, words : kind = SignalKind(x.text) /\ words = x.text.words
    OBVIOUS
  <2>2. kind \in {"command", "correction", "question", "directive"} /\ words \in {t.text.words : t \in Turns}
    BY <2>1, SignalFields
  <2>3. c = [kind |-> kind, words |-> words, members |-> members]
    BY <1>1, <2>1
  <2> QED
    BY <1>2, <2>2, <2>3 DEF Cluster
<1>5. PICK n \in Nat : n = Len(clusters) + 1
  OBVIOUS
<1>6. /\ new \in Seq(Cluster) /\ Len(new) = n /\ new[n] = c /\ n \in 1 .. Len(new)
      /\ \A k \in 1 .. n - 1 : new[k] = clusters[k]
  BY <1>4, <1>5
<1>7. HasFirst(new, n, x)
  <2>1. Takes(new[n], x.text)
    BY <1>3, <1>6, TakesOwn
  <2>2. \A h \in 1 .. n - 1 : ~Takes(new[h], x.text)
    BY <1>5, <1>6
  <2>3. \E l \in 1 .. Len(new[n].members) : new[n].members[l] = x
    <3>1. new[n].members = members
      BY <1>3, <1>6
    <3>2. \E l \in 1 .. Len(members) : members[l] = x
      BY <1>2
    <3> QED
      BY <3>1, <3>2
  <2> QED
    BY <1>6, <2>1, <2>2, <2>3 DEF HasFirst, FirstTaking
<1>8. ASSUME NEW y, NEW k, HasFirst(clusters, k, y) PROVE HasFirst(new, k, y)
  <2>1. k \in 1 .. n - 1 /\ new[k] = clusters[k] /\ k \in 1 .. Len(new)
    BY <1>5, <1>6, <1>8 DEF HasFirst, FirstTaking
  <2>2. \A h \in 1 .. k - 1 : new[h] = clusters[h]
    BY <1>6, <2>1
  <2> QED
    BY <1>8, <2>1, <2>2 DEF HasFirst, FirstTaking
<1> QED
  BY <1>6, <1>7, <1>8 DEF Placed

\* A signal joins the first cluster that takes it.
LEMMA JoinsCluster ==
    ASSUME NEW clusters \in Seq(Cluster), NEW x \in Signal,
           NEW m, FirstTaking(clusters, m, x.text), NEW new, new = [clusters EXCEPT ![m].members = Append(@, x)]
    PROVE  Placed(clusters, new, x)
<1>0. m \in 1 .. Len(clusters) /\ Takes(clusters[m], x.text) /\ \A k \in 1 .. m - 1 : ~Takes(clusters[k], x.text)
  BY DEF FirstTaking
<1>1. PICK c \in Cluster : c = clusters[m]
  BY <1>0
<1>2. c.members \in Seq(Signal)
  BY DEF Cluster
<1>3. PICK old \in Seq(Signal) : old = c.members
  BY <1>2
<1>4. PICK members : members = Append(old, x)
  OBVIOUS
<1>5. /\ members \in Seq(Signal) /\ Len(members) = Len(old) + 1 /\ members[Len(old) + 1] = x
      /\ Len(old) + 1 \in 1 .. Len(members)
      /\ \A l \in 1 .. Len(old) : members[l] = old[l] /\ l \in 1 .. Len(members)
  BY <1>4
<1>6. PICK d : d = [c EXCEPT !.members = members]
  OBVIOUS
<1>7. d \in Cluster /\ d.kind = c.kind /\ d.words = c.words /\ d.members = members
  BY <1>5, <1>6 DEF Cluster
<1>8. new = [clusters EXCEPT ![m] = d]
  BY <1>0, <1>1, <1>3, <1>4, <1>6
<1>9. /\ new \in Seq(Cluster) /\ Len(new) = Len(clusters) /\ new[m] = d
      /\ \A k \in 1 .. Len(clusters) : k # m => new[k] = clusters[k]
  <2>1. Len(clusters) \in Nat /\ DOMAIN clusters = 1 .. Len(clusters)
          /\ \A k \in 1 .. Len(clusters) : clusters[k] \in Cluster
    OBVIOUS
  <2>2. DOMAIN new = 1 .. Len(clusters) /\ new = [k \in 1 .. Len(clusters) |-> IF k = m THEN d ELSE clusters[k]]
    BY <1>8, <2>1
  <2>3. new[m] = d /\ \A k \in 1 .. Len(clusters) : k # m => new[k] = clusters[k]
    BY <1>0, <2>2
  <2>4. \A k \in 1 .. Len(clusters) : new[k] \in Cluster
    BY <1>7, <2>1, <2>3
  <2>5. new \in [1 .. Len(clusters) -> Cluster]
    BY <2>2, <2>4
  <2>6. new \in Seq(Cluster) /\ Len(new) = Len(clusters)
    BY <2>1, <2>5
  <2> QED
    BY <2>3, <2>6
<1>10. \A k \in 1 .. Len(clusters) : \A text : Takes(new[k], text) <=> Takes(clusters[k], text)
  <2> SUFFICES ASSUME NEW k \in 1 .. Len(clusters), NEW text
               PROVE  Takes(new[k], text) <=> Takes(clusters[k], text)
    OBVIOUS
  <2>1. new[k].kind = clusters[k].kind /\ new[k].words = clusters[k].words
    BY <1>1, <1>7, <1>9
  <2> QED
    BY <2>1, Zenon DEF Takes
<1>11. HasFirst(new, m, x)
  <2>1. \E l \in 1 .. Len(new[m].members) : new[m].members[l] = x
    <3>1. new[m].members = members
      BY <1>7, <1>9
    <3>2. \E l \in 1 .. Len(members) : members[l] = x
      BY <1>5
    <3> QED
      BY <3>1, <3>2
  <2>2. \A h \in 1 .. m - 1 : ~Takes(new[h], x.text)
    BY <1>0, <1>10
  <2>3. Takes(new[m], x.text)
    BY <1>0, <1>10
  <2> QED
    BY <1>0, <1>9, <2>1, <2>2, <2>3 DEF HasFirst, FirstTaking
<1>12. ASSUME NEW y, NEW k, HasFirst(clusters, k, y) PROVE HasFirst(new, k, y)
  <2>1. /\ k \in 1 .. Len(clusters)
        /\ Takes(clusters[k], y.text)
        /\ \A h \in 1 .. k - 1 : ~Takes(clusters[h], y.text)
    BY <1>12 DEF HasFirst, FirstTaking
  <2>2. PICK l \in 1 .. Len(clusters[k].members) : clusters[k].members[l] = y
    BY <1>12 DEF HasFirst, FirstTaking
  <2>3. \E n \in 1 .. Len(new[k].members) : new[k].members[n] = y
    <3>1. CASE k = m
      <4>1. new[k].members = members /\ clusters[k].members = old
        BY <1>1, <1>3, <1>7, <1>9, <3>1
      <4>2. l \in 1 .. Len(old) /\ old[l] = y
        BY <2>2, <4>1
      <4>3. \E n \in 1 .. Len(members) : members[n] = y
        BY <1>5, <4>2
      <4> QED
        BY <4>1, <4>3
    <3>2. CASE k # m
      BY <1>9, <2>1, <2>2, <3>2
    <3> QED
      BY <3>1, <3>2
  <2>4. \A h \in 1 .. k - 1 : ~Takes(new[h], y.text)
    <3>1. \A h \in 1 .. k - 1 : h \in 1 .. Len(clusters)
      BY <2>1
    <3> QED
      BY <1>10, <2>1, <3>1
  <2>5. Takes(new[k], y.text)
    BY <1>10, <2>1
  <2> QED
    BY <1>9, <2>1, <2>3, <2>4, <2>5 DEF HasFirst, FirstTaking
<1> QED
  BY <1>0, <1>9, <1>11, <1>12 DEF Placed

\* Each signal is placed in the first cluster that takes it, and those that were
\* placed before stay where they are.
LEMMA PlaceKeeps ==
    ASSUME NEW clusters \in Seq(Cluster), NEW x \in Signal, x.text.words # {},
           NEW new, new = Place(clusters, x)
    PROVE  Placed(clusters, new, x)
<1>1. PICK fits : fits = {i \in DOMAIN clusters : Takes(clusters[i], x.text)}
  OBVIOUS
<1>2. fits \in SUBSET Nat /\ \A i \in 1 .. Len(clusters) : i \in fits <=> Takes(clusters[i], x.text)
  BY <1>1
<1>3. new = IF fits = {}
            THEN Append(clusters, [kind |-> SignalKind(x.text), words |-> x.text.words, members |-> <<x>>])
            ELSE [clusters EXCEPT ![Min(fits)].members = Append(@, x)]
  BY <1>1, Zenon DEF Place
<1>4. CASE fits = {}
  <2>1. PICK c : c = [kind |-> SignalKind(x.text), words |-> x.text.words, members |-> <<x>>]
    OBVIOUS
  <2>2. new = Append(clusters, c)
    BY <1>3, <1>4, <2>1
  <2>3. \A k \in 1 .. Len(clusters) : ~Takes(clusters[k], x.text)
    BY <1>2, <1>4
  <2> QED
    BY <2>1, <2>2, <2>3, BeginsCluster
<1>5. CASE fits # {}
  <2>1. PICK m \in fits : \A i \in fits : m <= i
    BY <1>2, <1>5, NonEmptyMin
  <2>2. Min(fits) = m
    BY <1>2, <2>1, MinIs
  <2>3. new = [clusters EXCEPT ![m].members = Append(@, x)]
    BY <1>3, <1>5, <2>2
  <2>4. m \in 1 .. Len(clusters) /\ Takes(clusters[m], x.text)
    BY <1>1
  <2>5. \A k \in 1 .. m - 1 : ~Takes(clusters[k], x.text)
    <3> SUFFICES ASSUME NEW k \in 1 .. m - 1 PROVE ~Takes(clusters[k], x.text)
      OBVIOUS
    <3>1. k \in 1 .. Len(clusters) /\ ~(m <= k)
      BY <2>4
    <3>2. k \notin fits
      BY <2>1, <3>1
    <3> QED
      BY <1>2, <3>1, <3>2
  <2>6. FirstTaking(clusters, m, x.text)
    BY <2>4, <2>5 DEF FirstTaking
  <2> QED
    BY <2>3, <2>6, JoinsCluster
<1> QED
  BY <1>4, <1>5

\* A signal is in the first cluster that takes it.
InFirst(clusters, x) == \E k \in 1 .. Len(clusters) : HasFirst(clusters, k, x)

\* What there is after each of the signals that are placed.
IsPlacing(g, sorted) ==
    g = [n \in 0 .. Len(sorted) |-> IF n = 0 THEN <<>> ELSE Place(g[n - 1], sorted[n])]

\* The recursive function of the clusters exists.
LEMMA PlacingExists ==
    ASSUME NEW sorted \in Seq(Signal), \A n \in 1 .. Len(sorted) : sorted[n].text.words # {}
    PROVE  \E g : IsPlacing(g, sorted)
<1>1. PICK N \in Nat : N = Len(sorted)
  OBVIOUS
<1>2. PICK S : S = Seq(Cluster)
  OBVIOUS
<1>3. PICK step : step = [a \in S \X (1 .. N) |-> Place(a[1], sorted[a[2]])]
  OBVIOUS
<1>4. ASSUME NEW c \in S, NEW n \in 1 .. N
      PROVE  step[<<c, n>>] = Place(c, sorted[n]) /\ step[<<c, n>>] \in S
  <2>1. PICK a : a = <<c, n>>
    OBVIOUS
  <2>2. a \in S \X (1 .. N) /\ a[1] = c /\ a[2] = n
    BY <2>1
  <2>3. step[a] = Place(c, sorted[n])
    BY <1>3, <2>2
  <2>4. PICK x \in Signal : x = sorted[n]
    BY <1>1
  <2>5. x.text.words # {}
    BY <1>1, <2>4
  <2>6. PICK new : new = Place(c, x)
    OBVIOUS
  <2>7. Placed(c, new, x)
    BY <1>2, <2>5, <2>6, PlaceKeeps
  <2>8. new \in Seq(Cluster)
    BY <2>7 DEF Placed
  <2> QED
    BY <1>2, <2>1, <2>3, <2>4, <2>6, <2>8
<1>5. <<>> \in S
  BY <1>2
<1>6. Within(step, N, S)
  BY <1>4 DEF Within
<1>7. PICK base : base = <<>> /\ base \in S
  BY <1>5
<1>8. PICK f \in [0 .. N -> S] : IsLoop(f, N, base, step)
  BY <1>6, <1>7, LoopExists
<1>9. f[0] = <<>> /\ \A n \in 1 .. N : f[n] = Place(f[n - 1], sorted[n])
  <2>1. f[0] = base /\ \A n \in 1 .. N : f[n] = step[<<f[n - 1], n>>]
    BY <1>8 DEF IsLoop
  <2>2. \A n \in 1 .. N : n - 1 \in 0 .. N
    BY <1>1
  <2>3. \A n \in 1 .. N : f[n - 1] \in S
    BY <1>8, <2>2
  <2> QED
    BY <1>4, <1>7, <2>1, <2>3
<1>10. \A n \in 0 .. N : f[n] = IF n = 0 THEN <<>> ELSE Place(f[n - 1], sorted[n])
  BY <1>1, <1>9
<1>11. f = [n \in 0 .. N |-> f[n]]
  BY <1>8
<1>12. f = [n \in 0 .. N |-> IF n = 0 THEN <<>> ELSE Place(f[n - 1], sorted[n])]
  BY <1>10, <1>11
<1> QED
  BY <1>1, <1>12 DEF IsPlacing

\* The clusters are the last of it.
LEMMA PlacingIs ==
    ASSUME NEW sorted \in Seq(Signal), \A n \in 1 .. Len(sorted) : sorted[n].text.words # {},
           NEW g, g = CHOOSE h : h = [n \in 0 .. Len(sorted) |-> IF n = 0 THEN <<>> ELSE Place(h[n - 1], sorted[n])]
    PROVE  /\ g[Len(sorted)] \in Seq(Cluster)
           /\ \A m \in 1 .. Len(sorted) : InFirst(g[Len(sorted)], sorted[m])
<1>1. \E h : h = [n \in 0 .. Len(sorted) |-> IF n = 0 THEN <<>> ELSE Place(h[n - 1], sorted[n])]
  BY PlacingExists, Zenon DEF IsPlacing
<1>2. g = [n \in 0 .. Len(sorted) |-> IF n = 0 THEN <<>> ELSE Place(g[n - 1], sorted[n])]
  BY <1>1, Zenon
<1>3. PICK N \in Nat : N = Len(sorted)
  OBVIOUS
<1>4. \A n \in 0 .. N : g[n] = IF n = 0 THEN <<>> ELSE Place(g[n - 1], sorted[n])
  BY <1>2, <1>3
<1>5. PICK T : T = {n \in 0 .. N : g[n] \in Seq(Cluster) /\ \A m \in 1 .. n : InFirst(g[n], sorted[m])}
  OBVIOUS
<1>6. 0 \in T
  <2>1. g[0] = <<>>
    BY <1>3, <1>4
  <2>2. <<>> \in Seq(Cluster) /\ 0 \in 0 .. N /\ \A m \in 1 .. 0 : FALSE
    BY <1>3
  <2> QED
    BY <1>5, <2>1, <2>2
<1>7. ASSUME NEW n \in 0 .. N, n # N, n \in T PROVE n + 1 \in T
  <2>1. PICK c \in Seq(Cluster) : c = g[n]
    BY <1>5, <1>7
  <2>2. \A m \in 1 .. n : InFirst(c, sorted[m])
    BY <1>5, <1>7, <2>1
  <2>3. n + 1 \in 1 .. N /\ n + 1 \in 0 .. N /\ n + 1 # 0 /\ n + 1 - 1 = n
    BY <1>3, <1>7
  <2>4. PICK x \in Signal : x = sorted[n + 1]
    BY <1>3, <2>3
  <2>5. x.text.words # {}
    BY <1>3, <2>3, <2>4
  <2>6. PICK new : new = Place(c, x)
    OBVIOUS
  <2>7. g[n + 1] = new
    BY <1>4, <2>1, <2>3, <2>4, <2>6
  <2>8. Placed(c, new, x)
    BY <2>5, <2>6, PlaceKeeps
  <2>9. /\ new \in Seq(Cluster)
        /\ \E k \in 1 .. Len(new) : HasFirst(new, k, x)
        /\ \A y, k : HasFirst(c, k, y) => HasFirst(new, k, y)
    BY <2>8 DEF Placed
  <2>10. ASSUME NEW m \in 1 .. n + 1 PROVE InFirst(new, sorted[m])
    <3>1. CASE m = n + 1
      BY <2>4, <2>9, <3>1 DEF InFirst
    <3>2. CASE m # n + 1
      <4>1. m \in 1 .. n
        BY <1>3, <3>2
      <4>2. PICK k : HasFirst(c, k, sorted[m])
        BY <2>2, <4>1 DEF InFirst
      <4>3. HasFirst(new, k, sorted[m])
        BY <2>9, <4>2
      <4>4. k \in 1 .. Len(new)
        BY <4>3 DEF HasFirst, FirstTaking
      <4> QED
        BY <4>3, <4>4 DEF InFirst
    <3> QED
      BY <3>1, <3>2
  <2> QED
    BY <1>5, <2>3, <2>7, <2>9, <2>10
<1>8. \A n \in 0 .. N : n \in T
  BY <1>6, <1>7, UpTo
<1>9. N \in T
  BY <1>3, <1>8
<1> QED
  BY <1>3, <1>5, <1>9

\* Every signal that a cluster may have is in the first one that takes its text.
LEMMA ClustersAre ==
    ASSUME NEW signals \in Seq(Signal), NEW clusters, clusters = WorkingClusters(signals)
    PROVE  /\ clusters \in Seq(Cluster)
           /\ \A m \in 1 .. Len(signals) : Eligible(signals[m].text) => InFirst(clusters, signals[m])
<1> DEFINE places == {i \in DOMAIN signals : Eligible(signals[i].text)}
           eligible == Selection(signals, places)
           keys == [i \in DOMAIN eligible |-> eligible[i].text.chars]
           sorted == Ordered(eligible, keys)
           g == CHOOSE g : g = [n \in 0 .. Len(sorted) |-> IF n = 0 THEN <<>> ELSE Place(g[n - 1], sorted[n])]
<1>1. clusters = g[Len(sorted)]
  BY DEF WorkingClusters, Descending
<1>2. \A i \in DOMAIN signals : i \in places <=> Eligible(signals[i].text)
  OBVIOUS
<1>3. eligible = Selection(signals, places)
  OBVIOUS
<1>4. keys = [i \in DOMAIN eligible |-> eligible[i].text.chars]
  OBVIOUS
<1>5. sorted = Ordered(eligible, keys)
  OBVIOUS
<1>6. g = CHOOSE g_1 : g_1 = [n \in 0 .. Len(sorted) |-> IF n = 0 THEN <<>> ELSE Place(g_1[n - 1], sorted[n])]
  OBVIOUS
<1> HIDE DEF places, eligible, keys, sorted, g
<1>7. eligible \in Seq(Signal)
  BY <1>3, SelectionRange
<1>8. \A j \in 1 .. Len(eligible) : \E i \in 1 .. Len(signals) : i \in places /\ eligible[j] = signals[i]
  BY <1>3, SelectionRange
<1>9. \A i \in 1 .. Len(signals) : i \in places => \E j \in 1 .. Len(eligible) : eligible[j] = signals[i]
  BY <1>3, SelectionRange
<1>10. DOMAIN keys = 1 .. Len(eligible) /\ \A i \in 1 .. Len(eligible) : keys[i] \in Int
  <2>1. \A i \in 1 .. Len(eligible) : eligible[i].text.chars \in Nat
    BY <1>7, SignalFields
  <2> QED
    BY <1>7, <1>4, <2>1
<1>11. sorted \in Seq(Signal) /\ Len(sorted) = Len(eligible)
  BY <1>7, <1>10, <1>5, OrderedPlaces
<1>12. PICK p : Arranges(p, Len(eligible), keys) /\ \A n \in 1 .. Len(eligible) : sorted[n] = eligible[p[n]]
  BY <1>7, <1>10, <1>5, OrderedPlaces
<1>13. /\ p \in [1 .. Len(eligible) -> 1 .. Len(eligible)]
       /\ \A i \in 1 .. Len(eligible) : \E n \in 1 .. Len(eligible) : p[n] = i
  BY <1>12 DEF Arranges
<1>14. \A n \in 1 .. Len(sorted) : sorted[n].text.words # {}
  <2> SUFFICES ASSUME NEW n \in 1 .. Len(sorted) PROVE sorted[n].text.words # {}
    OBVIOUS
  <2>1. PICK j \in 1 .. Len(eligible) : sorted[n] = eligible[j]
    BY <1>11, <1>12, <1>13
  <2>2. PICK i \in 1 .. Len(signals) : i \in places /\ eligible[j] = signals[i]
    BY <1>8
  <2>3. Eligible(sorted[n].text)
    BY <1>2, <2>1, <2>2
  <2> QED
    BY <2>3 DEF Eligible
<1>15. /\ clusters \in Seq(Cluster)
       /\ \A m \in 1 .. Len(sorted) : InFirst(clusters, sorted[m])
  BY <1>11, <1>14, <1>6, <1>1, PlacingIs
<1>16. ASSUME NEW m \in 1 .. Len(signals), Eligible(signals[m].text)
       PROVE  InFirst(clusters, signals[m])
  <2>1. m \in places
    BY <1>2, <1>16
  <2>2. PICK j \in 1 .. Len(eligible) : eligible[j] = signals[m]
    BY <1>9, <2>1
  <2>3. PICK n \in 1 .. Len(eligible) : p[n] = j
    BY <1>13
  <2>4. sorted[n] = signals[m]
    BY <1>12, <2>2, <2>3
  <2> QED
    BY <1>11, <1>15, <2>4
<1> QED
  BY <1>15, <1>16

\* What distill keeps are signals of prompts in scope.
LEMMA OnceFrom ==
    ASSUME NEW scope \in Seq(Session), NEW once, once = Deduplicated(SignalsOf(Included(scope)))
    PROVE  \A j \in 1 .. Len(once) : \E h \in External(scope) : \E l \in Prompted(scope[h]) :
             once[j] = SignalOf(scope[h], l)
<1>1. PICK all : all = SignalsOf(Included(scope))
  OBVIOUS
<1>2. all \in Seq(Signal) /\ HoldsSignals(all, scope)
  BY <1>1, SignalsOfScope
<1>3. once = Deduplicated(all)
  BY <1>1
<1>4. \A j \in 1 .. Len(once) : \E m \in 1 .. Len(all) : once[j] = all[m]
  BY <1>2, <1>3, DeduplicatedIs
<1>5. \A m \in 1 .. Len(all) : \E h \in External(scope) : \E l \in Prompted(scope[h]) :
        all[m] = SignalOf(scope[h], l)
  BY <1>2 DEF HoldsSignals
<1> QED
  BY <1>4, <1>5

\* A list has a signal of a text, of a session forked from the one of that root.
Keeps(once, text, root) ==
    \E m \in 1 .. Len(once) : /\ once[m].text = text
                              /\ \E b \in 1 .. Len(sessions) : /\ once[m].session = b
                                                               /\ sessions[b].root = root

\* What was typed is kept, from its session or from one with the same root.
LEMMA TextKept ==
    ASSUME History, AllNamed, NEW scope \in Scopes, NEW once, once = Deduplicated(SignalsOf(Included(scope))),
           NEW i \in External(scope), NEW p \in ToSet(scope[i].steps), p.text.chars > 0
    PROVE  Keeps(once, p.text, scope[i].root)
<1>1. scope \in Seq(Session)
  BY ScopeFrom DEF FromHistory
<1>2. i \in 1 .. Len(scope)
  BY <1>1 DEF External
<1>3. PICK s \in Session : s = scope[i]
  BY <1>1, <1>2
<1>4. s.steps \in Seq(Recorded)
  BY SessionFields
<1>5. PICK k \in DOMAIN scope[i].steps : p = scope[i].steps[k]
  BY DEF ToSet
<1>6. k \in Prompted(scope[i])
  BY <1>3, <1>5, OwnSteps
<1>7. <<p.typed, p.text>> \in Typed(scope)
  BY <1>1, <1>5, <1>6, TypedIs
<1>8. \A y \in Typed(scope) : \E j \in 1 .. Len(once) : NameOf(once[j]) = y
  BY OnceIs
<1>9. PICK m \in 1 .. Len(once) : NameOf(once[m]) = <<p.typed, p.text>>
  BY <1>7, <1>8
<1>10. once[m].step[2] = p.typed /\ once[m].text = p.text
  BY <1>9 DEF NameOf
<1>11. PICK h \in External(scope) : \E l \in Prompted(scope[h]) : once[m] = SignalOf(scope[h], l)
  BY <1>1, OnceFrom
<1>12. PICK l \in Prompted(scope[h]) : once[m] = SignalOf(scope[h], l)
  BY <1>11
<1>13. PICK q : q = scope[h].steps[l]
  OBVIOUS
<1>14. once[m].step = q.id /\ once[m].session = scope[h].id
  <2>1. PICK x : x = SignalOf(scope[h], l)
    OBVIOUS
  <2>2. x.step = q.id
    BY <1>13, <2>1 DEF SignalOf
  <2>3. x.session = scope[h].id
    BY <2>1 DEF SignalOf
  <2> QED
    BY <1>12, <2>1, <2>2, <2>3
<1>15. StepOf(scope, h, l, q) /\ q.text.chars > 0
  <2>1. h \in 1 .. Len(scope)
    BY <1>1 DEF External
  <2>2. PICK t \in Session : t = scope[h]
    BY <1>1, <2>1
  <2>3. t.steps \in Seq(Recorded)
    BY SessionFields
  <2>4. l \in 1 .. Len(t.steps)
    BY <2>2, <2>3 DEF Prompted
  <2>5. q.text.chars > 0
    BY <1>13, <2>2, OwnSteps
  <2> QED
    BY <1>13, <2>1, <2>2, <2>4, <2>5 DEF StepOf
<1>16. StepOf(scope, i, k, p)
  BY <1>2, <1>3, <1>4, <1>5 DEF StepOf
<1>17. q.id = <<"native", q.typed>>
  BY <1>15, StepNamed
<1>18. PICK b \in 1 .. Len(sessions) : scope[h] = sessions[b] /\ scope[h].id = b /\ l \in 1 .. Len(sessions[b].steps)
  BY <1>15, StepNamed
<1>19. PICK a \in 1 .. Len(sessions) : scope[i] = sessions[a] /\ k \in 1 .. Len(sessions[a].steps)
  BY <1>16, StepNamed
<1>20. sessions[b].steps[l].typed = sessions[a].steps[k].typed
  BY <1>5, <1>10, <1>13, <1>14, <1>17, <1>18, <1>19
<1>21. sessions[b].root = sessions[a].root
  BY <1>18, <1>19, <1>20 DEF History, HistoryOf
<1>22. once[m].session = b /\ sessions[b].root = scope[i].root
  BY <1>14, <1>18, <1>19, <1>21
<1> QED
  BY <1>10, <1>22 DEF Keeps

\* An entry at one of the places is selected.
LEMMA SelectionHas ==
    ASSUME NEW S, NEW seq \in Seq(S), NEW places, NEW sel, sel = Selection(seq, places),
           NEW i \in 1 .. Len(seq), i \in places
    PROVE  \E j \in 1 .. Len(sel) : sel[j] = seq[i]
  BY SelectionRange

\* A cluster with two sessions recurs.
LEMMA RecurringHas ==
    ASSUME NEW clusters \in Seq(Cluster), NEW k \in 1 .. Len(clusters),
           Cardinality(SessionsOf(clusters[k].members)) >= 2
    PROVE  \E c \in ToSet(Recurring(clusters)) : c = clusters[k]
<1>1. PICK places : places = {h \in DOMAIN clusters : Cardinality(SessionsOf(clusters[h].members)) >= 2}
  OBVIOUS
<1>2. PICK recurring : recurring = Selection(clusters, places)
  OBVIOUS
<1>3. Recurring(clusters) = recurring
  BY <1>1, <1>2, Zenon DEF Recurring
<1>4. k \in places
  BY <1>1
<1>5. recurring \in Seq(Cluster)
  BY <1>2, SelectionRange
<1>6. PICK l \in 1 .. Len(recurring) : recurring[l] = clusters[k]
  BY <1>2, <1>4, SelectionHas
<1>7. clusters[k] \in ToSet(recurring)
  BY <1>5, <1>6 DEF ToSet
<1> QED
  BY <1>3, <1>7

\* Two different elements are two.
LEMMA TwoElements ==
    ASSUME NEW x, NEW y, x # y
    PROVE  Cardinality({x, y}) = 2
<1>1. PICK S : S = {x}
  OBVIOUS
<1>2. PICK n : n = Cardinality(S)
  OBVIOUS
<1>3. IsFiniteSet(S) /\ n = 1
  BY <1>1, <1>2, FS_Singleton
<1>4. y \notin S
  BY <1>1
<1>5. Cardinality(S \cup {y}) = n + 1
  BY <1>2, <1>3, <1>4, FS_AddElement
<1>6. S \cup {y} = {x, y}
  BY <1>1
<1>7. n + 1 = 2
  BY <1>3
<1> QED
  BY <1>5, <1>6, <1>7, Zenon

\* A cluster with signals of two sessions recurs.
LEMMA RecursAre ==
    ASSUME NEW clusters \in Seq(Cluster), NEW k \in 1 .. Len(clusters),
           NEW m \in 1 .. Len(clusters[k].members), NEW n \in 1 .. Len(clusters[k].members),
           clusters[k].members[m].session # clusters[k].members[n].session
    PROVE  \E c \in ToSet(Recurring(clusters)) : c = clusters[k]
<1>1. PICK c \in Cluster : c = clusters[k]
  OBVIOUS
<1>2. c.members \in Seq(Signal)
  BY DEF Cluster
<1>3. PICK members \in Seq(Signal) : members = c.members
  BY <1>2
<1>4. PICK found : found = SessionsOf(members)
  OBVIOUS
<1>5. found = {members[l].session : l \in 1 .. Len(members)}
  BY <1>3, <1>4 DEF SessionsOf
<1>6. PICK x, y : x = members[m].session /\ y = members[n].session
  OBVIOUS
<1>7. x \in found /\ y \in found /\ x # y
  BY <1>1, <1>3, <1>5, <1>6
<1>8. IsFiniteSet(found)
  <2>1. IsFiniteSet(1 .. Len(members))
    BY <1>3, FS_Interval
  <2>2. PICK f : f = [l \in 1 .. Len(members) |-> members[l].session]
    OBVIOUS
  <2>3. f \in Surjection(1 .. Len(members), found)
    BY <1>5, <2>2 DEF Surjection
  <2> QED
    BY <2>1, <2>3, FS_Surjection
<1>9. {x, y} \in SUBSET found
  BY <1>7
<1>10. Cardinality({x, y}) = 2
  BY <1>7, TwoElements
<1>11. Cardinality(found) >= 2
  <2>1. Cardinality({x, y}) <= Cardinality(found)
    BY <1>8, <1>9, FS_Subset
  <2>2. Cardinality(found) \in Nat
    BY <1>8, FS_CardinalityType
  <2> QED
    BY <1>10, <2>1, <2>2
<1>12. Cardinality(SessionsOf(clusters[k].members)) >= 2
  BY <1>1, <1>3, <1>4, <1>11
<1> QED
  BY <1>12, RecurringHas

\* The first that takes a text is one.
LEMMA FirstOne ==
    ASSUME NEW clusters \in Seq(Cluster), NEW text, NEW h, NEW k,
           FirstTaking(clusters, h, text), FirstTaking(clusters, k, text)
    PROVE  h = k
<1>1. /\ h \in 1 .. Len(clusters) /\ k \in 1 .. Len(clusters) /\ Len(clusters) \in Nat
      /\ Takes(clusters[h], text) /\ Takes(clusters[k], text)
      /\ \A g \in 1 .. h - 1 : ~Takes(clusters[g], text)
      /\ \A g \in 1 .. k - 1 : ~Takes(clusters[g], text)
  BY DEF FirstTaking
<1>2. h \notin 1 .. k - 1 /\ k \notin 1 .. h - 1
  BY <1>1
<1> QED
  BY <1>1, <1>2

\* A step in scope and its text are of their types.
LEMMA PromptTyped ==
    ASSUME NEW scope \in Seq(Session), NEW i \in External(scope), NEW p \in ToSet(scope[i].steps)
    PROVE  p \in Recorded /\ p.text.chars \in Nat
<1>1. i \in 1 .. Len(scope)
  BY DEF External
<1>2. PICK s \in Session : s = scope[i]
  BY <1>1
<1>3. s.steps \in Seq(Recorded)
  BY SessionFields
<1>4. p \in Recorded
  BY <1>2, <1>3 DEF ToSet
<1> QED
  BY <1>4, RecordedFields

\* Two prompts with the same text, which may recur.
Repeats(p, q) ==
    p.text = q.text /\ p.text.chars >= 15 /\ p.text.command = "" /\ p.text.words # {}

\* What was typed in two sessions that are no forks of each other is reported.
LEMMA Recurs ==
    ASSUME History, AllNamed, NEW scope \in Scopes, NEW i \in External(scope), NEW j \in External(scope),
           scope[i].root # scope[j].root, NEW p \in ToSet(scope[i].steps), NEW q \in ToSet(scope[j].steps),
           Repeats(p, q)
    PROVE  \E c \in ToSet(Recurring(WorkingClusters(Deduplicated(SignalsOf(Included(scope)))))) :
             \E x \in ToSet(c.members) : x.text = p.text
<1>1. PICK once : once = Deduplicated(SignalsOf(Included(scope)))
  OBVIOUS
<1>2. once \in Seq(Signal)
  BY <1>1, OnceIs
<1>3. PICK text : text = p.text
  OBVIOUS
<1>4. p.text.chars > 0 /\ q.text.chars > 0
  <2>1. scope \in Seq(Session)
    BY ScopeFrom DEF FromHistory
  <2>2. p.text.chars \in Nat
    BY <2>1, PromptTyped
  <2>3. p.text.chars > 0
    <3>1. PICK n \in Nat : n = p.text.chars
      BY <2>2
    <3>2. n >= 15
      BY <3>1, Zenon DEF Repeats
    <3>3. n > 0
      BY <3>2
    <3> QED
      BY <3>1, <3>3
  <2>4. p.text = q.text
    BY DEF Repeats
  <2> QED
    BY <2>3, <2>4
<1>5. Keeps(once, p.text, scope[i].root)
  BY <1>1, <1>4, TextKept
<1>6. Keeps(once, q.text, scope[j].root)
  BY <1>1, <1>4, TextKept
<1>7. PICK m \in 1 .. Len(once) : /\ once[m].text = text
                                  /\ \E b \in 1 .. Len(sessions) : once[m].session = b /\ sessions[b].root = scope[i].root
  BY <1>3, <1>5 DEF Keeps
<1>8. PICK n \in 1 .. Len(once) : /\ once[n].text = text
                                  /\ \E b \in 1 .. Len(sessions) : once[n].session = b /\ sessions[b].root = scope[j].root
  BY <1>3, <1>6 DEF Keeps, Repeats
<1>9. once[m].session # once[n].session
  BY <1>7, <1>8
<1>10. SignalKind(text) # "command"
  BY <1>3 DEF SignalKind, Repeats
<1>11. Eligible(text)
  BY <1>3, <1>10 DEF Eligible, Repeats
<1>12. PICK clusters : clusters = WorkingClusters(once)
  OBVIOUS
<1>13. clusters \in Seq(Cluster)
  BY <1>2, <1>12, ClustersAre
<1>14. InFirst(clusters, once[m]) /\ InFirst(clusters, once[n])
  BY <1>2, <1>7, <1>8, <1>11, <1>12, ClustersAre
<1>15. PICK k : HasFirst(clusters, k, once[m])
  BY <1>14 DEF InFirst
<1>16. PICK h : HasFirst(clusters, h, once[n])
  BY <1>14 DEF InFirst
<1>17. FirstTaking(clusters, k, text) /\ FirstTaking(clusters, h, text)
  BY <1>7, <1>8, <1>15, <1>16 DEF HasFirst
<1>18. h = k /\ k \in 1 .. Len(clusters)
  BY <1>13, <1>17, FirstOne DEF FirstTaking
<1>19. PICK a \in 1 .. Len(clusters[k].members) : clusters[k].members[a] = once[m]
  BY <1>15 DEF HasFirst
<1>20. PICK b \in 1 .. Len(clusters[k].members) : clusters[k].members[b] = once[n]
  BY <1>16, <1>18 DEF HasFirst
<1>21. \E c \in ToSet(Recurring(clusters)) : c = clusters[k]
  BY <1>9, <1>13, <1>18, <1>19, <1>20, RecursAre
<1>22. once[m] \in ToSet(clusters[k].members)
  <2>1. clusters[k] \in Cluster
    BY <1>13, <1>18
  <2>2. clusters[k].members \in Seq(Signal)
    BY <2>1 DEF Cluster
  <2> QED
    BY <1>19, <2>2 DEF ToSet
<1>23. \E c \in ToSet(Recurring(clusters)) : \E x \in ToSet(c.members) : x.text = p.text
  BY <1>3, <1>7, <1>21, <1>22
<1> QED
  BY <1>1, <1>12, <1>23

\* That is so in every scope.
LEMMA AllRecur ==
    ASSUME History, AllNamed
    PROVE  RecurrencesReported
  BY Recurs DEF RecurrencesReported, Repeats

\* If every agent gives its steps an id of their own, a text that was typed in two
\* sessions that are no forks of each other is reported as recurring.
THEOREM RecurrencesKept == AllNamed => (Spec => []RecurrencesReported)
<1>1. AllNamed => (History => RecurrencesReported)
  BY AllRecur
<1>2. ASSUME AllNamed PROVE Spec => []RecurrencesReported
  <2>1. History => RecurrencesReported
    BY <1>1, <1>2
  <2> QED
    BY HistoryKept, <2>1, PTL
<1> QED
  BY <1>2

-----------------------------------------------------------------------------
(* The calls in the reports: each response that names a model is in one entry,  *)
(* each entry in one row and one week.                                          *)

\* As many ones as there are members.
LEMMA SumOnes ==
    ASSUME NEW S, IsFiniteSet(S), NEW f, f = [x \in S |-> 1]
    PROVE  Counts(f) /\ SumOf(f) = Cardinality(S)
<1>1. PICK n \in Nat : n = Cardinality(S)
  BY FS_CardinalityType
<1>2. DOMAIN f = S /\ (\A x \in S : f[x] = 1) /\ Counts(f)
  BY DEF Counts
<1> DEFINE T == {k \in 0 .. n : \A V \in SUBSET S : Cardinality(V) = k => SumOf(On(f, V)) = k}
<1>3. 0 \in T
  <2>1. ASSUME NEW V \in SUBSET S, Cardinality(V) = 0 PROVE SumOf(On(f, V)) = 0
    <3>1. IsFiniteSet(V)
      BY FS_Subset
    <3>2. V = {}
      BY <2>1, <3>1, FS_EmptySet
    <3> QED
      BY <3>2, SumEmpty DEF On
  <2> QED
    BY <1>1, <2>1
<1>4. ASSUME NEW k \in 0 .. n, k # n, k \in T PROVE k + 1 \in T
  <2>1. ASSUME NEW V \in SUBSET S, Cardinality(V) = k + 1 PROVE SumOf(On(f, V)) = k + 1
    <3>1. IsFiniteSet(V)
      BY FS_Subset
    <3>2. PICK x : x \in V
      <4>1. V # {}
        BY <2>1, FS_EmptySet
      <4> QED
        BY <4>1
    <3>3. PICK W : W = V \ {x}
      OBVIOUS
    <3>4. Cardinality(W) = k
      <4>1. Cardinality(V \ {x}) = Cardinality(V) - 1
        BY <3>1, <3>2, FS_RemoveElement
      <4> QED
        BY <2>1, <3>3, <4>1
    <3>5. W \in SUBSET S
      BY <3>3
    <3>6. SumOf(On(f, W)) = k
      BY <1>4, <3>4, <3>5
    <3>7. SumOf(On(f, V)) = SumOf(On(f, W)) + f[x]
      <4>1. W \subseteq DOMAIN f /\ x \in DOMAIN f /\ x \notin W /\ V = W \cup {x}
        BY <1>2, <3>2, <3>3
      <4> QED
        BY <1>2, <4>1, SumOnMore
    <3> QED
      BY <1>2, <3>2, <3>6, <3>7
  <2>2. k + 1 \in 0 .. n
    BY <1>1, <1>4
  <2> QED
    BY <2>1, <2>2
<1>5. n \in T
  <2> HIDE DEF T
  <2>1. \A k \in 0 .. n : k \in T
    BY <1>1, <1>3, <1>4, UpTo
  <2> QED
    BY <1>1, <2>1
<1>6. SumOf(On(f, S)) = n
  BY <1>1, <1>5
<1>7. On(f, S) = f
  BY <1>2 DEF On
<1> QED
  BY <1>1, <1>2, <1>6, <1>7

\* The members of some sets, each with the name of its set.
Pairs(I, F) == UNION {{<<i, x>> : x \in F[i]} : i \in I}

\* They are finitely many.
LEMMA PairsAre ==
    ASSUME NEW I, IsFiniteSet(I), NEW F, \A i \in I : IsFiniteSet(F[i])
    PROVE  /\ IsFiniteSet(Pairs(I, F))
           /\ \A y : y \in Pairs(I, F) <=> \E i \in I : \E x \in F[i] : y = <<i, x>>
<1>1. \A y : y \in Pairs(I, F) <=> \E i \in I : \E x \in F[i] : y = <<i, x>>
  BY DEF Pairs
<1>2. \A i \in I : IsFiniteSet({<<i, x>> : x \in F[i]})
  <2> SUFFICES ASSUME NEW i \in I PROVE IsFiniteSet({<<i, x>> : x \in F[i]})
    OBVIOUS
  <2>1. PICK S : S = F[i]
    OBVIOUS
  <2>2. PICK f : f = [x \in S |-> <<i, x>>]
    OBVIOUS
  <2>3. PICK T : T = {<<i, x>> : x \in S}
    OBVIOUS
  <2>4. \A y \in T : \E x \in S : f[x] = y
    BY <2>2, <2>3
  <2>5. IsFiniteSet(S)
    BY <2>1
  <2>6. IsFiniteSet(T)
    BY <2>4, <2>5, FiniteImage
  <2> QED
    BY <2>1, <2>3, <2>6
<1>3. PICK U : U = {{<<i, x>> : x \in F[i]} : i \in I}
  OBVIOUS
<1>4. IsFiniteSet(U)
  <2>1. PICK f : f = [i \in I |-> {<<i, x>> : x \in F[i]}]
    OBVIOUS
  <2>2. \A y \in U : \E i \in I : f[i] = y
    BY <1>3, <2>1
  <2> QED
    BY <2>2, FiniteImage
<1>5. IsFiniteSet(UNION U)
  <2>1. \A T \in U : IsFiniteSet(T)
    BY <1>2, <1>3
  <2> QED
    BY <1>4, <2>1, FS_UNION
<1>6. Pairs(I, F) = UNION U
  BY <1>3 DEF Pairs
<1> QED
  BY <1>1, <1>5, <1>6

\* The responses of a session are finitely many.
LEMMA ResponsesAre ==
    ASSUME NEW s \in Session
    PROVE  /\ IsFiniteSet(Responses(s)) /\ IsFiniteSet(DOMAIN s.steps)
           /\ \A x : x \in Responses(s) <=>
                \E k \in DOMAIN s.steps : \E r \in DOMAIN s.steps[k].responses : x = <<k, r>>
<1>1. PICK steps \in Seq(Recorded) : steps = s.steps
  BY SessionFields
<1>2. PICK n \in Nat : n = Len(steps) /\ DOMAIN steps = 1 .. n
  BY <1>1
<1>3. PICK F : F = [k \in DOMAIN steps |-> DOMAIN steps[k].responses]
  OBVIOUS
<1>4. IsFiniteSet(DOMAIN steps)
  BY <1>2, FS_Interval
<1>5. \A k \in DOMAIN steps : IsFiniteSet(F[k])
  <2> SUFFICES ASSUME NEW k \in DOMAIN steps PROVE IsFiniteSet(F[k])
    OBVIOUS
  <2>1. PICK p \in Recorded : p = steps[k]
    BY <1>1, <1>2
  <2>2. PICK turn \in Turns : p.responses = turn.responses
    BY RecordedFields
  <2>3. PICK R : R = Range(turn.responses)
    OBVIOUS
  <2>4. turn.responses \in Seq(R)
    BY <2>3, InsightsAssumption DEF InsightsAssumption
  <2>5. PICK m \in Nat : DOMAIN turn.responses = 1 .. m
    BY <2>4
  <2>6. IsFiniteSet(1 .. m)
    BY FS_Interval
  <2>7. F[k] = DOMAIN turn.responses
    BY <1>3, <2>1, <2>2
  <2> QED
    BY <2>5, <2>6, <2>7
<1>6. /\ IsFiniteSet(Pairs(DOMAIN steps, F))
      /\ \A x : x \in Pairs(DOMAIN steps, F) <=> \E k \in DOMAIN steps : \E r \in F[k] : x = <<k, r>>
  BY <1>4, <1>5, PairsAre
<1>7. \A x : x \in Responses(s) <=>
        \E k \in DOMAIN s.steps : \E r \in DOMAIN s.steps[k].responses : x = <<k, r>>
  BY DEF Responses
<1>8. \A x : x \in Responses(s) <=> x \in Pairs(DOMAIN steps, F)
  BY <1>1, <1>3, <1>6, <1>7
<1>9. Responses(s) \subseteq Pairs(DOMAIN steps, F)
  BY <1>8
<1>10. IsFiniteSet(Responses(s))
  BY <1>6, <1>9, FS_Subset
<1> QED
  BY <1>1, <1>4, <1>7, <1>10

AnswersIn(scope) == UNION {{<<i, x>> : x \in Responses(scope[i])} : i \in DOMAIN scope}
CallsAt(scope) == [a \in AnswersIn(scope) |-> 1]
ModelAt(scope, a) == ModelOf(scope[a[1]], a[2])
Real(scope) == {a \in AnswersIn(scope) : ModelAt(scope, a) # NoModel /\ ~ModelAt(scope, a).synthetic}

\* Those of a scope are, and each is one call.
LEMMA AnswersAre ==
    ASSUME NEW scope \in Seq(Session)
    PROVE  /\ \A y : y \in AnswersIn(scope) <=>
                \E i \in 1 .. Len(scope) : \E x \in Responses(scope[i]) : y = <<i, x>>
           /\ IsFiniteSet(AnswersIn(scope)) /\ Counts(CallsAt(scope)) /\ DOMAIN CallsAt(scope) = AnswersIn(scope)
<1>1. DOMAIN scope = 1 .. Len(scope) /\ Len(scope) \in Nat
  OBVIOUS
<1>2. \A y : y \in AnswersIn(scope) <=>
         \E i \in 1 .. Len(scope) : \E x \in Responses(scope[i]) : y = <<i, x>>
  BY <1>1 DEF AnswersIn
<1>3. PICK F : F = [i \in 1 .. Len(scope) |-> Responses(scope[i])]
  OBVIOUS
<1>4. \A i \in 1 .. Len(scope) : IsFiniteSet(F[i])
  <2> SUFFICES ASSUME NEW i \in 1 .. Len(scope) PROVE IsFiniteSet(F[i])
    OBVIOUS
  <2>1. PICK s \in Session : s = scope[i]
    OBVIOUS
  <2>2. IsFiniteSet(Responses(s))
    BY ResponsesAre
  <2> QED
    BY <1>3, <2>1, <2>2
<1>5. IsFiniteSet(1 .. Len(scope))
  BY <1>1, FS_Interval
<1>6. /\ IsFiniteSet(Pairs(1 .. Len(scope), F))
      /\ \A y : y \in Pairs(1 .. Len(scope), F) <=> \E i \in 1 .. Len(scope) : \E x \in F[i] : y = <<i, x>>
  BY <1>4, <1>5, PairsAre
<1>7. AnswersIn(scope) \subseteq Pairs(1 .. Len(scope), F)
  BY <1>2, <1>3, <1>6
<1>8. IsFiniteSet(AnswersIn(scope))
  BY <1>6, <1>7, FS_Subset
<1>9. PICK calls : calls = CallsAt(scope)
  OBVIOUS
<1>10. calls = [a \in AnswersIn(scope) |-> 1]
  BY <1>9 DEF CallsAt
<1>11. Counts(calls)
  BY <1>8, <1>10, SumOnes
<1> QED
  BY <1>2, <1>8, <1>9, <1>10, <1>11

\* The models of a session are finitely many, and those of its responses among them.
LEMMA ModelsAre ==
    ASSUME NEW s \in Session
    PROVE  /\ IsFiniteSet(Models(s))
           /\ \A x \in Responses(s) : ModelOf(s, x) # NoModel => ModelOf(s, x) \in Models(s)
           /\ NoModel \notin Models(s)
<1>1. PICK T : T = {ModelOf(s, x) : x \in Responses(s)}
  OBVIOUS
<1>2. PICK V : V = {s.steps[k].model : k \in DOMAIN s.steps}
  OBVIOUS
<1>3. IsFiniteSet(T)
  <2>1. PICK f : f = [x \in Responses(s) |-> ModelOf(s, x)]
    OBVIOUS
  <2>2. \A y \in T : \E x \in Responses(s) : f[x] = y
    BY <1>1, <2>1
  <2>3. IsFiniteSet(Responses(s))
    BY ResponsesAre
  <2> QED
    BY <2>2, <2>3, FiniteImage
<1>4. IsFiniteSet(V)
  <2>1. PICK f : f = [k \in DOMAIN s.steps |-> s.steps[k].model]
    OBVIOUS
  <2>2. \A y \in V : \E k \in DOMAIN s.steps : f[k] = y
    BY <1>2, <2>1
  <2>3. IsFiniteSet(DOMAIN s.steps)
    BY ResponsesAre
  <2> QED
    BY <2>2, <2>3, FiniteImage
<1>5. CASE s.adapter = "codex"
  <2>1. Models(s) = V \ {NoModel}
    BY <1>2, <1>5 DEF Models
  <2>2. ASSUME NEW x \in Responses(s) PROVE ModelOf(s, x) \in V
    <3>1. PICK k \in DOMAIN s.steps : \E r \in DOMAIN s.steps[k].responses : x = <<k, r>>
      BY ResponsesAre
    <3>2. x[1] = k
      BY <3>1
    <3>3. ModelOf(s, x) = s.steps[k].model
      BY <1>5, <3>2 DEF ModelOf
    <3> QED
      BY <1>2, <3>3
  <2>3. IsFiniteSet(V \ {NoModel})
    BY <1>4, FS_Subset
  <2> QED
    BY <2>1, <2>2, <2>3
<1>6. CASE s.adapter # "codex"
  <2>1. Models(s) = T \ {NoModel}
    BY <1>1, <1>6 DEF Models
  <2>2. IsFiniteSet(T \ {NoModel})
    BY <1>3, FS_Subset
  <2> QED
    BY <1>1, <2>1, <2>2
<1> QED
  BY <1>5, <1>6

\* The entry of the models in which a response is counted.
EntryFor(scope, i, m) ==
    [session |-> i, raw |-> m, key |-> <<scope[i].adapter, DisplayModel(m)>>,
     calls |-> ModelUsage(scope[i])[m], started |-> scope[i].started]

EntryOf(scope) == [a \in Real(scope) |-> EntryFor(scope, a[1], ModelAt(scope, a))]

IsEntry(scope, e, i, m) ==
    /\ i \in 1 .. Len(scope) /\ m \in Models(scope[i]) /\ ~m.synthetic
    /\ e = EntryFor(scope, i, m)

\* There is one for each response, and there are finitely many.
LEMMA EntriesAre ==
    ASSUME NEW scope \in Seq(Session)
    PROVE  /\ \A e : e \in ModelEntries(scope) <=> \E i, m : IsEntry(scope, e, i, m)
           /\ \A a \in Real(scope) : EntryOf(scope)[a] \in ModelEntries(scope)
           /\ IsFiniteSet(ModelEntries(scope))
<1>1. \A e : e \in ModelEntries(scope) <=>
        \E i \in 1 .. Len(scope) : \E m \in DOMAIN ModelUsage(scope[i]) :
          ~m.synthetic /\ e = EntryFor(scope, i, m)
  BY DEF ModelEntries, EntryFor
<1>2. \A i : DOMAIN ModelUsage(scope[i]) = Models(scope[i])
  BY DEF ModelUsage
<1>3. \A e : e \in ModelEntries(scope) <=> \E i, m : IsEntry(scope, e, i, m)
  BY <1>1, <1>2 DEF IsEntry
<1>4. ASSUME NEW a \in Real(scope) PROVE EntryOf(scope)[a] \in ModelEntries(scope)
  <2>1. a \in AnswersIn(scope)
    BY DEF Real
  <2>2. PICK i \in 1 .. Len(scope) : \E x \in Responses(scope[i]) : a = <<i, x>>
    BY <2>1, AnswersAre
  <2>3. PICK x \in Responses(scope[i]) : a = <<i, x>>
    BY <2>2
  <2>4. PICK s \in Session : s = scope[i]
    OBVIOUS
  <2>5. PICK m : m = ModelAt(scope, a)
    OBVIOUS
  <2>6. a[1] = i /\ m = ModelOf(s, x)
    BY <2>3, <2>4, <2>5 DEF ModelAt
  <2>7. m # NoModel /\ ~m.synthetic
    BY <2>5 DEF Real
  <2>8. m \in Models(scope[i])
    BY <2>3, <2>4, <2>6, <2>7, ModelsAre
  <2>9. EntryOf(scope)[a] = EntryFor(scope, i, m)
    BY <2>5, <2>6 DEF EntryOf
  <2>10. IsEntry(scope, EntryOf(scope)[a], i, m)
    BY <2>7, <2>8, <2>9 DEF IsEntry
  <2> QED
    BY <1>3, <2>10
<1>5. IsFiniteSet(ModelEntries(scope))
  <2>1. PICK F : F = [i \in 1 .. Len(scope) |-> Models(scope[i])]
    OBVIOUS
  <2>2. \A i \in 1 .. Len(scope) : IsFiniteSet(F[i])
    <3> SUFFICES ASSUME NEW i \in 1 .. Len(scope) PROVE IsFiniteSet(F[i])
      OBVIOUS
    <3>1. PICK s \in Session : s = scope[i]
      OBVIOUS
    <3>2. IsFiniteSet(Models(s))
      BY ModelsAre
    <3> QED
      BY <2>1, <3>1, <3>2
  <2>3. IsFiniteSet(1 .. Len(scope))
    <3>1. Len(scope) \in Nat
      OBVIOUS
    <3> QED
      BY <3>1, FS_Interval
  <2>4. PICK Y : Y = Pairs(1 .. Len(scope), F)
    OBVIOUS
  <2>5. IsFiniteSet(Y) /\ \A y : y \in Y <=> \E i \in 1 .. Len(scope) : \E m \in F[i] : y = <<i, m>>
    BY <2>2, <2>3, <2>4, PairsAre
  <2>6. PICK f : f = [y \in Y |-> EntryFor(scope, y[1], y[2])]
    OBVIOUS
  <2>7. \A e \in ModelEntries(scope) : \E y \in Y : f[y] = e
    <3> SUFFICES ASSUME NEW e \in ModelEntries(scope) PROVE \E y \in Y : f[y] = e
      OBVIOUS
    <3>1. PICK i, m : IsEntry(scope, e, i, m)
      BY <1>3
    <3>2. i \in 1 .. Len(scope) /\ m \in F[i] /\ e = EntryFor(scope, i, m)
      BY <2>1, <3>1 DEF IsEntry
    <3>3. PICK y : y = <<i, m>>
      OBVIOUS
    <3>4. y \in Y /\ y[1] = i /\ y[2] = m
      BY <2>5, <3>2, <3>3
    <3>5. f[y] = EntryFor(scope, y[1], y[2])
      BY <2>6, <3>4
    <3> QED
      BY <3>2, <3>4, <3>5
  <2> QED
    BY <2>5, <2>7, FiniteImage
<1> QED
  BY <1>3, <1>4, <1>5

\* The calls of some responses.
CallsIn(scope, S) == SumOf(On(CallsAt(scope), S))

\* They are as many as the responses.
LEMMA CallsInIs ==
    ASSUME NEW scope \in Seq(Session), NEW S, S \subseteq AnswersIn(scope)
    PROVE  /\ CallsIn(scope, S) = Cardinality(S) /\ IsFiniteSet(S) /\ Cardinality(S) \in Nat
           /\ Counts(On(CallsAt(scope), S))
<1>1. IsFiniteSet(S) /\ Cardinality(S) \in Nat
  BY AnswersAre, FS_Subset, FS_CardinalityType
<1>2. PICK f : f = On(CallsAt(scope), S)
  OBVIOUS
<1>3. f = [x \in S |-> 1]
  BY <1>2 DEF On, CallsAt
<1>4. Counts(f) /\ SumOf(f) = Cardinality(S)
  BY <1>1, <1>3, SumOnes
<1> QED
  BY <1>1, <1>2, <1>4 DEF CallsIn

\* Under another name they are as many.
LEMMA AsMany ==
    ASSUME NEW S, NEW T, IsFiniteSet(S), NEW f, DOMAIN f = S, \A x \in S : f[x] \in T,
           \A y \in T : \E x \in S : f[x] = y, \A x, z \in S : f[x] = f[z] => x = z
    PROVE  Cardinality(S) = Cardinality(T)
<1>1. PICK g : g = [x \in S |-> f[x]]
  OBVIOUS
<1>2. g \in [S -> T] /\ \A x \in S : g[x] = f[x]
  BY <1>1
<1>3. g \in Bijection(S, T)
  BY <1>2 DEF Bijection, Injection, Surjection, IsInjective
<1>4. ExistsBijection(S, T)
  BY <1>3 DEF ExistsBijection
<1> QED
  BY <1>4, FS_Bijection

\* An entry has the calls of its responses.
LEMMA EntryCalls ==
    ASSUME NEW scope \in Seq(Session), NEW e \in ModelEntries(scope)
    PROVE  e.calls = SumOf(On(CallsAt(scope), Group(Real(scope), EntryOf(scope), e))) /\ e.calls \in Nat
<1>1. PICK X : X = Group(Real(scope), EntryOf(scope), e)
  OBVIOUS
<1>2. PICK i, m : IsEntry(scope, e, i, m)
  BY EntriesAre
<1>3. i \in 1 .. Len(scope) /\ m \in Models(scope[i]) /\ ~m.synthetic /\ e = EntryFor(scope, i, m)
  BY <1>2 DEF IsEntry
<1>4. e.session = i /\ e.raw = m /\ e.calls = ModelUsage(scope[i])[m]
  BY <1>3 DEF EntryFor
<1>5. PICK s \in Session : s = scope[i]
  BY <1>3
<1>6. PICK Z : Z = {x \in Responses(s) : ModelOf(s, x) = m}
  OBVIOUS
<1>7. e.calls = Cardinality(Z)
  BY <1>3, <1>4, <1>5, <1>6 DEF ModelUsage
<1>8. m # NoModel
  BY <1>3, <1>5, ModelsAre
<1>9. \A a \in Real(scope) : EntryOf(scope)[a] = e <=> a[1] = i /\ ModelAt(scope, a) = m
  <2> SUFFICES ASSUME NEW a \in Real(scope) PROVE EntryOf(scope)[a] = e <=> a[1] = i /\ ModelAt(scope, a) = m
    OBVIOUS
  <2>1. EntryOf(scope)[a] = EntryFor(scope, a[1], ModelAt(scope, a))
    BY DEF EntryOf
  <2>2. EntryFor(scope, a[1], ModelAt(scope, a)).session = a[1]
    BY DEF EntryFor
  <2>3. EntryFor(scope, a[1], ModelAt(scope, a)).raw = ModelAt(scope, a)
    BY DEF EntryFor
  <2> QED
    BY <1>3, <1>4, <2>1, <2>2, <2>3
<1>10. \A a : a \in X <=> \E x \in Z : a = <<i, x>>
  <2>1. ASSUME NEW a \in X PROVE \E x \in Z : a = <<i, x>>
    <3>1. a \in AnswersIn(scope) /\ a[1] = i /\ ModelAt(scope, a) = m
      BY <1>1, <1>9 DEF Group, Real
    <3>2. PICK j \in 1 .. Len(scope) : \E x \in Responses(scope[j]) : a = <<j, x>>
      BY <3>1, AnswersAre
    <3>3. PICK x \in Responses(scope[j]) : a = <<j, x>>
      BY <3>2
    <3>4. j = i /\ ModelOf(s, x) = m
      BY <1>5, <3>1, <3>3 DEF ModelAt
    <3> QED
      BY <1>5, <1>6, <3>3, <3>4
  <2>2. ASSUME NEW a, NEW x \in Z, a = <<i, x>> PROVE a \in X
    <3>1. a \in AnswersIn(scope)
      BY <1>3, <1>5, <1>6, <2>2, AnswersAre
    <3>2. a[1] = i /\ ModelAt(scope, a) = m
      BY <1>5, <1>6, <2>2 DEF ModelAt
    <3>3. a \in Real(scope)
      BY <1>3, <1>8, <3>1, <3>2 DEF Real
    <3> QED
      BY <1>1, <1>9, <3>2, <3>3 DEF Group
  <2> QED
    BY <2>1, <2>2
<1>11. X \subseteq AnswersIn(scope)
  BY <1>1 DEF Group, Real
<1>12. CallsIn(scope, X) = Cardinality(X) /\ IsFiniteSet(X) /\ Cardinality(X) \in Nat
  BY <1>11, CallsInIs
<1>13. PICK f : f = [x \in Z |-> <<i, x>>]
  OBVIOUS
<1>14. Cardinality(Z) = Cardinality(X)
  <2>1. IsFiniteSet(Z)
    <3>1. IsFiniteSet(Responses(s))
      BY ResponsesAre
    <3> QED
      BY <1>6, <3>1, FS_Subset
  <2>2. DOMAIN f = Z /\ \A x \in Z : f[x] \in X
    BY <1>10, <1>13
  <2>3. \A y \in X : \E x \in Z : f[x] = y
    BY <1>10, <1>13
  <2>4. \A x, z \in Z : f[x] = f[z] => x = z
    BY <1>13
  <2> QED
    BY <2>1, <2>2, <2>3, <2>4, AsMany
<1> QED
  BY <1>1, <1>7, <1>12, <1>14 DEF CallsIn

\* Some of the entries have the calls of their responses.
LEMMA CallsOfSteps ==
    ASSUME NEW scope \in Seq(Session), NEW P, P \subseteq ModelEntries(scope),
           NEW X, X = {x \in Real(scope) : EntryOf(scope)[x] \in P}
    PROVE  /\ Counts([e \in P |-> e.calls])
           /\ CallsOf(P) = SumOf(On(CallsAt(scope), X))
<1>1. PICK f, entry, calls, R : f = On(CallsAt(scope), X) /\ entry = EntryOf(scope) /\ calls = CallsAt(scope) /\ R = Real(scope)
  OBVIOUS
<1>2. X \subseteq AnswersIn(scope) /\ X \subseteq R /\ R \subseteq AnswersIn(scope)
  BY <1>1 DEF Real
<1>3. Counts(calls) /\ DOMAIN calls = AnswersIn(scope)
  BY <1>1, AnswersAre
<1>4. DOMAIN f = X /\ Counts(f)
  <2>1. IsFiniteSet(X)
    BY <1>2, <1>3, FS_Subset DEF Counts
  <2>2. \A x \in X : calls[x] \in Nat
    BY <1>2, <1>3 DEF Counts
  <2> QED
    BY <1>1, <2>1, <2>2 DEF Counts, On
<1>6. \A e \in P : e.calls = SumOf(On(calls, Group(R, entry, e))) /\ e.calls \in Nat
  <2> SUFFICES ASSUME NEW e \in P PROVE e.calls = SumOf(On(calls, Group(R, entry, e))) /\ e.calls \in Nat
    OBVIOUS
  <2> QED
    BY <1>1, EntryCalls
<1>7. \A x \in X : entry[x] \in P
  BY <1>1
<1>8. IsFiniteSet(P)
  BY EntriesAre, FS_Subset
<1>9. PICK g : g = [e \in P |-> e.calls]
  OBVIOUS
<1>10. Counts(g) /\ DOMAIN g = P
  BY <1>6, <1>8, <1>9 DEF Counts
<1>11. PICK u : u = GroupSums(f, entry, P, X)
  OBVIOUS
<1>12. DOMAIN u = P /\ SumOf(u) = SumOf(f)
  <2>1. \A x \in DOMAIN f : entry[x] \in P
    BY <1>4, <1>7
  <2>2. SumOf(GroupSums(f, entry, P, DOMAIN f)) = SumOf(f)
    BY <1>4, <1>8, <2>1, SumGrouped
  <2> QED
    BY <1>4, <1>11, <2>2 DEF GroupSums
<1>13. \A e \in P : u[e] = g[e]
  <2> SUFFICES ASSUME NEW e \in P PROVE u[e] = g[e]
    OBVIOUS
  <2>1. PICK V : V = Group(X, entry, e)
    OBVIOUS
  <2>2. V = Group(R, entry, e)
    BY <1>1, <2>1 DEF Group
  <2>3. V \subseteq X
    BY <2>1 DEF Group
  <2>4. On(f, V) = On(calls, V)
    BY <1>1, <2>3 DEF On
  <2>5. u[e] = SumOf(On(f, V))
    BY <1>11, <2>1 DEF GroupSums
  <2> QED
    BY <1>6, <1>9, <2>2, <2>4, <2>5
<1>14. SumOf(g) = SumOf(u)
  BY <1>10, <1>12, <1>13, SumSame
<1>15. CallsOf(P) = SumOf(g)
  BY <1>9 DEF CallsOf
<1> QED
  BY <1>1, <1>9, <1>10, <1>12, <1>14, <1>15

\* Entries that are grouped by a key have their calls in the groups.
LEMMA CallsByKey ==
    ASSUME NEW P, NEW g, g = [e \in P |-> e.calls], Counts(g), NEW key, NEW K, IsFiniteSet(K),
           \A e \in P : key[e] \in K,
           NEW h, DOMAIN h = K, \A k \in K : h[k] = CallsOf({e \in P : key[e] = k})
    PROVE  SumOf(h) = CallsOf(P)
<1>1. DOMAIN g = P /\ CallsOf(P) = SumOf(g)
  BY DEF CallsOf
<1>2. PICK u : u = GroupSums(g, key, K, P)
  OBVIOUS
<1>3. DOMAIN u = K /\ \A k \in K : u[k] = SumOf(On(g, Group(P, key, k)))
  BY <1>2 DEF GroupSums
<1>4. \A k \in K : On(g, Group(P, key, k)) = [e \in {x \in P : key[x] = k} |-> e.calls]
  BY DEF On, Group
<1>5. \A k \in K : h[k] = u[k]
  BY <1>3, <1>4 DEF CallsOf
<1>6. SumOf(u) = SumOf(g)
  <2>1. \A e \in DOMAIN g : key[e] \in K
    BY <1>1
  <2>2. SumOf(GroupSums(g, key, K, DOMAIN g)) = SumOf(g)
    BY <2>1, SumGrouped
  <2> QED
    BY <1>1, <1>2, <2>2
<1>7. Counts(u)
  <2>1. \A S : S \subseteq P => SumOf(On(g, S)) \in Nat
    <3> SUFFICES ASSUME NEW S, S \subseteq P PROVE SumOf(On(g, S)) \in Nat
      OBVIOUS
    <3>1. IsFiniteSet(S) /\ \A y \in S : g[y] \in Nat
      BY <1>1, FS_Subset DEF Counts
    <3>2. Counts(On(g, S))
      BY <3>1 DEF Counts, On
    <3> QED
      BY <3>2, SumNat
  <2>2. \A k \in K : u[k] \in Nat
    BY <1>3, <2>1 DEF Group
  <2> QED
    BY <1>3, <2>2 DEF Counts
<1>8. SumOf(h) = SumOf(u)
  BY <1>3, <1>5, <1>7, SumSame
<1> QED
  BY <1>1, <1>6, <1>8

\* What a report on the models says of the calls in its entries.
ModelsAdd(report, entries, keys, weeks) ==
    /\ DOMAIN report.models = keys
    /\ \A key \in keys : /\ report.models[key].calls = CallsOf({e \in entries : e.key = key})
                         /\ report.models[key].share[2] = CallsOf({e \in entries : e.key[1] = key[1]})
    /\ DOMAIN report.weekly = weeks
    /\ \A week \in weeks :
         report.weekly[week] =
           [name \in {e.key[2] : e \in {d \in entries : WeekKey(d.started) = week}} |->
              CallsOf({e \in entries : WeekKey(e.started) = week /\ e.key[2] = name})]

\* The report says it.
LEMMA ModelReportIs ==
    ASSUME NEW scope, NEW report, report = BuildModelReport(scope), NEW entries, entries = ModelEntries(scope),
           NEW keys, keys = {e.key : e \in entries}, NEW weeks, weeks = {WeekKey(e.started) : e \in entries}
    PROVE  ModelsAdd(report, entries, keys, weeks)
  BY DEF BuildModelReport, ModelsAdd

\* The calls of responses that are each in one of several groups.
LEMMA CallsInGroups ==
    ASSUME NEW scope \in Seq(Session), NEW S, S \subseteq AnswersIn(scope), NEW key, NEW K, IsFiniteSet(K),
           \A x \in S : key[x] \in K,
           NEW h, DOMAIN h = K, \A k \in K : h[k] = CallsIn(scope, Group(S, key, k))
    PROVE  SumOf(h) = CallsIn(scope, S) /\ Counts(h)
<1>1. PICK calls, f : calls = CallsAt(scope) /\ f = On(calls, S)
  OBVIOUS
<1>2. Counts(calls) /\ DOMAIN calls = AnswersIn(scope)
  BY <1>1, AnswersAre
<1>3. \A V : V \subseteq S => Counts(On(calls, V))
  <2> SUFFICES ASSUME NEW V, V \subseteq S PROVE Counts(On(calls, V))
    OBVIOUS
  <2>1. IsFiniteSet(V) /\ \A y \in V : calls[y] \in Nat
    BY <1>2, FS_Subset DEF Counts
  <2> QED
    BY <2>1 DEF Counts, On
<1>4. DOMAIN f = S /\ Counts(f)
  BY <1>1, <1>3 DEF On
<1>5. PICK u : u = GroupSums(f, key, K, S)
  OBVIOUS
<1>6. DOMAIN u = K /\ \A k \in K : u[k] = SumOf(On(f, Group(S, key, k)))
  BY <1>5 DEF GroupSums
<1>7. \A k \in K : On(f, Group(S, key, k)) = On(calls, Group(S, key, k)) /\ Group(S, key, k) \subseteq S
  BY <1>1 DEF On, Group
<1>8. \A k \in K : h[k] = u[k] /\ u[k] \in Nat
  <2> SUFFICES ASSUME NEW k \in K PROVE h[k] = u[k] /\ u[k] \in Nat
    OBVIOUS
  <2>1. u[k] = SumOf(On(calls, Group(S, key, k)))
    BY <1>6, <1>7
  <2>2. Counts(On(calls, Group(S, key, k)))
    BY <1>3, <1>7
  <2> QED
    BY <1>1, <2>1, <2>2, SumNat DEF CallsIn
<1>9. SumOf(u) = SumOf(f)
  <2>1. SumOf(GroupSums(f, key, K, DOMAIN f)) = SumOf(f)
    BY <1>4, SumGrouped
  <2> QED
    BY <1>4, <1>5, <2>1
<1>10. Counts(u) /\ Counts(h)
  BY <1>6, <1>8 DEF Counts
<1>11. SumOf(h) = SumOf(u)
  BY <1>6, <1>8, <1>10, SumSame
<1> QED
  BY <1>1, <1>9, <1>10, <1>11 DEF CallsIn

\* The calls of one session.
LEMMA SessionCalls ==
    ASSUME NEW scope \in Seq(Session), NEW i \in 1 .. Len(scope), NEW S, S = {a \in AnswersIn(scope) : a[1] = i}
    PROVE  CallsIn(scope, S) = Cardinality(Responses(scope[i])) /\ CallsIn(scope, S) \in Nat
<1>1. S \subseteq AnswersIn(scope)
  OBVIOUS
<1>2. CallsIn(scope, S) = Cardinality(S) /\ IsFiniteSet(S) /\ Cardinality(S) \in Nat
  BY <1>1, CallsInIs
<1>3. PICK Z : Z = Responses(scope[i])
  OBVIOUS
<1>4. \A a : a \in S <=> \E x \in Z : a = <<i, x>>
  BY <1>3, AnswersAre
<1>5. PICK f : f = [a \in S |-> a[2]]
  OBVIOUS
<1>6. \A a \in S : f[a] \in Z
  BY <1>4, <1>5
<1>7. \A x \in Z : \E a \in S : f[a] = x
  <2> SUFFICES ASSUME NEW x \in Z PROVE \E a \in S : f[a] = x
    OBVIOUS
  <2>1. PICK a : a = <<i, x>>
    OBVIOUS
  <2>2. a \in S /\ a[2] = x
    BY <1>4, <2>1
  <2> QED
    BY <1>5, <2>2
<1>8. \A a, b \in S : f[a] = f[b] => a = b
  BY <1>4, <1>5
<1>9. DOMAIN f = S
  BY <1>5
<1>10. Cardinality(S) = Cardinality(Z)
  BY <1>2, <1>6, <1>7, <1>8, <1>9, AsMany
<1> QED
  BY <1>2, <1>3, <1>10

\* The calls of a project.
LEMMA ProjectCalls ==
    ASSUME NEW scope \in Seq(Session), NEW repo,
           NEW S, S = {x \in AnswersIn(scope) : BelongsToRepo(scope[x[1]].cwd, repo)}
    PROVE  BuildProjectReport(repo, scope).calls = CallsIn(scope, S)
<1>1. PICK here, list : here = {i \in DOMAIN scope : BelongsToRepo(scope[i].cwd, repo)} /\ list = Selection(scope, here)
  OBVIOUS
<1>2. PICK f : f = [j \in DOMAIN list |-> Cardinality(Responses(list[j]))]
  OBVIOUS
<1>3. BuildProjectReport(repo, scope).calls = SumOf(f)
  BY <1>1, <1>2 DEF BuildProjectReport, Total
<1>4. PICK w : /\ Orderly(w, Len(scope), here) /\ list \in Seq(Session) /\ Len(list) = Len(w)
               /\ \A j \in 1 .. Len(w) : list[j] = scope[w[j]]
  <2>1. list = Selection(scope, here)
    BY <1>1
  <2> QED
    BY <2>1, SelectionPlaces
<1>5. PICK N \in Nat : N = Len(w)
  BY <1>4 DEF Orderly
<1>6. /\ \A j \in 1 .. N : w[j] \in here
      /\ \A i, j \in 1 .. N : i < j => w[i] < w[j]
      /\ \A i \in here : \E j \in 1 .. N : w[j] = i
      /\ \A j \in 1 .. N : w[j] \in Nat
  <2>1. /\ w \in Seq(Nat)
        /\ \A j \in 1 .. N : w[j] \in here
        /\ \A i, j \in 1 .. N : i < j => w[i] < w[j]
        /\ \A i \in 1 .. Len(scope) : i \in here => \E j \in 1 .. N : w[j] = i
    BY <1>4, <1>5 DEF Orderly
  <2>2. \A i \in here : i \in 1 .. Len(scope)
    BY <1>1
  <2>3. \A j \in 1 .. N : w[j] \in Nat
    BY <1>5, <2>1
  <2> QED
    BY <2>1, <2>2, <2>3
<1>7. DOMAIN list = 1 .. N /\ DOMAIN f = 1 .. N
  BY <1>2, <1>4, <1>5
<1>8. PICK first : first = [x \in AnswersIn(scope) |-> x[1]]
  OBVIOUS
<1>9. PICK h : h = [i \in here |-> CallsIn(scope, Group(S, first, i))]
  OBVIOUS
<1>10. \A i \in here : Group(S, first, i) = {x \in AnswersIn(scope) : x[1] = i}
  BY <1>1, <1>8 DEF Group
<1>11. \A i \in here : h[i] = Cardinality(Responses(scope[i])) /\ h[i] \in Nat
  <2> SUFFICES ASSUME NEW i \in here
               PROVE  h[i] = Cardinality(Responses(scope[i])) /\ h[i] \in Nat
    OBVIOUS
  <2>1. i \in 1 .. Len(scope)
    BY <1>1
  <2>2. PICK T : T = {x \in AnswersIn(scope) : x[1] = i}
    OBVIOUS
  <2>3. CallsIn(scope, T) = Cardinality(Responses(scope[i])) /\ CallsIn(scope, T) \in Nat
    BY <2>1, <2>2, SessionCalls
  <2>4. h[i] = CallsIn(scope, T)
    BY <1>9, <1>10, <2>2
  <2> QED
    BY <2>3, <2>4
<1>12. \A j \in 1 .. N : f[j] = h[w[j]]
  <2> SUFFICES ASSUME NEW j \in 1 .. N PROVE f[j] = h[w[j]]
    OBVIOUS
  <2>1. PICK i \in here : i = w[j]
    BY <1>6
  <2>2. list[j] = scope[i]
    BY <1>4, <1>5, <2>1
  <2>3. f[j] = Cardinality(Responses(list[j]))
    BY <1>2, <1>7
  <2>4. h[i] = Cardinality(Responses(scope[i]))
    BY <1>11
  <2> QED
    BY <2>1, <2>2, <2>3, <2>4
<1>13. IsFiniteSet(here) /\ IsFiniteSet(1 .. N)
  <2>1. IsFiniteSet(1 .. N)
    BY FS_Interval
  <2> QED
    BY <1>6, <2>1, FiniteImage
<1>14. Counts(f)
  <2>1. \A j \in 1 .. N : f[j] \in Nat
    BY <1>6, <1>11, <1>12
  <2> QED
    BY <1>7, <1>13, <2>1 DEF Counts
<1>15. SumOf(h) = SumOf(f)
  <2>1. DOMAIN h = here
    BY <1>9
  <2>2. \A j \in DOMAIN f : w[j] \in DOMAIN h /\ h[w[j]] = f[j]
    BY <1>6, <1>7, <1>12, <2>1
  <2>3. \A i \in DOMAIN h : \E j \in DOMAIN f : w[j] = i
    BY <1>6, <1>7, <2>1
  <2>4. \A i, j \in DOMAIN f : w[i] = w[j] => i = j
    <3> SUFFICES ASSUME NEW i \in 1 .. N, NEW j \in 1 .. N, i # j PROVE w[i] # w[j]
      BY <1>7
    <3>1. w[i] \in Nat /\ w[j] \in Nat
      BY <1>6
    <3>2. i < j \/ j < i
      OBVIOUS
    <3> QED
      BY <1>6, <3>1, <3>2
  <2> QED
    BY <1>13, <1>14, <2>1, <2>2, <2>3, <2>4, SumRenamed
<1>16. SumOf(h) = CallsIn(scope, S)
  <2>1. \A x \in S : first[x] \in here
    <3> SUFFICES ASSUME NEW x \in S PROVE first[x] \in here
      OBVIOUS
    <3>1. x \in AnswersIn(scope) /\ BelongsToRepo(scope[x[1]].cwd, repo)
      OBVIOUS
    <3>2. PICK i \in 1 .. Len(scope) : \E y \in Responses(scope[i]) : x = <<i, y>>
      BY <3>1, AnswersAre
    <3>3. x[1] = i
      BY <3>2
    <3> QED
      BY <1>1, <1>8, <3>1, <3>3
  <2>2. S \subseteq AnswersIn(scope) /\ DOMAIN h = here
    BY <1>9
  <2>3. \A i \in here : h[i] = CallsIn(scope, Group(S, first, i))
    BY <1>9
  <2> QED
    BY <1>13, <2>1, <2>2, <2>3, CallsInGroups
<1> QED
  BY <1>3, <1>15, <1>16

\* The calls of entries with a property are the responses with it.
LEMMA CallsWith ==
    ASSUME NEW scope \in Seq(Session), NEW P, P \subseteq ModelEntries(scope),
           NEW X, X \subseteq Real(scope), \A x \in Real(scope) : EntryOf(scope)[x] \in P <=> x \in X
    PROVE  CallsOf(P) = Cardinality(X) /\ Counts([e \in P |-> e.calls])
<1>1. X = {x \in Real(scope) : EntryOf(scope)[x] \in P}
  OBVIOUS
<1>2. CallsOf(P) = CallsIn(scope, X) /\ Counts([e \in P |-> e.calls])
  BY <1>1, CallsOfSteps DEF CallsIn
<1>3. X \subseteq AnswersIn(scope)
  BY DEF Real
<1>4. CallsIn(scope, X) = Cardinality(X)
  BY <1>3, CallsInIs
<1> QED
  BY <1>2, <1>4

\* What the responses of a scope add up to.
AddUpIn(scope, report, answers, real) ==
    /\ \A key \in DOMAIN report.models :
         /\ report.models[key].calls =
              Cardinality({a \in real : <<scope[a[1]].adapter, ModelAt(scope, a).name>> = key})
         /\ report.models[key].share[2] = Cardinality({a \in real : scope[a[1]].adapter = key[1]})
    /\ Cardinality(real) = SumOf([key \in DOMAIN report.models |-> report.models[key].calls])
    /\ {WeekKey(scope[a[1]].started) : a \in real} \subseteq DOMAIN report.weekly
    /\ \A week \in DOMAIN report.weekly :
         SumOf(report.weekly[week]) = Cardinality({a \in real : WeekKey(scope[a[1]].started) = week})
    /\ \A repo \in Repos :
         BuildProjectReport(repo, scope).calls =
           Cardinality({a \in answers : BelongsToRepo(scope[a[1]].cwd, repo)})

\* They do.
LEMMA CallsAddUpIn ==
    ASSUME NEW scope \in Seq(Session), NEW report, report = BuildModelReport(scope)
    PROVE  AddUpIn(scope, report, AnswersIn(scope), Real(scope))
<1>1. PICK entries, keys, weeks : /\ entries = ModelEntries(scope)
                                  /\ keys = {e.key : e \in entries}
                                  /\ weeks = {WeekKey(e.started) : e \in entries}
  OBVIOUS
<1>2. /\ DOMAIN report.models = keys
      /\ \A key \in keys :
           /\ report.models[key].calls = CallsOf({e \in entries : e.key = key})
           /\ report.models[key].share[2] = CallsOf({e \in entries : e.key[1] = key[1]})
      /\ DOMAIN report.weekly = weeks
      /\ \A week \in weeks :
           report.weekly[week] =
             [name \in {e.key[2] : e \in {d \in entries : WeekKey(d.started) = week}} |->
                CallsOf({e \in entries : WeekKey(e.started) = week /\ e.key[2] = name})]
  <2>1. ModelsAdd(report, entries, keys, weeks)
    BY <1>1, ModelReportIs
  <2> QED
    BY <2>1 DEF ModelsAdd
<1>3. \A x \in Real(scope) : EntryOf(scope)[x] \in entries
  BY <1>1, EntriesAre
<1>4. \A x \in Real(scope) : /\ EntryOf(scope)[x].key = <<scope[x[1]].adapter, ModelAt(scope, x).name>>
                             /\ EntryOf(scope)[x].started = scope[x[1]].started
  BY DEF EntryOf, EntryFor, DisplayModel
<1>5. \A x \in Real(scope) : EntryOf(scope)[x].key[1] = scope[x[1]].adapter
  BY <1>4
<1>6. IsFiniteSet(entries)
  BY <1>1, EntriesAre
<1>7. Cardinality(Real(scope)) = SumOf([key \in DOMAIN report.models |-> report.models[key].calls])
  <2>1. PICK h : h = [key \in DOMAIN report.models |-> report.models[key].calls]
    OBVIOUS
  <2>2. PICK key : key = [e \in entries |-> e.key]
    OBVIOUS
  <2>3. DOMAIN h = keys /\ \A k \in keys : h[k] = CallsOf({e \in entries : key[e] = k})
    <3>1. \A k : {e \in entries : key[e] = k} = {e \in entries : e.key = k}
      BY <2>2
    <3> QED
      BY <1>2, <2>1, <3>1
  <2>4. \A e \in entries : key[e] \in keys
    BY <1>1, <2>2
  <2>5. IsFiniteSet(keys)
    <3>1. \A k \in keys : \E e \in entries : key[e] = k
      BY <1>1, <2>2
    <3> QED
      BY <1>6, <3>1, FiniteImage
  <2>6. CallsOf(entries) = Cardinality(Real(scope)) /\ Counts([e \in entries |-> e.calls])
    <3>1. entries \subseteq ModelEntries(scope)
      BY <1>1
    <3>2. \A x \in Real(scope) : EntryOf(scope)[x] \in entries <=> x \in Real(scope)
      BY <1>3
    <3> QED
      BY <3>1, <3>2, CallsWith
  <2>7. SumOf(h) = CallsOf(entries)
    <3>1. PICK g : g = [e \in entries |-> e.calls]
      OBVIOUS
    <3>2. Counts(g)
      BY <2>6, <3>1
    <3> QED
      BY <2>3, <2>4, <2>5, <3>1, <3>2, CallsByKey
  <2> QED
    BY <2>1, <2>6, <2>7
<1>8. ASSUME NEW week \in DOMAIN report.weekly
      PROVE  SumOf(report.weekly[week]) =
               Cardinality({x \in Real(scope) : WeekKey(scope[x[1]].started) = week})
  <2>1. PICK P, X, names : /\ P = {e \in entries : WeekKey(e.started) = week}
                           /\ X = {x \in Real(scope) : WeekKey(scope[x[1]].started) = week}
                           /\ names = {e.key[2] : e \in P}
    OBVIOUS
  <2>2. PICK h : h = report.weekly[week]
    OBVIOUS
  <2>3. h = [name \in names |-> CallsOf({e \in entries : WeekKey(e.started) = week /\ e.key[2] = name})]
    BY <1>2, <2>1, <2>2
  <2>4. PICK key : key = [e \in P |-> e.key[2]]
    OBVIOUS
  <2>5. DOMAIN h = names /\ \A k \in names : h[k] = CallsOf({e \in P : key[e] = k})
    <3>1. \A k : {e \in P : key[e] = k} = {e \in entries : WeekKey(e.started) = week /\ e.key[2] = k}
      BY <2>1, <2>4
    <3> QED
      BY <2>3, <3>1
  <2>6. \A e \in P : key[e] \in names
    BY <2>1, <2>4
  <2>7. IsFiniteSet(names)
    <3>1. IsFiniteSet(P)
      BY <1>6, <2>1, FS_Subset
    <3>2. \A k \in names : \E e \in P : key[e] = k
      BY <2>1, <2>4
    <3> QED
      BY <3>1, <3>2, FiniteImage
  <2>8. CallsOf(P) = Cardinality(X) /\ Counts([e \in P |-> e.calls])
    <3>1. P \subseteq ModelEntries(scope) /\ X \subseteq Real(scope)
      BY <1>1, <2>1
    <3>2. \A x \in Real(scope) : EntryOf(scope)[x] \in P <=> x \in X
      BY <1>3, <1>4, <2>1
    <3> QED
      BY <3>1, <3>2, CallsWith
  <2>9. SumOf(h) = CallsOf(P)
    <3>1. PICK g : g = [e \in P |-> e.calls]
      OBVIOUS
    <3>2. Counts(g)
      BY <2>8, <3>1
    <3> QED
      BY <2>5, <2>6, <2>7, <3>1, <3>2, CallsByKey
  <2> QED
    BY <2>1, <2>2, <2>8, <2>9
<1>9. ASSUME NEW key \in DOMAIN report.models
      PROVE  report.models[key].share[2] = Cardinality({x \in Real(scope) : scope[x[1]].adapter = key[1]})
  <2>1. PICK P, X : P = {e \in entries : e.key[1] = key[1]} /\ X = {x \in Real(scope) : scope[x[1]].adapter = key[1]}
    OBVIOUS
  <2>2. P \subseteq ModelEntries(scope) /\ X \subseteq Real(scope)
    BY <1>1, <2>1
  <2>3. \A x \in Real(scope) : EntryOf(scope)[x] \in P <=> x \in X
    BY <1>3, <1>5, <2>1
  <2>4. CallsOf(P) = Cardinality(X)
    BY <2>2, <2>3, CallsWith
  <2>5. report.models[key].share[2] = CallsOf(P)
    BY <1>2, <2>1
  <2> QED
    BY <2>1, <2>4, <2>5
<1>10. ASSUME NEW key \in DOMAIN report.models
       PROVE  report.models[key].calls =
                Cardinality({x \in Real(scope) : <<scope[x[1]].adapter, ModelAt(scope, x).name>> = key})
  <2>1. PICK P, X : /\ P = {e \in entries : e.key = key}
                    /\ X = {x \in Real(scope) : <<scope[x[1]].adapter, ModelAt(scope, x).name>> = key}
    OBVIOUS
  <2>2. P \subseteq ModelEntries(scope) /\ X \subseteq Real(scope)
    BY <1>1, <2>1
  <2>3. \A x \in Real(scope) : EntryOf(scope)[x] \in P <=> x \in X
    BY <1>3, <1>4, <2>1
  <2>4. CallsOf(P) = Cardinality(X)
    BY <2>2, <2>3, CallsWith
  <2>5. report.models[key].calls = CallsOf(P)
    BY <1>2, <2>1
  <2> QED
    BY <2>1, <2>4, <2>5
<1>11. {WeekKey(scope[a[1]].started) : a \in Real(scope)} \subseteq DOMAIN report.weekly
  <2> SUFFICES ASSUME NEW a \in Real(scope) PROVE WeekKey(scope[a[1]].started) \in weeks
    BY <1>2
  <2>1. PICK e \in entries : e = EntryOf(scope)[a]
    BY <1>3
  <2>2. WeekKey(e.started) = WeekKey(scope[a[1]].started)
    BY <1>4, <2>1
  <2> QED
    BY <1>1, <2>2
<1>12. ASSUME NEW repo
       PROVE  BuildProjectReport(repo, scope).calls =
                Cardinality({a \in AnswersIn(scope) : BelongsToRepo(scope[a[1]].cwd, repo)})
  <2>1. PICK S : S = {a \in AnswersIn(scope) : BelongsToRepo(scope[a[1]].cwd, repo)}
    OBVIOUS
  <2>2. BuildProjectReport(repo, scope).calls = CallsIn(scope, S)
    BY <2>1, ProjectCalls
  <2>3. S \subseteq AnswersIn(scope)
    BY <2>1
  <2>4. CallsIn(scope, S) = Cardinality(S)
    BY <2>3, CallsInIs
  <2> QED
    BY <2>1, <2>2, <2>4
<1> QED
  BY <1>7, <1>8, <1>9, <1>10, <1>11, <1>12 DEF AddUpIn

\* So they add up in every scope.
LEMMA AllCallsAddUp == History => CallsAddUp
<1> SUFFICES ASSUME History PROVE CallsAddUp
  OBVIOUS
<1>1. ASSUME NEW scope \in Scopes
      PROVE  LET others == Selection(scope, External(scope))
                 report == BuildModelReport(others)
                 answers == UNION {{<<i, x>> : x \in Responses(others[i])} : i \in DOMAIN others}
                 Model(a) == ModelOf(others[a[1]], a[2])
                 real == {a \in answers : Model(a) # NoModel /\ ~Model(a).synthetic}
             IN /\ \A key \in DOMAIN report.models :
                     /\ report.models[key].calls =
                          Cardinality({a \in real : <<others[a[1]].adapter, Model(a).name>> = key})
                     /\ report.models[key].share[2] = Cardinality({a \in real : others[a[1]].adapter = key[1]})
                /\ Cardinality(real) = SumOf([key \in DOMAIN report.models |-> report.models[key].calls])
                /\ {WeekKey(others[a[1]].started) : a \in real} \subseteq DOMAIN report.weekly
                /\ \A week \in DOMAIN report.weekly :
                     SumOf(report.weekly[week]) =
                       Cardinality({a \in real : WeekKey(others[a[1]].started) = week})
                /\ \A repo \in Repos :
                     BuildProjectReport(repo, others).calls =
                       Cardinality({a \in answers : BelongsToRepo(others[a[1]].cwd, repo)})
  <2>1. scope \in Seq(Session)
    BY <1>1, ScopeFrom DEF FromHistory
  <2>2. Selection(scope, External(scope)) \in Seq(Session)
    BY <2>1, SelectionRange
  <2>3. AddUpIn(Selection(scope, External(scope)), BuildModelReport(Selection(scope, External(scope))),
                AnswersIn(Selection(scope, External(scope))), Real(Selection(scope, External(scope))))
    BY <2>2, CallsAddUpIn
  <2> QED
    BY <2>3, Zenon DEF AddUpIn, AnswersIn, Real, ModelAt
<1> QED
  BY <1>1, Zenon DEF CallsAddUp

\* Of sessions that are not ASA's own, every response that names a model is in one
\* row of the models and in one week, the shares of an agent's models make up a
\* whole, and a project has those of the sessions begun in it or below it.
THEOREM CallsInReports == Spec => []CallsAddUp
  BY HistoryKept, AllCallsAddUp, PTL

-----------------------------------------------------------------------------
(* The windows: the samples are a line of the sessions, which the sort and the  *)
(* selections keep, and the first of a line that leads away are the nearest.   *)

\* A list of the values at some places, each once.
IsLine(q, list, values, A) ==
    /\ \A j \in 1 .. Len(list) : q[j] \in A /\ list[j] = values[q[j]]
    /\ \A i \in A : \E j \in 1 .. Len(list) : q[j] = i
    /\ \A j, k \in 1 .. Len(list) : q[j] = q[k] => j = k

\* Whether a measure of the places does not decrease along a list of them.
Ascends(q, n, d) == \A j, k \in 1 .. n : j < k => d[q[j]] <= d[q[k]]

Measures(window, scope, near) ==
    /\ window.sessions = Cardinality(near)
    /\ window.prompts = SumOf([i \in near |-> Len(Signals(scope[i]))])
    /\ window.interruption_rate[1] = SumOf([i \in near |-> Interruptions(scope[i])])

Nearest(size, all, d) ==
    {near \in SUBSET all :
       /\ Cardinality(near) = Min({size, Cardinality(all)})
       /\ \A i \in near, j \in all \ near : d[i] <= d[j]}

\* What a window says of its samples.
LEMMA WindowIs ==
    ASSUME NEW sub, NEW window, window = EfficacyWindow(sub)
    PROVE  /\ window.sessions = Len(sub)
           /\ window.prompts = SumOf([k \in DOMAIN sub |-> sub[k].prompts])
           /\ window.interruption_rate[1] = SumOf([k \in DOMAIN sub |-> sub[k].interruptions])
  BY DEF EfficacyWindow, Total

\* And a sample of its session.
LEMMA SampleIs ==
    ASSUME NEW s \in Session, NEW x, x = SteeringSample(s)
    PROVE  /\ x.started = s.started /\ x.prompts = Len(Signals(s)) /\ x.interruptions = Interruptions(s)
           /\ x.prompts \in Nat /\ x.interruptions \in Nat /\ x.started \in Nat
<1>1. x.started = s.started /\ x.prompts = Len(Signals(s)) /\ x.interruptions = Interruptions(s)
  BY DEF SteeringSample
<1>2. s.started \in Nat /\ s.steps \in Seq(Recorded)
  BY SessionFields
<1>3. Len(Signals(s)) \in Nat
  <2>1. Signals(s) \in Seq(Signal)
    BY SignalsAre DEF SignalsBy
  <2> QED
    BY <2>1
<1>4. Interruptions(s) \in Nat
  <2>1. PICK n \in Nat : DOMAIN s.steps = 1 .. n
    BY <1>2
  <2>2. IsFiniteSet(DOMAIN s.steps)
    BY <2>1, FS_Interval
  <2>3. PICK U, f : /\ U = {k \in DOMAIN s.steps : s.steps[k].aborted}
                    /\ f = [k \in DOMAIN s.steps |-> s.steps[k].interrupts]
    OBVIOUS
  <2>4. IsFiniteSet(U)
    BY <2>2, <2>3, FS_Subset
  <2>5. Counts(f)
    <3>1. ASSUME NEW k \in DOMAIN s.steps PROVE f[k] \in Nat
      <4>1. PICK step \in Recorded : step = s.steps[k]
        BY <1>2
      <4>2. step.interrupts \in {t.interrupts : t \in Turns}
        BY DEF Recorded
      <4>3. PICK t \in Turns : step.interrupts = t.interrupts
        BY <4>2
      <4>4. t.interrupts \in Nat
        BY InsightsAssumption DEF InsightsAssumption
      <4> QED
        BY <2>3, <4>1, <4>3, <4>4
    <3> QED
      BY <2>2, <2>3, <3>1 DEF Counts
  <2>6. Cardinality(U) \in Nat /\ SumOf(f) \in Nat
    BY <2>4, <2>5, FS_CardinalityType, SumNat
  <2>7. Interruptions(s) = IF s.adapter = "claude" THEN SumOf(f) ELSE Cardinality(U)
    BY <2>3, Zenon DEF Interruptions, Count, Total
  <2> QED
    BY <2>6, <2>7
<1> QED
  BY <1>1, <1>2, <1>3, <1>4

\* The first samples of a line that leads away are those of the nearest.
LEMMA TakenNearest ==
    ASSUME NEW scope \in Seq(Session), NEW S, NEW list \in Seq(S), NEW q, NEW all, all \subseteq 1 .. Len(scope),
           NEW values, \A i \in 1 .. Len(scope) : values[i] = SteeringSample(scope[i]),
           IsLine(q, list, values, all), NEW size \in Nat, NEW d, Ascends(q, Len(list), d),
           NEW window, window = Taken(list, size)
    PROVE  \E near \in Nearest(size, all, d) : Measures(window, scope, near)
<1>1. PICK M \in Nat : M = Len(list)
  OBVIOUS
<1>2. /\ \A j \in 1 .. M : q[j] \in all /\ list[j] = SteeringSample(scope[q[j]])
      /\ \A i \in all : \E j \in 1 .. M : q[j] = i
      /\ \A j, k \in 1 .. M : q[j] = q[k] => j = k
  BY <1>1 DEF IsLine
<1>21. \A j, k \in 1 .. M : j < k => d[q[j]] <= d[q[k]]
  BY <1>1 DEF Ascends
<1>3. PICK m : m = Min({size, M})
  OBVIOUS
<1>4. m \in Nat /\ m <= M
  BY <1>3, MinOfTwo
<1>5. \A n \in Nat : n <= M => \A T : T = {q[j] : j \in 1 .. n} => IsFiniteSet(T) /\ Cardinality(T) = n
  <2> SUFFICES ASSUME NEW n \in Nat, n <= M, NEW T, T = {q[j] : j \in 1 .. n}
               PROVE  IsFiniteSet(T) /\ Cardinality(T) = n
    OBVIOUS
  <2>1. PICK f : f = [j \in 1 .. n |-> q[j]]
    OBVIOUS
  <2>2. \A j \in 1 .. n : j \in 1 .. M
    OBVIOUS
  <2>3. f \in [1 .. n -> T] /\ \A t \in T : \E j \in 1 .. n : f[j] = t
    BY <2>1
  <2>4. \A i, j \in 1 .. n : f[i] = f[j] => i = j
    BY <1>2, <2>1, <2>2
  <2>5. f \in Bijection(1 .. n, T)
    BY <2>3, <2>4 DEF Bijection, Injection, Surjection, IsInjective
  <2>6. IsFiniteSet(1 .. n) /\ Cardinality(1 .. n) = n
    BY FS_Interval
  <2>7. ExistsBijection(1 .. n, T)
    BY <2>5 DEF ExistsBijection
  <2> QED
    BY <2>6, <2>7, FS_Bijection
<1>6. Cardinality(all) = M
  <2>1. PICK T : T = {q[j] : j \in 1 .. M}
    OBVIOUS
  <2>2. \A j \in 1 .. M : q[j] \in all
    BY <1>2
  <2>3. \A i \in all : \E j \in 1 .. M : q[j] = i
    BY <1>2
  <2>4. T = all
    BY <2>1, <2>2, <2>3, Zenon
  <2> QED
    BY <1>1, <1>5, <2>1, <2>4
<1>7. PICK near : near = {q[j] : j \in 1 .. m}
  OBVIOUS
<1>8. IsFiniteSet(near) /\ Cardinality(near) = m
  BY <1>4, <1>5, <1>7
<1>9. \A j \in 1 .. m : j \in 1 .. M
  BY <1>1, <1>4
<1>10. near \in Nearest(size, all, d)
  <2>1. near \in SUBSET all
    BY <1>2, <1>7, <1>9
  <2>2. Cardinality(near) = Min({size, Cardinality(all)})
    BY <1>3, <1>6, <1>8
  <2>3. ASSUME NEW i \in near, NEW j \in all \ near PROVE d[i] <= d[j]
    <3>1. PICK k \in 1 .. m : i = q[k]
      BY <1>7
    <3>2. PICK l \in 1 .. M : j = q[l]
      BY <1>2
    <3>3. l \notin 1 .. m
      BY <1>7, <3>2
    <3>4. k < l /\ k \in 1 .. M
      BY <1>1, <1>4, <1>9, <3>3
    <3> QED
      BY <1>21, <3>1, <3>2, <3>4
  <2> QED
    BY <2>1, <2>2, <2>3 DEF Nearest
<1>11. PICK sub : sub = SubSeq(list, 1, m)
  OBVIOUS
<1>12. DOMAIN sub = 1 .. m /\ Len(sub) = m /\ \A j \in 1 .. m : sub[j] = list[j]
  BY <1>1, <1>4, <1>11
<1>13. window = EfficacyWindow(sub)
  BY <1>1, <1>3, <1>11 DEF Taken
<1>14. /\ window.sessions = Len(sub)
       /\ window.prompts = SumOf([k \in DOMAIN sub |-> sub[k].prompts])
       /\ window.interruption_rate[1] = SumOf([k \in DOMAIN sub |-> sub[k].interruptions])
  BY <1>13, WindowIs
<1>15. ASSUME NEW j \in 1 .. m
       PROVE  /\ sub[j].prompts = Len(Signals(scope[q[j]])) /\ sub[j].prompts \in Nat
              /\ sub[j].interruptions = Interruptions(scope[q[j]]) /\ sub[j].interruptions \in Nat
              /\ q[j] \in near
  <2>0. q[j] \in 1 .. Len(scope)
    BY <1>2, <1>9
  <2>1. PICK s \in Session : s = scope[q[j]]
    BY <2>0
  <2>2. PICK x : x = SteeringSample(s)
    OBVIOUS
  <2>3. sub[j] = x
    BY <1>2, <1>9, <1>12, <2>1, <2>2
  <2>4. x.prompts = Len(Signals(s)) /\ x.interruptions = Interruptions(s) /\ x.prompts \in Nat /\ x.interruptions \in Nat
    BY <2>2, SampleIs
  <2> QED
    BY <1>7, <2>1, <2>3, <2>4
<1>16. IsFiniteSet(1 .. m) /\ \A i \in near : \E j \in 1 .. m : q[j] = i
  <2>1. IsFiniteSet(1 .. m)
    BY <1>4, FS_Interval
  <2> QED
    BY <1>7, <2>1
<1>17. \A j, k \in 1 .. m : q[j] = q[k] => j = k
  BY <1>2, <1>9
<1>18. window.prompts = SumOf([i \in near |-> Len(Signals(scope[i]))])
  <2>1. PICK f, h : f = [k \in 1 .. m |-> sub[k].prompts] /\ h = [i \in near |-> Len(Signals(scope[i]))]
    OBVIOUS
  <2>2. Counts(f) /\ DOMAIN f = 1 .. m /\ DOMAIN h = near
    BY <1>15, <1>16, <2>1 DEF Counts
  <2>3. \A j \in 1 .. m : q[j] \in near /\ h[q[j]] = f[j]
    BY <1>15, <2>1
  <2>4. SumOf(h) = SumOf(f)
    <3>1. IsFiniteSet(DOMAIN h)
      BY <1>8, <2>2
    <3>2. \A x \in DOMAIN f : q[x] \in DOMAIN h /\ h[q[x]] = f[x]
      BY <2>2, <2>3
    <3>3. \A e \in DOMAIN h : \E x \in DOMAIN f : q[x] = e
      BY <1>16, <2>2
    <3>4. \A x, y \in DOMAIN f : q[x] = q[y] => x = y
      BY <1>17, <2>2
    <3> QED
      BY <2>2, <3>1, <3>2, <3>3, <3>4, SumRenamed
  <2> QED
    BY <1>12, <1>14, <2>1, <2>4
<1>19. window.interruption_rate[1] = SumOf([i \in near |-> Interruptions(scope[i])])
  <2>1. PICK f, h : f = [k \in 1 .. m |-> sub[k].interruptions] /\ h = [i \in near |-> Interruptions(scope[i])]
    OBVIOUS
  <2>2. Counts(f) /\ DOMAIN f = 1 .. m /\ DOMAIN h = near
    BY <1>15, <1>16, <2>1 DEF Counts
  <2>3. \A j \in 1 .. m : q[j] \in near /\ h[q[j]] = f[j]
    BY <1>15, <2>1
  <2>4. SumOf(h) = SumOf(f)
    <3>1. IsFiniteSet(DOMAIN h)
      BY <1>8, <2>2
    <3>2. \A x \in DOMAIN f : q[x] \in DOMAIN h /\ h[q[x]] = f[x]
      BY <2>2, <2>3
    <3>3. \A e \in DOMAIN h : \E x \in DOMAIN f : q[x] = e
      BY <1>16, <2>2
    <3>4. \A x, y \in DOMAIN f : q[x] = q[y] => x = y
      BY <1>17, <2>2
    <3> QED
      BY <2>2, <3>1, <3>2, <3>3, <3>4, SumRenamed
  <2> QED
    BY <1>12, <1>14, <2>1, <2>4
<1>20. Measures(window, scope, near)
  BY <1>8, <1>12, <1>14, <1>18, <1>19 DEF Measures
<1> QED
  BY <1>10, <1>20

\* Whether a list of places leads where another one does.
LeadsAs(r, m, q, n) == \A d : Ascends(q, n, d) => Ascends(r, m, d)

\* The places that some of a list are.
Chosen(B, q, n, places) == \A i : i \in B <=> \E j \in 1 .. n : j \in places /\ q[j] = i

\* The selection of a line is a line in the same direction.
LEMMA LineSelected ==
    ASSUME NEW S, NEW seq \in Seq(S), NEW values, NEW A, NEW q, IsLine(q, seq, values, A), NEW places,
           NEW sel, sel = Selection(seq, places),
           NEW B, Chosen(B, q, Len(seq), places)
    PROVE  /\ sel \in Seq(S)
           /\ \E r : IsLine(r, sel, values, B) /\ LeadsAs(r, Len(sel), q, Len(seq))
<1>1. PICK w : /\ Orderly(w, Len(seq), places) /\ sel \in Seq(S) /\ Len(sel) = Len(w)
               /\ \A j \in 1 .. Len(w) : sel[j] = seq[w[j]]
  BY SelectionPlaces
<1>2. PICK N \in Nat : N = Len(seq)
  OBVIOUS
<1>3. PICK M \in Nat : M = Len(w)
  BY <1>1 DEF Orderly
<1>4. /\ \A j \in 1 .. M : w[j] \in places /\ w[j] \in 1 .. N
      /\ \A i, j \in 1 .. M : i < j => w[i] < w[j]
      /\ \A x \in 1 .. N : x \in places => \E j \in 1 .. M : w[j] = x
  BY <1>1, <1>2, <1>3 DEF Orderly
<1>5. /\ \A j \in 1 .. N : q[j] \in A /\ seq[j] = values[q[j]]
      /\ \A j, k \in 1 .. N : q[j] = q[k] => j = k
  BY <1>2 DEF IsLine
<1>0. \A i : i \in B <=> \E j \in 1 .. N : j \in places /\ q[j] = i
  BY <1>2 DEF Chosen
<1>6. PICK r : r = [j \in 1 .. M |-> q[w[j]]]
  OBVIOUS
<1>7. \A j \in 1 .. M : r[j] = q[w[j]]
  BY <1>6
<1>8. \A j \in 1 .. M : r[j] \in B /\ sel[j] = values[r[j]]
  <2> SUFFICES ASSUME NEW j \in 1 .. M PROVE r[j] \in B /\ sel[j] = values[r[j]]
    OBVIOUS
  <2>1. PICK x \in 1 .. N : x = w[j] /\ x \in places
    BY <1>4
  <2>2. r[j] = q[x] /\ sel[j] = seq[x]
    BY <1>1, <1>3, <1>7, <2>1
  <2> QED
    BY <1>0, <1>5, <2>1, <2>2
<1>9. \A i \in B : \E j \in 1 .. M : r[j] = i
  <2> SUFFICES ASSUME NEW i \in B PROVE \E j \in 1 .. M : r[j] = i
    OBVIOUS
  <2>1. PICK x \in 1 .. N : x \in places /\ q[x] = i
    BY <1>0
  <2>2. PICK j \in 1 .. M : w[j] = x
    BY <1>4, <2>1
  <2> QED
    BY <1>7, <2>1, <2>2
<1>10. \A j, k \in 1 .. M : r[j] = r[k] => j = k
  <2> SUFFICES ASSUME NEW j \in 1 .. M, NEW k \in 1 .. M, j # k PROVE r[j] # r[k]
    OBVIOUS
  <2>1. PICK a \in 1 .. N, b \in 1 .. N : a = w[j] /\ b = w[k]
    BY <1>4
  <2>2. j < k \/ k < j
    OBVIOUS
  <2>3. a # b
    BY <1>4, <2>1, <2>2
  <2> QED
    BY <1>5, <1>7, <2>1, <2>3
<1>11. ASSUME NEW d, Ascends(q, N, d) PROVE Ascends(r, M, d)
  <2>1. \A j, k \in 1 .. N : j < k => d[q[j]] <= d[q[k]]
    BY <1>11 DEF Ascends
  <2>2. ASSUME NEW j \in 1 .. M, NEW k \in 1 .. M, j < k PROVE d[r[j]] <= d[r[k]]
    <3>1. PICK a \in 1 .. N, b \in 1 .. N : a = w[j] /\ b = w[k]
      BY <1>4
    <3>2. a < b
      BY <1>4, <2>2, <3>1
    <3>3. r[j] = q[a] /\ r[k] = q[b]
      BY <1>7, <3>1
    <3> QED
      BY <2>1, <3>2, <3>3
  <2> QED
    BY <2>2 DEF Ascends
<1>12. Len(sel) = M /\ IsLine(r, sel, values, B)
  BY <1>1, <1>3, <1>8, <1>9, <1>10 DEF IsLine
<1>13. LeadsAs(r, Len(sel), q, Len(seq))
  BY <1>2, <1>11, <1>12 DEF LeadsAs
<1> QED
  BY <1>1, <1>12, <1>13

\* A line that is ordered by a key leads from its greatest to its least.
LEMMA LineOrdered ==
    ASSUME NEW S, NEW seq \in Seq(S), NEW values, NEW A, NEW q, IsLine(q, seq, values, A),
           NEW d, \A i \in A : d[i] \in Int,
           NEW keys, DOMAIN keys = 1 .. Len(seq), \A j \in 1 .. Len(seq) : keys[j] = -d[q[j]],
           NEW sorted, sorted = Ordered(seq, keys)
    PROVE  /\ sorted \in Seq(S)
           /\ \E r : IsLine(r, sorted, values, A) /\ Ascends(r, Len(sorted), d)
<1>1. PICK N \in Nat : N = Len(seq)
  OBVIOUS
<1>2. /\ \A j \in 1 .. N : q[j] \in A /\ seq[j] = values[q[j]]
      /\ \A i \in A : \E j \in 1 .. N : q[j] = i
      /\ \A j, k \in 1 .. N : q[j] = q[k] => j = k
  BY <1>1 DEF IsLine
<1>3. \A j \in 1 .. N : d[q[j]] \in Int /\ keys[j] = -d[q[j]] /\ keys[j] \in Int
  <2> SUFFICES ASSUME NEW j \in 1 .. N PROVE d[q[j]] \in Int /\ keys[j] = -d[q[j]] /\ keys[j] \in Int
    OBVIOUS
  <2>1. d[q[j]] \in Int /\ keys[j] = -d[q[j]]
    BY <1>1, <1>2
  <2> QED
    BY <2>1
<1>4. PICK p : /\ sorted \in Seq(S) /\ Len(sorted) = N
               /\ Arranges(p, N, keys) /\ \A n \in 1 .. N : sorted[n] = seq[p[n]]
  <2>1. /\ sorted \in Seq(S) /\ Len(sorted) = Len(seq)
        /\ \E p : Arranges(p, Len(seq), keys) /\ \A n \in 1 .. Len(seq) : sorted[n] = seq[p[n]]
    BY <1>1, <1>3, OrderedPlaces
  <2> QED
    BY <1>1, <2>1
<1>5. /\ \A n \in 1 .. N : p[n] \in 1 .. N
      /\ \A i \in 1 .. N : \E n \in 1 .. N : p[n] = i
      /\ \A m, n \in 1 .. N : m < n => NoLater(keys, p[m], p[n]) /\ p[m] # p[n]
  BY <1>4 DEF Arranges
<1>6. PICK r : r = [n \in 1 .. N |-> q[p[n]]]
  OBVIOUS
<1>7. \A n \in 1 .. N : r[n] = q[p[n]]
  BY <1>6
<1>8. \A n \in 1 .. N : r[n] \in A /\ sorted[n] = values[r[n]]
  <2> SUFFICES ASSUME NEW n \in 1 .. N PROVE r[n] \in A /\ sorted[n] = values[r[n]]
    OBVIOUS
  <2>1. PICK a \in 1 .. N : a = p[n]
    BY <1>5
  <2>2. r[n] = q[a] /\ sorted[n] = seq[a]
    BY <1>4, <1>7, <2>1
  <2> QED
    BY <1>2, <2>2
<1>9. \A i \in A : \E n \in 1 .. N : r[n] = i
  <2> SUFFICES ASSUME NEW i \in A PROVE \E n \in 1 .. N : r[n] = i
    OBVIOUS
  <2>1. PICK j \in 1 .. N : q[j] = i
    BY <1>2
  <2>2. PICK n \in 1 .. N : p[n] = j
    BY <1>5
  <2> QED
    BY <1>7, <2>1, <2>2
<1>10. \A m, n \in 1 .. N : r[m] = r[n] => m = n
  <2> SUFFICES ASSUME NEW m \in 1 .. N, NEW n \in 1 .. N, m # n PROVE r[m] # r[n]
    OBVIOUS
  <2>1. PICK a \in 1 .. N, b \in 1 .. N : a = p[m] /\ b = p[n]
    BY <1>5
  <2>2. m < n \/ n < m
    OBVIOUS
  <2>3. a # b
    BY <1>5, <2>1, <2>2
  <2> QED
    BY <1>2, <1>7, <2>1, <2>3
<1>11. ASSUME NEW m \in 1 .. N, NEW n \in 1 .. N, m < n PROVE d[r[m]] <= d[r[n]]
  <2>1. PICK a \in 1 .. N, b \in 1 .. N : a = p[m] /\ b = p[n]
    BY <1>5
  <2>2. keys[a] > keys[b] \/ keys[a] = keys[b]
    BY <1>5, <1>11, <2>1 DEF NoLater
  <2>3. r[m] = q[a] /\ r[n] = q[b]
    BY <1>7, <2>1
  <2>4. PICK x \in Int, y \in Int : x = d[q[a]] /\ y = d[q[b]]
    BY <1>3
  <2>5. keys[a] = -x /\ keys[b] = -y
    BY <1>3, <2>4
  <2>6. x <= y
    BY <2>2, <2>5
  <2> QED
    BY <2>3, <2>4, <2>6
<1>12. IsLine(r, sorted, values, A) /\ Ascends(r, Len(sorted), d)
  BY <1>4, <1>8, <1>9, <1>10, <1>11 DEF IsLine, Ascends
<1> QED
  BY <1>4, <1>12

\* A line read backwards leads the other way.
LEMMA LineReversed ==
    ASSUME NEW S, NEW seq \in Seq(S), NEW values, NEW A, NEW q, IsLine(q, seq, values, A),
           NEW d, NEW e, Ascends(q, Len(seq), d), \A i, j \in A : d[i] <= d[j] => e[j] <= e[i],
           NEW rev, rev = Reverse(seq)
    PROVE  /\ rev \in Seq(S)
           /\ \E r : IsLine(r, rev, values, A) /\ Ascends(r, Len(rev), e)
<1>1. PICK N \in Nat : N = Len(seq)
  OBVIOUS
<1>2. /\ \A j \in 1 .. N : q[j] \in A /\ seq[j] = values[q[j]]
      /\ \A i \in A : \E j \in 1 .. N : q[j] = i
      /\ \A j, k \in 1 .. N : q[j] = q[k] => j = k
      /\ \A j, k \in 1 .. N : j < k => d[q[j]] <= d[q[k]]
  BY <1>1 DEF IsLine, Ascends
<1>3. \A j \in 1 .. N : (N - j) + 1 \in 1 .. N
  OBVIOUS
<1>4. rev = [j \in 1 .. N |-> seq[(N - j) + 1]]
  BY <1>1 DEF Reverse
<1>5. rev \in Seq(S) /\ Len(rev) = N /\ \A j \in 1 .. N : rev[j] = seq[(N - j) + 1]
  <2>1. \A j \in 1 .. N : seq[(N - j) + 1] \in S
    BY <1>1, <1>3
  <2> QED
    BY <1>4, <2>1
<1>6. PICK r : r = [j \in 1 .. N |-> q[(N - j) + 1]]
  OBVIOUS
<1>7. \A j \in 1 .. N : r[j] = q[(N - j) + 1]
  BY <1>6
<1>8. \A j \in 1 .. N : r[j] \in A /\ rev[j] = values[r[j]]
  <2> SUFFICES ASSUME NEW j \in 1 .. N PROVE r[j] \in A /\ rev[j] = values[r[j]]
    OBVIOUS
  <2>1. PICK i \in 1 .. N : i = (N - j) + 1
    BY <1>3
  <2>2. r[j] = q[i] /\ rev[j] = seq[i]
    BY <1>5, <1>7, <2>1
  <2> QED
    BY <1>2, <2>2
<1>9. \A i \in A : \E j \in 1 .. N : r[j] = i
  <2> SUFFICES ASSUME NEW i \in A PROVE \E j \in 1 .. N : r[j] = i
    OBVIOUS
  <2>1. PICK j \in 1 .. N : q[j] = i
    BY <1>2
  <2>2. PICK k \in 1 .. N : (N - k) + 1 = j
    <3>1. (N - j) + 1 \in 1 .. N /\ (N - ((N - j) + 1)) + 1 = j
      OBVIOUS
    <3> QED
      BY <3>1
  <2> QED
    BY <1>7, <2>1, <2>2
<1>10. \A j, k \in 1 .. N : r[j] = r[k] => j = k
  <2> SUFFICES ASSUME NEW j \in 1 .. N, NEW k \in 1 .. N, j # k PROVE r[j] # r[k]
    OBVIOUS
  <2>1. PICK a \in 1 .. N, b \in 1 .. N : a = (N - j) + 1 /\ b = (N - k) + 1
    BY <1>3
  <2>2. a # b
    BY <2>1
  <2>3. q[a] # q[b]
    BY <1>2, <2>2
  <2>4. r[j] = q[a] /\ r[k] = q[b]
    BY <1>7, <2>1
  <2> QED
    BY <2>3, <2>4
<1>11. ASSUME NEW j \in 1 .. N, NEW k \in 1 .. N, j < k PROVE e[r[j]] <= e[r[k]]
  <2>1. PICK a \in 1 .. N, b \in 1 .. N : a = (N - j) + 1 /\ b = (N - k) + 1
    BY <1>3
  <2>2. b < a
    BY <1>11, <2>1
  <2>3. d[q[b]] <= d[q[a]] /\ q[a] \in A /\ q[b] \in A
    BY <1>2, <2>2
  <2>4. e[q[a]] <= e[q[b]]
    BY <2>3
  <2> QED
    BY <1>7, <2>1, <2>4
<1>12. IsLine(r, rev, values, A) /\ Ascends(r, Len(rev), e)
  BY <1>5, <1>8, <1>9, <1>10, <1>11 DEF IsLine, Ascends
<1> QED
  BY <1>5, <1>12

\* What is said of the times: a session began before now, and the commits have theirs.
Dated ==
    /\ \A i \in 1 .. Len(sessions) : sessions[i].started < now
    /\ commits \in Seq([at : Nat, offset : Offsets])

\* It holds at first.
LEMMA InitDated == Init => Dated
  BY DEF Init, Dated

\* Every step keeps it.
LEMMA NextDated == History /\ Dated /\ [Next]_vars => Dated'
<1> SUFFICES ASSUME History, Dated, [Next]_vars PROVE Dated'
  OBVIOUS
<1>1. PICK N \in Nat : N = Len(sessions)
  BY DEF History, HistoryOf
<1>2. sessions \in Seq(Session) /\ now \in Nat /\ \A i \in 1 .. N : sessions[i] \in Session /\ sessions[i].started \in Nat
  <2>1. sessions \in Seq(Session) /\ now \in Nat
    BY DEF History, HistoryOf
  <2> QED
    BY <1>1, <2>1, SessionFields
<1>3. (\A i \in 1 .. N : sessions[i].started < now) /\ commits \in Seq([at : Nat, offset : Offsets])
  BY <1>1 DEF Dated
<1>4. \A i \in 1 .. N : sessions[i].started < now + 1
  <2> SUFFICES ASSUME NEW i \in 1 .. N PROVE sessions[i].started < now + 1
    OBVIOUS
  <2>1. PICK t \in Nat : t = sessions[i].started
    BY <1>2
  <2> QED
    BY <1>2, <1>3, <2>1
<1>5. ASSUME NEW s, s.started < now + 1, sessions' = Append(sessions, s), now' = now + 1, commits' = commits
      PROVE  Dated'
  <2>1. Len(sessions') = N + 1 /\ sessions'[N + 1] = s /\ \A i \in 1 .. N : sessions'[i] = sessions[i]
    BY <1>1, <1>2, <1>5
  <2>2. ASSUME NEW i \in 1 .. N + 1 PROVE sessions'[i].started < now'
    <3>1. CASE i \in 1 .. N
      BY <1>4, <1>5, <2>1, <3>1
    <3>2. CASE i = N + 1
      BY <1>5, <2>1, <3>2
    <3> QED
      BY <3>1, <3>2
  <2> QED
    BY <1>3, <1>5, <2>1, <2>2 DEF Dated
<1>6. CASE \E start \in Starts, turn \in Turns : Begin(start, turn)
  <2>1. PICK start \in Starts, turn \in Turns : Begin(start, turn)
    BY <1>6
  <2>2. PICK s : s = [adapter |-> start.adapter, cwd |-> start.cwd, named |-> start.named,
          id |-> Len(sessions) + 1, root |-> Len(sessions) + 1, started |-> now, updated |-> now,
          steps |-> <<Step(start, turn, <<>>)>>, subagents |-> 0, pr_links |-> 0, compactions |-> 0]
    OBVIOUS
  <2>3. s.started < now + 1
    BY <1>2, <2>2
  <2>4. sessions' = Append(sessions, s) /\ now' = now + 1 /\ commits' = commits
    BY <2>1, <2>2 DEF Begin, Later
  <2> QED
    BY <1>5, <2>3, <2>4
<1>7. CASE \E i \in DOMAIN sessions : \E k \in DOMAIN sessions[i].steps : Fork(i, k)
  <2>1. PICK i \in DOMAIN sessions : \E k \in DOMAIN sessions[i].steps : Fork(i, k)
    BY <1>7
  <2>2. PICK k \in DOMAIN sessions[i].steps : Fork(i, k)
    BY <2>1
  <2>3. PICK s : s = [sessions[i] EXCEPT !.id = Len(sessions) + 1, !.updated = now, !.steps = SubSeq(@, 1, k)]
    OBVIOUS
  <2>4. i \in 1 .. N
    BY <1>1, <1>2, <2>1
  <2>5. s.started = sessions[i].started
    <3>1. sessions[i] \in Fields
      BY <1>2, <2>4 DEF Session
    <3> QED
      BY <2>3, <3>1 DEF Fields
  <2>6. sessions' = Append(sessions, s) /\ now' = now + 1 /\ commits' = commits
    BY <2>2, <2>3 DEF Fork, Later
  <2> QED
    BY <1>4, <1>5, <2>4, <2>5, <2>6
<1>8. CASE \E i \in DOMAIN sessions, turn \in Turns : Resume(i, turn)
  <2>1. PICK i \in DOMAIN sessions, turn \in Turns : Resume(i, turn)
    BY <1>8
  <2>2. PICK s : s = [[sessions[i] EXCEPT !.updated = now]
                        EXCEPT !.steps = Append(@, Step(sessions[i], turn, @))]
    OBVIOUS
  <2>3. i \in 1 .. N /\ DOMAIN sessions = 1 .. N
    BY <1>1, <1>2, <2>1
  <2>4. s.started = sessions[i].started
    <3>1. sessions[i] \in Fields
      BY <1>2, <2>3 DEF Session
    <3> QED
      BY <2>2, <3>1 DEF Fields
  <2>5. now' = now + 1 /\ commits' = commits
    BY <2>1 DEF Resume, Later
  <2>6. Len(sessions') = N /\ \A j \in 1 .. N : sessions'[j].started = sessions[j].started
    <3>1. sessions' = [sessions EXCEPT ![i].updated = now,
                         ![i].steps = Append(@, Step(sessions[i], turn, @))]
      BY <2>1 DEF Resume
    <3>2. sessions' = [sessions EXCEPT ![i] = s]
      BY <2>2, <2>3, <3>1
    <3>3. sessions'[i] = s /\ DOMAIN sessions' = 1 .. N /\ \A j \in 1 .. N : j # i => sessions'[j] = sessions[j]
      BY <2>3, <3>2
    <3>4. Len(sessions') = N
      BY <1>1, <1>2, <2>3, <3>2
    <3> QED
      BY <2>4, <3>3, <3>4
  <2> QED
    BY <1>3, <1>4, <2>5, <2>6 DEF Dated
<1>9. CASE \E offset \in Offsets : Commit(offset)
  <2>1. PICK offset \in Offsets : Commit(offset)
    BY <1>9
  <2>2. PICK c : c = [at |-> now, offset |-> offset]
    OBVIOUS
  <2>3. c \in [at : Nat, offset : Offsets]
    BY <1>2, <2>2
  <2>4. commits' = Append(commits, c) /\ sessions' = sessions /\ now' = now + 1
    BY <2>1, <2>2 DEF Commit, Later
  <2>5. commits' \in Seq([at : Nat, offset : Offsets])
    BY <1>3, <2>3, <2>4
  <2> QED
    BY <1>1, <1>4, <2>4, <2>5 DEF Dated
<1>10. CASE UNCHANGED vars
  BY <1>10 DEF vars, Dated
<1> QED
  BY <1>6, <1>7, <1>8, <1>9, <1>10 DEF Next

\* The samples of a repository.
Samples(scope, repo) ==
    LET selected == Selection(scope, {i \in DOMAIN scope : BelongsToRepo(scope[i].cwd, repo)})
        sorted == Descending(selected, LAMBDA s : -s.started)
    IN [k \in DOMAIN sorted |-> SteeringSample(sorted[k])]

Sample == {SteeringSample(s) : s \in Session}

\* When the sessions of a scope began, and what is measured of each.
Begun(scope) == [i \in 1 .. Len(scope) |-> scope[i].started]
Sampled(scope) == [i \in 1 .. Len(scope) |-> SteeringSample(scope[i])]

Belongs(scope, repo) == {i \in External(scope) : BelongsToRepo(scope[i].cwd, repo)}

\* The samples are a line of the sessions of the repository, the earliest first.
LEMMA SamplesAre ==
    ASSUME NEW scope \in Seq(Session), NEW repo, NEW samples, samples = Samples(Included(scope), repo)
    PROVE  /\ samples \in Seq(Sample)
           /\ \E r : IsLine(r, samples, Sampled(scope), Belongs(scope, repo)) /\ Ascends(r, Len(samples), Begun(scope))
<1>1. PICK N \in Nat : N = Len(scope)
  OBVIOUS
<1>2. PICK id : id = [j \in 1 .. N |-> j]
  OBVIOUS
<1>3. PICK ext : ext = External(scope)
  OBVIOUS
<1>4. ext \subseteq 1 .. N
  BY <1>1, <1>3 DEF External
<1>5. IsLine(id, scope, scope, 1 .. N)
  BY <1>1, <1>2 DEF IsLine
<1>6. PICK others : others = Selection(scope, ext) /\ others = Included(scope)
  BY <1>3, IncludedIs
<1>7. Chosen(ext, id, Len(scope), ext)
  BY <1>1, <1>2, <1>4 DEF Chosen
<1>8. others \in Seq(Session) /\ \E q : IsLine(q, others, scope, ext) /\ LeadsAs(q, Len(others), id, Len(scope))
  BY <1>5, <1>6, <1>7, LineSelected
<1>9. PICK q : IsLine(q, others, scope, ext)
  BY <1>8
<1>10. PICK places : places = {i \in DOMAIN others : BelongsToRepo(others[i].cwd, repo)}
  OBVIOUS
<1>11. PICK selected : selected = Selection(others, places)
  OBVIOUS
<1>12. PICK A : A = Belongs(scope, repo)
  OBVIOUS
<1>13. \A i : i \in A <=> i \in ext /\ BelongsToRepo(scope[i].cwd, repo)
  BY <1>3, <1>12 DEF Belongs
<1>14. Chosen(A, q, Len(others), places)
  <2>1. DOMAIN others = 1 .. Len(others)
    BY <1>8
  <2>2. /\ \A j \in 1 .. Len(others) : q[j] \in ext /\ others[j] = scope[q[j]]
        /\ \A i \in ext : \E j \in 1 .. Len(others) : q[j] = i
    BY <1>9 DEF IsLine
  <2>3. \A j : j \in places <=> j \in 1 .. Len(others) /\ BelongsToRepo(others[j].cwd, repo)
    BY <1>10, <2>1
  <2>4. ASSUME NEW i \in A PROVE \E j \in 1 .. Len(others) : j \in places /\ q[j] = i
    <3>1. i \in ext /\ BelongsToRepo(scope[i].cwd, repo)
      BY <1>13
    <3>2. PICK j \in 1 .. Len(others) : q[j] = i
      BY <2>2, <3>1
    <3>3. BelongsToRepo(others[j].cwd, repo)
      BY <2>2, <3>1, <3>2
    <3> QED
      BY <2>3, <3>2, <3>3
  <2>5. ASSUME NEW i, NEW j \in 1 .. Len(others), j \in places, q[j] = i PROVE i \in A
    <3>1. q[j] \in ext /\ others[j] = scope[q[j]] /\ BelongsToRepo(others[j].cwd, repo)
      BY <2>2, <2>3, <2>5
    <3> QED
      BY <1>13, <2>5, <3>1
  <2> QED
    BY <2>4, <2>5 DEF Chosen
<1>15. selected \in Seq(Session) /\ \E r : IsLine(r, selected, scope, A) /\ LeadsAs(r, Len(selected), q, Len(others))
  BY <1>8, <1>9, <1>11, <1>14, LineSelected
<1>16. PICK r : IsLine(r, selected, scope, A)
  BY <1>15
<1>17. PICK M \in Nat : M = Len(selected) /\ DOMAIN selected = 1 .. M
  BY <1>15
<1>18. PICK values, d : values = Sampled(scope) /\ d = Begun(scope)
  OBVIOUS
<1>19. \A i \in 1 .. N : values[i] = SteeringSample(scope[i]) /\ d[i] = scope[i].started
  BY <1>1, <1>18 DEF Sampled, Begun
<1>20. A \subseteq 1 .. N
  BY <1>4, <1>13
<1>21. \A i \in A : d[i] \in Int
  <2> SUFFICES ASSUME NEW i \in A PROVE d[i] \in Int
    OBVIOUS
  <2>1. PICK s \in Session : s = scope[i]
    BY <1>1, <1>20
  <2>2. s.started \in Nat
    BY SessionFields
  <2> QED
    BY <1>19, <1>20, <2>1, <2>2
<1>22. PICK keys : keys = [i \in DOMAIN selected |-> -selected[i].started]
  OBVIOUS
<1>23. DOMAIN keys = 1 .. Len(selected) /\ \A j \in 1 .. Len(selected) : keys[j] = -d[r[j]]
  <2>1. ASSUME NEW j \in 1 .. M PROVE keys[j] = -d[r[j]]
    <3>1. r[j] \in A /\ selected[j] = scope[r[j]]
      BY <1>16, <1>17 DEF IsLine
    <3>2. PICK i \in A : i = r[j] /\ selected[j] = scope[i]
      BY <3>1
    <3>3. d[i] = scope[i].started
      BY <1>19, <1>20
    <3> QED
      BY <1>17, <1>22, <3>2, <3>3
  <2> QED
    BY <1>17, <1>22, <2>1
<1>24. PICK sorted : sorted = Ordered(selected, keys)
  OBVIOUS
<1>25. sorted \in Seq(Session) /\ \E w : IsLine(w, sorted, scope, A) /\ Ascends(w, Len(sorted), d)
  BY <1>15, <1>16, <1>21, <1>23, <1>24, LineOrdered
<1>26. PICK w : IsLine(w, sorted, scope, A) /\ Ascends(w, Len(sorted), d)
  BY <1>25
<1>27. samples = [k \in DOMAIN sorted |-> SteeringSample(sorted[k])]
  BY <1>6, <1>10, <1>11, <1>22, <1>24, Zenon DEF Samples, Descending
<1>28. PICK L \in Nat : L = Len(sorted) /\ DOMAIN sorted = 1 .. L
  BY <1>25
<1>29. samples \in Seq(Sample) /\ Len(samples) = L /\ \A j \in 1 .. L : samples[j] = SteeringSample(sorted[j])
  <2>1. \A j \in 1 .. L : sorted[j] \in Session
    BY <1>25, <1>28
  <2>2. \A j \in 1 .. L : SteeringSample(sorted[j]) \in Sample
    BY <2>1 DEF Sample
  <2> QED
    BY <1>27, <1>28, <2>2
<1>30. /\ \A j \in 1 .. L : w[j] \in A /\ sorted[j] = scope[w[j]]
       /\ \A i \in A : \E j \in 1 .. L : w[j] = i
       /\ \A j, k \in 1 .. L : w[j] = w[k] => j = k
  BY <1>26, <1>28 DEF IsLine
<1>31. \A j \in 1 .. L : w[j] \in A /\ samples[j] = values[w[j]]
  <2> SUFFICES ASSUME NEW j \in 1 .. L PROVE w[j] \in A /\ samples[j] = values[w[j]]
    OBVIOUS
  <2>1. PICK i \in A : i = w[j]
    BY <1>30
  <2>2. samples[j] = SteeringSample(scope[i])
    BY <1>29, <1>30, <2>1
  <2> QED
    BY <1>19, <1>20, <2>1, <2>2
<1>32. IsLine(w, samples, values, A) /\ Ascends(w, Len(samples), d)
  BY <1>26, <1>28, <1>29, <1>30, <1>31 DEF IsLine
<1> QED
  BY <1>12, <1>18, <1>29, <1>32

\* How far the sessions of a scope began from a time.
Distances(scope, c) ==
    [i \in 1 .. Len(scope) |-> IF scope[i].started < c THEN c - scope[i].started ELSE scope[i].started - c]

Timed(scope, samples, r, A) ==
    /\ \A j \in 1 .. Len(samples) : r[j] \in A /\ samples[j].started = scope[r[j]].started
    /\ \A i \in A : scope[i].started \in Nat /\ Begun(scope)[i] = scope[i].started
    /\ \A i \in A : \E j \in 1 .. Len(samples) : r[j] = i

\* What a line of samples says of the times of its sessions.
LEMMA LineTimes ==
    ASSUME NEW scope \in Seq(Session), NEW A, A \subseteq 1 .. Len(scope),
           NEW samples, NEW r, IsLine(r, samples, Sampled(scope), A)
    PROVE  Timed(scope, samples, r, A)
<1>1. PICK values : values = Sampled(scope)
  OBVIOUS
<1>2. /\ \A j \in 1 .. Len(samples) : r[j] \in A /\ samples[j] = values[r[j]]
      /\ \A i \in A : \E j \in 1 .. Len(samples) : r[j] = i
  BY <1>1 DEF IsLine
<1>3. ASSUME NEW i \in A
      PROVE  /\ scope[i].started \in Nat /\ Begun(scope)[i] = scope[i].started
             /\ values[i].started = scope[i].started
  <2>1. PICK s \in Session : s = scope[i]
    OBVIOUS
  <2>2. PICK x : x = SteeringSample(s)
    OBVIOUS
  <2>3. x.started = s.started /\ x.started \in Nat
    BY <2>2, SampleIs
  <2>4. values[i] = x
    BY <1>1, <2>1, <2>2 DEF Sampled
  <2>5. Begun(scope)[i] = s.started
    BY <2>1 DEF Begun
  <2> QED
    BY <2>1, <2>3, <2>4, <2>5
<1>4. ASSUME NEW j \in 1 .. Len(samples)
      PROVE  r[j] \in A /\ samples[j].started = scope[r[j]].started
  <2>1. PICK i \in A : i = r[j]
    BY <1>2
  <2>2. samples[j] = values[i]
    BY <1>2, <2>1
  <2> QED
    BY <1>3, <2>1, <2>2
<1> QED
  BY <1>2, <1>3, <1>4 DEF Timed

\* The window before a commit has the nearest sessions that began before it.
LEMMA BeforeNearest ==
    ASSUME NEW scope \in Seq(Session), NEW A, A \subseteq 1 .. Len(scope),
           NEW samples \in Seq(Sample), NEW r, IsLine(r, samples, Sampled(scope), A),
           Ascends(r, Len(samples), Begun(scope)), NEW c \in Nat, NEW size \in Nat,
           NEW window, window = Taken(Reverse(Selection(samples, {k \in DOMAIN samples : samples[k].started < c})), size),
           NEW B, B = {i \in A : scope[i].started < c}
    PROVE  \E near \in Nearest(size, B, Distances(scope, c)) : Measures(window, scope, near)
<1>1. PICK values, d, e : values = Sampled(scope) /\ d = Begun(scope) /\ e = Distances(scope, c)
  OBVIOUS
<1>2. PICK places : places = {k \in DOMAIN samples : samples[k].started < c}
  OBVIOUS
<1>3. PICK sel : sel = Selection(samples, places)
  OBVIOUS
<1>4. PICK rev : rev = Reverse(sel)
  OBVIOUS
<1>5. window = Taken(rev, size)
  BY <1>2, <1>3, <1>4
<1>6. /\ \A j \in 1 .. Len(samples) : r[j] \in A /\ samples[j].started = scope[r[j]].started
      /\ \A i \in A : scope[i].started \in Nat /\ d[i] = scope[i].started
      /\ \A i \in A : \E j \in 1 .. Len(samples) : r[j] = i
  <2>1. Timed(scope, samples, r, A)
    BY LineTimes
  <2> QED
    BY <1>1, <2>1 DEF Timed
<1>7. Chosen(B, r, Len(samples), places)
  <2>1. \A j : j \in places <=> j \in 1 .. Len(samples) /\ samples[j].started < c
    BY <1>2
  <2>2. ASSUME NEW i \in B PROVE \E j \in 1 .. Len(samples) : j \in places /\ r[j] = i
    <3>1. PICK j \in 1 .. Len(samples) : r[j] = i
      BY <1>6
    <3>2. samples[j].started = scope[i].started
      BY <1>6, <3>1
    <3> QED
      BY <2>1, <3>1, <3>2
  <2>3. ASSUME NEW i, NEW j \in 1 .. Len(samples), j \in places, r[j] = i PROVE i \in B
    <3>1. r[j] \in A /\ samples[j].started = scope[r[j]].started /\ samples[j].started < c
      BY <1>6, <2>1, <2>3
    <3> QED
      BY <2>3, <3>1
  <2> QED
    BY <2>2, <2>3 DEF Chosen
<1>8. IsLine(r, samples, values, A) /\ Ascends(r, Len(samples), d)
  BY <1>1
<1>9. sel \in Seq(Sample) /\ \E q : IsLine(q, sel, values, B) /\ LeadsAs(q, Len(sel), r, Len(samples))
  BY <1>3, <1>7, <1>8, LineSelected
<1>10. PICK q : IsLine(q, sel, values, B) /\ LeadsAs(q, Len(sel), r, Len(samples))
  BY <1>9
<1>11. Ascends(q, Len(sel), d)
  BY <1>8, <1>10 DEF LeadsAs
<1>12. \A i \in B : scope[i].started \in Nat /\ d[i] = scope[i].started /\ e[i] = c - scope[i].started
  BY <1>1, <1>6 DEF Distances
<1>13. \A i, j \in B : d[i] <= d[j] => e[j] <= e[i]
  <2> SUFFICES ASSUME NEW i \in B, NEW j \in B, d[i] <= d[j] PROVE e[j] <= e[i]
    OBVIOUS
  <2>1. PICK x \in Nat, y \in Nat : x = scope[i].started /\ y = scope[j].started
    BY <1>12
  <2> QED
    BY <1>12, <2>1
<1>14. rev \in Seq(Sample) /\ \E p : IsLine(p, rev, values, B) /\ Ascends(p, Len(rev), e)
  BY <1>4, <1>9, <1>10, <1>11, <1>13, LineReversed
<1>15. PICK p : IsLine(p, rev, values, B) /\ Ascends(p, Len(rev), e)
  BY <1>14
<1>16. \A i \in 1 .. Len(scope) : values[i] = SteeringSample(scope[i])
  BY <1>1 DEF Sampled
<1>17. B \subseteq 1 .. Len(scope)
  OBVIOUS
<1>18. \E near \in Nearest(size, B, e) : Measures(window, scope, near)
  BY <1>5, <1>14, <1>15, <1>16, <1>17, TakenNearest
<1> QED
  BY <1>1, <1>18

\* And the window after it the nearest of the others.
LEMMA AfterNearest ==
    ASSUME NEW scope \in Seq(Session), NEW A, A \subseteq 1 .. Len(scope),
           NEW samples \in Seq(Sample), NEW r, IsLine(r, samples, Sampled(scope), A),
           Ascends(r, Len(samples), Begun(scope)), NEW c \in Nat, NEW size \in Nat,
           NEW window, window = Taken(Selection(samples, {k \in DOMAIN samples : samples[k].started >= c}), size),
           NEW B, B = {i \in A : scope[i].started >= c}
    PROVE  \E near \in Nearest(size, B, Distances(scope, c)) : Measures(window, scope, near)
<1>1. PICK values, d, e : values = Sampled(scope) /\ d = Begun(scope) /\ e = Distances(scope, c)
  OBVIOUS
<1>2. PICK places : places = {k \in DOMAIN samples : samples[k].started >= c}
  OBVIOUS
<1>3. PICK sel : sel = Selection(samples, places)
  OBVIOUS
<1>5. window = Taken(sel, size)
  BY <1>2, <1>3
<1>6. /\ \A j \in 1 .. Len(samples) : r[j] \in A /\ samples[j].started = scope[r[j]].started
      /\ \A i \in A : scope[i].started \in Nat /\ d[i] = scope[i].started
      /\ \A i \in A : \E j \in 1 .. Len(samples) : r[j] = i
  <2>1. Timed(scope, samples, r, A)
    BY LineTimes
  <2> QED
    BY <1>1, <2>1 DEF Timed
<1>7. Chosen(B, r, Len(samples), places)
  <2>1. \A j : j \in places <=> j \in 1 .. Len(samples) /\ samples[j].started >= c
    BY <1>2
  <2>2. ASSUME NEW i \in B PROVE \E j \in 1 .. Len(samples) : j \in places /\ r[j] = i
    <3>1. PICK j \in 1 .. Len(samples) : r[j] = i
      BY <1>6
    <3>2. samples[j].started = scope[i].started
      BY <1>6, <3>1
    <3> QED
      BY <2>1, <3>1, <3>2
  <2>3. ASSUME NEW i, NEW j \in 1 .. Len(samples), j \in places, r[j] = i PROVE i \in B
    <3>1. r[j] \in A /\ samples[j].started = scope[r[j]].started /\ samples[j].started >= c
      BY <1>6, <2>1, <2>3
    <3> QED
      BY <2>3, <3>1
  <2> QED
    BY <2>2, <2>3 DEF Chosen
<1>8. IsLine(r, samples, values, A) /\ Ascends(r, Len(samples), d)
  BY <1>1
<1>9. sel \in Seq(Sample) /\ \E q : IsLine(q, sel, values, B) /\ LeadsAs(q, Len(sel), r, Len(samples))
  BY <1>3, <1>7, <1>8, LineSelected
<1>10. PICK q : IsLine(q, sel, values, B) /\ LeadsAs(q, Len(sel), r, Len(samples))
  BY <1>9
<1>11. Ascends(q, Len(sel), d)
  BY <1>8, <1>10 DEF LeadsAs
<1>12. \A i \in B : scope[i].started \in Nat /\ d[i] = scope[i].started /\ e[i] = scope[i].started - c
  BY <1>1, <1>6 DEF Distances
<1>13. Ascends(q, Len(sel), e)
  <2> SUFFICES ASSUME NEW j \in 1 .. Len(sel), NEW k \in 1 .. Len(sel), j < k PROVE e[q[j]] <= e[q[k]]
    BY DEF Ascends
  <2>1. d[q[j]] <= d[q[k]]
    BY <1>11 DEF Ascends
  <2>2. PICK a \in B, b \in B : a = q[j] /\ b = q[k]
    BY <1>10 DEF IsLine
  <2>3. PICK x \in Nat, y \in Nat : x = scope[a].started /\ y = scope[b].started
    BY <1>12
  <2>4. d[a] = x /\ d[b] = y /\ e[a] = x - c /\ e[b] = y - c
    BY <1>12, <2>3
  <2>5. x <= y
    BY <2>1, <2>2, <2>4
  <2> QED
    BY <2>2, <2>4, <2>5
<1>16. \A i \in 1 .. Len(scope) : values[i] = SteeringSample(scope[i])
  BY <1>1 DEF Sampled
<1>17. B \subseteq 1 .. Len(scope)
  OBVIOUS
<1>18. \E near \in Nearest(size, B, e) : Measures(window, scope, near)
  BY <1>5, <1>9, <1>10, <1>13, <1>16, <1>17, TakenNearest
<1> QED
  BY <1>1, <1>18

\* The changes of the instructions by a committer in UTC have the times of their commits.
Changes == {x \in [commit : DOMAIN commits, date : Nat] : x.date = commits[x.commit].at}

\* They are those that the report goes through.
LEMMA ChangesAre ==
    ASSUME Dated, Offsets = {0}
    PROVE  InstructionChanges(commits) \in Seq(Changes)
<1>1. PICK N \in Nat : N = Len(commits) /\ DOMAIN commits = 1 .. N
  BY DEF Dated
<1>2. \A i \in 1 .. N : commits[i].at \in Nat /\ commits[i].offset = 0
  <2>1. PICK S : S = [at : Nat, offset : Offsets]
    OBVIOUS
  <2>2. commits \in Seq(S)
    BY <2>1 DEF Dated
  <2>3. \A i \in 1 .. N : commits[i] \in S
    BY <1>1, <2>2
  <2> QED
    BY <2>1, <2>3
<1>3. PICK list : list = [i \in DOMAIN commits |-> [commit |-> i, date |-> commits[i].at + commits[i].offset]]
  OBVIOUS
<1>4. \A i \in 1 .. N : list[i] \in Changes /\ list[i].date \in Nat
  <2> SUFFICES ASSUME NEW i \in 1 .. N PROVE list[i] \in Changes /\ list[i].date \in Nat
    OBVIOUS
  <2>1. PICK t \in Nat : t = commits[i].at /\ commits[i].at + commits[i].offset = t
    BY <1>2
  <2>2. list[i] = [commit |-> i, date |-> t]
    BY <1>1, <1>3, <2>1
  <2> QED
    BY <1>1, <2>1, <2>2 DEF Changes
<1>5. list \in Seq(Changes) /\ Len(list) = N /\ DOMAIN list = 1 .. N
  BY <1>1, <1>3, <1>4
<1>6. PICK keys : keys = [i \in DOMAIN list |-> -list[i].date]
  OBVIOUS
<1>7. DOMAIN keys = 1 .. Len(list) /\ \A i \in 1 .. Len(list) : keys[i] \in Int
  BY <1>4, <1>5, <1>6
<1>8. PICK sorted : sorted = Ordered(list, keys)
  OBVIOUS
<1>9. sorted \in Seq(Changes)
  BY <1>5, <1>7, <1>8, OrderedPlaces
<1>10. InstructionChanges(commits) = sorted
  BY <1>3, <1>6, <1>8, Zenon DEF InstructionChanges, Descending
<1> QED
  BY <1>9, <1>10

\* What the property says of one entry of a report.
EntryNearest(scope, repo, size, entry, c) ==
    /\ \E near \in Nearest(size, {i \in Belongs(scope, repo) : scope[i].started < c}, Distances(scope, c)) :
         Measures(entry.before, scope, near)
    /\ \E near \in Nearest(size, {i \in Belongs(scope, repo) : scope[i].started >= c}, Distances(scope, c)) :
         Measures(entry.after, scope, near)

\* It holds of each.
LEMMA EntriesNearest ==
    ASSUME Dated, Offsets = {0}, NEW scope \in Seq(Session), NEW repo, NEW size \in Nat,
           NEW report, report = BuildEfficacyReport(repo, scope, commits, size), NEW n \in DOMAIN report
    PROVE  /\ commits[report[n].commit].at \in Nat
           /\ EntryNearest(scope, repo, size, report[n], commits[report[n].commit].at)
<1>1. PICK others : others = Included(scope)
  OBVIOUS
<1>2. PICK samples : samples = Samples(others, repo)
  OBVIOUS
<1>3. PICK changes : changes = InstructionChanges(commits)
  OBVIOUS
<1>4. report = [i \in DOMAIN changes |->
          [commit |-> changes[i].commit,
           before |-> Taken(Reverse(Selection(samples, {k \in DOMAIN samples : samples[k].started < changes[i].date})), size),
           after |-> Taken(Selection(samples, {k \in DOMAIN samples : samples[k].started >= changes[i].date}), size)]]
  <2>1. report = EfficacyOf(repo, others, commits, size)
    BY <1>1, Zenon DEF BuildEfficacyReport
  <2>2. EfficacyOf(repo, others, commits, size) =
          [i \in DOMAIN InstructionChanges(commits) |->
             [commit |-> InstructionChanges(commits)[i].commit,
              before |-> Taken(Reverse(Selection(Samples(others, repo),
                {k \in DOMAIN Samples(others, repo) :
                   Samples(others, repo)[k].started < InstructionChanges(commits)[i].date})), size),
              after |-> Taken(Selection(Samples(others, repo),
                {k \in DOMAIN Samples(others, repo) :
                   Samples(others, repo)[k].started >= InstructionChanges(commits)[i].date}), size)]]
    BY Zenon DEF EfficacyOf, Samples
  <2> QED
    BY <1>2, <1>3, <2>1, <2>2
<1>5. changes \in Seq(Changes)
  BY <1>3, ChangesAre
<1>6. n \in DOMAIN changes
  BY <1>4
<1>7. PICK change \in Changes : change = changes[n]
  BY <1>5, <1>6
<1>8. PICK c \in Nat : c = change.date /\ c = commits[change.commit].at
  BY DEF Changes
<1>9. PICK entry : entry = report[n]
  OBVIOUS
<1>10. /\ entry.commit = change.commit
       /\ entry.before = Taken(Reverse(Selection(samples, {k \in DOMAIN samples : samples[k].started < c})), size)
       /\ entry.after = Taken(Selection(samples, {k \in DOMAIN samples : samples[k].started >= c}), size)
  <2>1. entry = [commit |-> changes[n].commit,
           before |-> Taken(Reverse(Selection(samples, {k \in DOMAIN samples : samples[k].started < changes[n].date})), size),
           after |-> Taken(Selection(samples, {k \in DOMAIN samples : samples[k].started >= changes[n].date}), size)]
    BY <1>4, <1>6, <1>9, Zenon
  <2>2. changes[n].date = c /\ changes[n].commit = change.commit
    BY <1>7, <1>8
  <2>3. /\ entry.commit = changes[n].commit
        /\ entry.before = Taken(Reverse(Selection(samples, {k \in DOMAIN samples : samples[k].started < changes[n].date})), size)
        /\ entry.after = Taken(Selection(samples, {k \in DOMAIN samples : samples[k].started >= changes[n].date}), size)
    BY <2>1, Zenon
  <2> QED
    BY <2>2, <2>3
<1>11. PICK A : A = Belongs(scope, repo)
  OBVIOUS
<1>12. /\ samples \in Seq(Sample)
       /\ \E r : IsLine(r, samples, Sampled(scope), A) /\ Ascends(r, Len(samples), Begun(scope))
  BY <1>1, <1>2, <1>11, SamplesAre
<1>13. PICK r : IsLine(r, samples, Sampled(scope), A) /\ Ascends(r, Len(samples), Begun(scope))
  BY <1>12
<1>14. A \subseteq 1 .. Len(scope)
  BY <1>11 DEF Belongs, External
<1>15. PICK before, after : before = entry.before /\ after = entry.after
  OBVIOUS
<1>16. PICK B, C : B = {i \in A : scope[i].started < c} /\ C = {i \in A : scope[i].started >= c}
  OBVIOUS
<1>17. \E near \in Nearest(size, B, Distances(scope, c)) : Measures(before, scope, near)
  <2>1. before = Taken(Reverse(Selection(samples, {k \in DOMAIN samples : samples[k].started < c})), size)
    BY <1>10, <1>15
  <2> QED
    BY <1>12, <1>13, <1>14, <1>16, <2>1, BeforeNearest
<1>18. \E near \in Nearest(size, C, Distances(scope, c)) : Measures(after, scope, near)
  <2>1. after = Taken(Selection(samples, {k \in DOMAIN samples : samples[k].started >= c}), size)
    BY <1>10, <1>15
  <2> QED
    BY <1>12, <1>13, <1>14, <1>16, <2>1, AfterNearest
<1>19. EntryNearest(scope, repo, size, entry, c)
  BY <1>11, <1>15, <1>16, <1>17, <1>18 DEF EntryNearest
<1> QED
  BY <1>8, <1>9, <1>10, <1>19

\* The windows of a report are those of the nearest sessions.
LEMMA AllNearest ==
    ASSUME History, Dated, Offsets = {0}
    PROVE  WindowsNearest
<1>1. ASSUME NEW scope \in Scopes, NEW size \in 1 .. 2, NEW repo \in Repos
      PROVE  LET report == BuildEfficacyReport(repo, scope, commits, size)
                 In(k) == {i \in External(scope) : BelongsToRepo(scope[i].cwd, repo) /\ scope[i].started <= k}
                 Distance(i, c) == IF scope[i].started < c THEN c - scope[i].started ELSE scope[i].started - c
                 Nearer(all, c) == {near \in SUBSET all :
                   /\ Cardinality(near) = Min({size, Cardinality(all)})
                   /\ \A i \in near, j \in all \ near : Distance(i, c) <= Distance(j, c)}
                 Measured(window, near) ==
                   /\ window.sessions = Cardinality(near)
                   /\ window.prompts = SumOf([i \in near |-> Len(Signals(scope[i]))])
                   /\ window.interruption_rate[1] = SumOf([i \in near |-> Interruptions(scope[i])])
             IN \A n \in DOMAIN report :
                  LET row == report[n]
                      c == commits[row.commit].at
                      before == In(c - 1)
                      after == In(now) \ In(c - 1)
                  IN /\ \E near \in Nearer(before, c) : Measured(row.before, near)
                     /\ \E near \in Nearer(after, c) : Measured(row.after, near)
  <2> DEFINE In(k) == {i \in External(scope) : BelongsToRepo(scope[i].cwd, repo) /\ scope[i].started <= k}
             Distance(i, c) == IF scope[i].started < c THEN c - scope[i].started ELSE scope[i].started - c
             Nearer(all, c) == {near \in SUBSET all :
               /\ Cardinality(near) = Min({size, Cardinality(all)})
               /\ \A i \in near, j \in all \ near : Distance(i, c) <= Distance(j, c)}
             Measured(window, near) ==
               /\ window.sessions = Cardinality(near)
               /\ window.prompts = SumOf([i \in near |-> Len(Signals(scope[i]))])
               /\ window.interruption_rate[1] = SumOf([i \in near |-> Interruptions(scope[i])])
  <2> DEFINE made == BuildEfficacyReport(repo, scope, commits, size)
  <2>1. PICK report : report = made
    OBVIOUS
  <2>2. FromHistory(scope)
    BY ScopeFrom
  <2>3. scope \in Seq(Session) /\ \A i \in 1 .. Len(scope) : \E a \in 1 .. Len(sessions) : scope[i] = sessions[a]
    BY <2>2 DEF FromHistory
  <2>4. now \in Nat
    BY DEF History, HistoryOf
  <2>5. \A i \in 1 .. Len(scope) : scope[i].started \in Nat /\ scope[i].started < now
    <3> SUFFICES ASSUME NEW i \in 1 .. Len(scope) PROVE scope[i].started \in Nat /\ scope[i].started < now
      OBVIOUS
    <3>1. PICK s \in Session : s = scope[i]
      BY <2>3
    <3>2. s.started \in Nat
      BY SessionFields
    <3>3. scope[i].started < now
      BY <2>3 DEF Dated
    <3> QED
      BY <3>1, <3>2, <3>3
  <2>6. ASSUME NEW n \in DOMAIN report, NEW c, c = commits[report[n].commit].at
        PROVE  /\ \E near \in Nearer(In(c - 1), c) : Measured(report[n].before, near)
               /\ \E near \in Nearer(In(now) \ In(c - 1), c) : Measured(report[n].after, near)
    <3>1. size \in Nat
      OBVIOUS
    <3>2. c \in Nat /\ EntryNearest(scope, repo, size, report[n], c)
      BY <2>1, <2>3, <2>6, <3>1, EntriesNearest
    <3>3. PICK B, C : /\ B = {i \in Belongs(scope, repo) : scope[i].started < c}
                      /\ C = {i \in Belongs(scope, repo) : scope[i].started >= c}
      OBVIOUS
    <3>4. PICK e : e = Distances(scope, c)
      OBVIOUS
    <3>5. /\ \E near \in Nearest(size, B, e) : Measures(report[n].before, scope, near)
          /\ \E near \in Nearest(size, C, e) : Measures(report[n].after, scope, near)
      BY <3>2, <3>3, <3>4 DEF EntryNearest
    <3>6. B \subseteq 1 .. Len(scope) /\ C \subseteq 1 .. Len(scope)
      BY <2>3, <3>3 DEF Belongs, External
    <3>7. In(c - 1) = B
      <4>1. ASSUME NEW i PROVE i \in In(c - 1) <=> i \in B
        <5>1. i \in In(c - 1) <=> i \in Belongs(scope, repo) /\ scope[i].started <= c - 1
          BY DEF Belongs
        <5>2. i \in Belongs(scope, repo) => i \in 1 .. Len(scope)
          BY <2>3 DEF Belongs, External
        <5>3. i \in 1 .. Len(scope) => (scope[i].started <= c - 1 <=> scope[i].started < c)
          BY <2>5, <3>2
        <5> QED
          BY <3>3, <5>1, <5>2, <5>3
      <4> HIDE DEF In
      <4> QED
        BY <4>1
    <3>8. In(now) \ In(c - 1) = C
      <4>1. ASSUME NEW i PROVE i \in In(now) \ In(c - 1) <=> i \in C
        <5>1. i \in In(now) <=> i \in Belongs(scope, repo) /\ scope[i].started <= now
          BY DEF Belongs
        <5>2. i \in Belongs(scope, repo) => i \in 1 .. Len(scope)
          BY <2>3 DEF Belongs, External
        <5>3. i \in 1 .. Len(scope) => scope[i].started <= now /\ (scope[i].started >= c <=> ~(scope[i].started < c))
          BY <2>4, <2>5, <3>2
        <5> HIDE DEF In
        <5> QED
          BY <3>3, <3>7, <5>1, <5>2, <5>3
      <4> HIDE DEF In
      <4> QED
        BY <4>1
    <3>9. \A i \in 1 .. Len(scope) : e[i] = Distance(i, c)
      BY <3>4 DEF Distances
    <3> HIDE DEF Distance
    <3>10. \A all : all \subseteq 1 .. Len(scope) => Nearest(size, all, e) \subseteq Nearer(all, c)
      <4> SUFFICES ASSUME NEW all, all \subseteq 1 .. Len(scope), NEW near \in Nearest(size, all, e)
                   PROVE  near \in Nearer(all, c)
        OBVIOUS
      <4>1. /\ near \in SUBSET all /\ Cardinality(near) = Min({size, Cardinality(all)})
            /\ \A i \in near, j \in all \ near : e[i] <= e[j]
        BY DEF Nearest
      <4>2. \A i \in near, j \in all \ near : Distance(i, c) <= Distance(j, c)
        BY <3>9, <4>1
      <4> QED
        BY <4>1, <4>2
    <3>11. \A window, near : Measures(window, scope, near) => Measured(window, near)
      BY Zenon DEF Measures
    <3> HIDE DEF Nearer, Measured, In
    <3>12. \E near \in Nearer(In(c - 1), c) : Measured(report[n].before, near)
      BY <3>5, <3>6, <3>7, <3>10, <3>11
    <3>13. \E near \in Nearer(In(now) \ In(c - 1), c) : Measured(report[n].after, near)
      BY <3>5, <3>6, <3>8, <3>10, <3>11
    <3> QED
      BY <3>12, <3>13
  <2> HIDE DEF Nearer, Measured, In, Distance, made
  <2>7. \A n \in DOMAIN made :
          /\ \E near \in Nearer(In(commits[made[n].commit].at - 1), commits[made[n].commit].at) :
               Measured(made[n].before, near)
          /\ \E near \in Nearer(In(now) \ In(commits[made[n].commit].at - 1), commits[made[n].commit].at) :
               Measured(made[n].after, near)
    BY <2>1, <2>6, Zenon
  <2> QED
    BY <2>7, Zenon DEF Nearer, Measured, In, Distance, made
<1> QED
  BY <1>1, Zenon DEF WindowsNearest

\* The times of the sessions and of the commits are as said.
THEOREM DatesKept == Spec => []Dated
<1>1. History /\ Dated /\ [Next]_vars => Dated'
  BY NextDated
<1> QED
  BY <1>1, InitDated, HistoryKept, PTL DEF Spec

\* A commit is compared with the sessions of its repository, and of what is below
\* it, that are nearest to it, if committers are in UTC.
THEOREM NearestWindows == Offsets = {0} => (Spec => []WindowsNearest)
<1> SUFFICES ASSUME Offsets = {0} PROVE Spec => []WindowsNearest
  OBVIOUS
<1>1. History /\ Dated => WindowsNearest
  BY AllNearest
<1> QED
  BY <1>1, HistoryKept, DatesKept, PTL
=============================================================================
