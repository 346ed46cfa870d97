------------------------------ MODULE Iteration_proofs ------------------------------
(* Iteration over a sequence, for every sequence: the induction and the recursion  *)
(* that the components' proofs cite, and what filtering returns.                   *)
EXTENDS Iteration, WellFoundedInduction, NaturalsInduction, SequenceTheorems, TLAPS

\* Every nonempty set of numbers has a least member.
LEMMA HasLeast ==
  ASSUME NEW S \in SUBSET Nat, S # {}
  PROVE  \E k \in S : \A j \in S : k <= j
<1> DEFINE Less == OpToRel(<, Nat)
<1>1. \A j, k \in Nat : j < k => <<j, k>> \in Less
  BY DEF OpToRel
<1>2. IsWellFoundedOn(Less, Nat)
  BY NatLessThanWellFounded
<1> HIDE DEF Less
<1>3. PICK k \in S : \A j \in S : ~ (<<j, k>> \in Less)
  BY <1>2, WFMin
<1>4. ASSUME NEW j \in S PROVE k <= j
  <2>1. j \in Nat /\ k \in Nat
    OBVIOUS
  <2>2. ~ (j < k)
    BY <2>1, <1>1, <1>3, Zenon
  <2> QED BY <2>1, <2>2
<1> QED BY <1>4

\* Every nonempty set of numbers up to n has a greatest member.
LEMMA HasGreatest ==
  ASSUME NEW n \in Nat, NEW S \in SUBSET (1 .. n), S # {}
  PROVE  \E k \in S : \A j \in S : j <= k
<1> DEFINE T == {n - k : k \in S}
<1>a. \A k \in S : n - k \in Nat
  OBVIOUS
<1>1. T \in SUBSET Nat /\ T # {}
  BY <1>a
<1>2. PICK m \in T : \A j \in T : m <= j
  <2> HIDE DEF T
  <2> QED BY <1>1, HasLeast
<1>3. PICK k \in S : m = n - k
  OBVIOUS
<1>4. ASSUME NEW j \in S PROVE j <= k
  <2>1. n - j \in T /\ j \in Nat /\ k \in Nat
    OBVIOUS
  <2>2. n - k <= n - j
    BY <1>2, <1>3, <2>1
  <2> QED BY <2>1, <2>2
<1> QED BY <1>4

\* What holds at 0 and passes on from each number to the next holds up to N.
LEMMA UpTo ==
  ASSUME NEW N \in Nat, NEW P \in SUBSET (0 .. N), 0 \in P,
         \A n \in 1 .. N : n - 1 \in P => n \in P
  PROVE  P = 0 .. N
<1>1. SUFFICES ASSUME (0 .. N) \ P # {} PROVE FALSE
  OBVIOUS
<1>a. (0 .. N) \ P \in SUBSET Nat
  OBVIOUS
<1>2. PICK k \in (0 .. N) \ P : \A j \in (0 .. N) \ P : k <= j
  BY <1>1, <1>a, HasLeast
<1>3. k \in 1 .. N
  BY <1>2
<1>4. k - 1 \in P
  BY <1>2, <1>3
<1> QED BY <1>2, <1>3, <1>4

\* The first m values of an iteration.
Trace(T, first, step, m, f) ==
  /\ f \in [0 .. m -> T] /\ f[0] = first
  /\ \A n \in 1 .. m : f[n] = step[<<n, f[n - 1]>>]

\* A step that is taken N times has a trace.
LEMMA Iterated ==
  ASSUME NEW N \in Nat, NEW T, NEW first \in T, NEW step \in [(1 .. N) \X T -> T]
  PROVE  \E f : Trace(T, first, step, N, f)
<1> DEFINE P == {m \in 0 .. N : \E f : Trace(T, first, step, m, f)}
<1>1. 0 \in P
  <2> DEFINE f == [k \in 0 .. 0 |-> first]
  <2>1. Trace(T, first, step, 0, f)
    BY DEF Trace
  <2> HIDE DEF f
  <2> QED BY <2>1
<1>2. ASSUME NEW m \in 1 .. N, m - 1 \in P PROVE m \in P
  <2>1. PICK f : Trace(T, first, step, m - 1, f)
    BY <1>2
  <2> DEFINE g == [k \in 0 .. m |-> IF k = m THEN step[<<m, f[m - 1]>>] ELSE f[k]]
  <2>2. f[m - 1] \in T
    BY <2>1 DEF Trace
  <2>3. step[<<m, f[m - 1]>>] \in T
    BY <2>2
  <2>4. g \in [0 .. m -> T]
    BY <2>1, <2>3 DEF Trace
  <2>5. g[0] = first
    BY <2>1 DEF Trace
  <2>6. ASSUME NEW n \in 1 .. m PROVE g[n] = step[<<n, g[n - 1]>>]
    <3>1. g[n - 1] = f[n - 1]
      OBVIOUS
    <3>2. CASE n = m
      <4>1. g[n] = step[<<m, f[m - 1]>>]
        BY <3>2
      <4> HIDE DEF g
      <4> QED BY <4>1, <3>1, <3>2
    <3>3. CASE n # m
      <4>1. n \in 1 .. m - 1
        BY <3>3
      <4>2. g[n] = f[n]
        BY <4>1
      <4>3. f[n] = step[<<n, f[n - 1]>>]
        BY <2>1, <4>1 DEF Trace
      <4> HIDE DEF g
      <4> QED BY <3>1, <4>2, <4>3
    <3> QED BY <3>2, <3>3
  <2> HIDE DEF g
  <2>7. Trace(T, first, step, m, g)
    BY <2>4, <2>5, <2>6 DEF Trace
  <2> QED BY <2>7
<1>3. P = 0 .. N
  BY <1>1, <1>2, UpTo
<1>4. N \in 0 .. N
  OBVIOUS
<1> QED BY <1>3, <1>4

\* A step that only looks at the values of a function at smaller numbers.
LooksBack(N, T, step) ==
  \A i \in 1 .. N : \A g, h \in [1 .. N -> T] :
    (\A j \in 1 .. N : j < i => g[j] = h[j]) => step[<<i, g>>] = step[<<i, h>>]

GrowsBack(N, step, f) == \A i \in 1 .. N : f[i] = step[<<i, f>>]

\* A function whose value at a number depends on its values at smaller ones.
LEMMA Grown ==
  ASSUME NEW N \in Nat, NEW T, NEW first \in T, NEW step \in [(1 .. N) \X [1 .. N -> T] -> T],
         LooksBack(N, T, step)
  PROVE  \E f \in [1 .. N -> T] : GrowsBack(N, step, f)
<1> DEFINE S == [1 .. N -> T]
           start == [i \in 1 .. N |-> first]
           next == [x \in (1 .. N) \X S |-> [x[2] EXCEPT ![x[1]] = step[x]]]
<1>1. start \in S
  OBVIOUS
<1>2. next \in [(1 .. N) \X S -> S]
  <2>1. ASSUME NEW x \in (1 .. N) \X S PROVE [x[2] EXCEPT ![x[1]] = step[x]] \in S
    <3>1. step[x] \in T /\ x[2] \in S
      OBVIOUS
    <3> QED BY <3>1
  <2> QED BY <2>1
<1> HIDE DEF start
<1>3. ASSUME NEW k \in 1 .. N, NEW g \in S
      PROVE  next[<<k, g>>] = [g EXCEPT ![k] = step[<<k, g>>]]
  OBVIOUS
<1> HIDE DEF next, S
<1>4. PICK run : Trace(S, start, next, N, run)
  BY <1>1, <1>2, Iterated
<1>5. run \in [0 .. N -> S] /\ \A k \in 1 .. N : run[k] = next[<<k, run[k - 1]>>]
  BY <1>4 DEF Trace
<1> DEFINE P == {k \in 0 .. N : \A i \in 1 .. N : i <= k => run[k][i] = step[<<i, run[k]>>]}
<1>6. 0 \in P
  OBVIOUS
<1>7. ASSUME NEW k \in 1 .. N, k - 1 \in P PROVE k \in P
  <2> DEFINE g == run[k - 1]
             h == run[k]
  <2>1. g \in S /\ h \in S /\ k - 1 \in 0 .. N
    BY <1>5
  <2>2. \A i \in 1 .. N : i <= k - 1 => g[i] = step[<<i, g>>]
    BY <1>7
  <2>3. h = [g EXCEPT ![k] = step[<<k, g>>]]
    BY <1>3, <1>5, <2>1
  <2> HIDE DEF g
  <2>4. h[k] = step[<<k, g>>] /\ \A i \in 1 .. N : i # k => h[i] = g[i]
    BY <2>1, <2>3 DEF S
  <2> HIDE DEF h
  <2>5. ASSUME NEW i \in 1 .. N, i <= k PROVE h[i] = step[<<i, h>>]
    <3>1. \A j \in 1 .. N : j < i => g[j] = h[j]
      BY <2>4, <2>5
    <3>2. step[<<i, g>>] = step[<<i, h>>]
      BY <2>1, <3>1 DEF S, LooksBack
    <3>3. CASE i = k
      BY <2>4, <3>2, <3>3
    <3>4. CASE i # k
      <4>1. i <= k - 1
        BY <2>5, <3>4
      <4>2. h[i] = g[i] /\ g[i] = step[<<i, g>>]
        BY <2>2, <2>4, <3>4, <4>1
      <4> QED BY <3>2, <4>2
    <3> QED BY <3>3, <3>4
  <2>6. \A i \in 1 .. N : i <= k => run[k][i] = step[<<i, run[k]>>]
    BY <2>5 DEF h
  <2>7. k \in 0 .. N
    OBVIOUS
  <2> QED BY <2>6, <2>7
<1>8. P = 0 .. N
  <2> HIDE DEF P
  <2>1. P \in SUBSET (0 .. N)
    BY DEF P
  <2> QED BY <1>6, <1>7, <2>1, UpTo
<1> HIDE DEF P
<1>9. N \in P
  BY <1>8
<1>10. \A i \in 1 .. N : i <= N => run[N][i] = step[<<i, run[N]>>]
  BY <1>9 DEF P
<1>11. N \in 0 .. N /\ \A i \in 1 .. N : i <= N
  OBVIOUS
<1>12. run[N] \in S
  BY <1>5, <1>11
<1> QED BY <1>10, <1>11, <1>12 DEF S, GrowsBack

\* What holds of a number if it holds of all smaller ones holds of all.
LEMMA FromBelow ==
  ASSUME NEW N \in Nat, NEW P,
         \A i \in 1 .. N : (\A j \in 1 .. N : j < i => j \in P) => i \in P
  PROVE  \A i \in 1 .. N : i \in P
<1> DEFINE S == {i \in 1 .. N : i \notin P}
<1>1. SUFFICES ASSUME S # {} PROVE FALSE
  OBVIOUS
<1>2. S \in SUBSET Nat
  OBVIOUS
<1> HIDE DEF S
<1>3. PICK i \in S : \A j \in S : i <= j
  BY <1>1, <1>2, HasLeast
<1>4. \A j \in 1 .. N : j < i => j \in P
  BY <1>3 DEF S
<1> QED BY <1>3, <1>4 DEF S

\* The trace of a filter.
Filter(seq, S, f) ==
  f = [n \in 0 .. Len(seq) |->
         IF n = 0 THEN <<>>
         ELSE IF seq[n] \in S THEN Append(f[n - 1], seq[n]) ELSE f[n - 1]]

LEMMA FilterExists ==
  ASSUME NEW V, NEW seq \in Seq(V), NEW S
  PROVE  \E f \in [0 .. Len(seq) -> Seq(V)] : Filter(seq, S, f)
<1> DEFINE step == [x \in (1 .. Len(seq)) \X Seq(V) |->
                      IF seq[x[1]] \in S THEN Append(x[2], seq[x[1]]) ELSE x[2]]
<1>1. step \in [(1 .. Len(seq)) \X Seq(V) -> Seq(V)]
  OBVIOUS
<1>2. <<>> \in Seq(V) /\ Len(seq) \in Nat
  OBVIOUS
<1>3. \A n \in 1 .. Len(seq), s \in Seq(V) :
        step[<<n, s>>] = IF seq[n] \in S THEN Append(s, seq[n]) ELSE s
  OBVIOUS
<1> HIDE DEF step
<1>4. PICK f : Trace(Seq(V), <<>>, step, Len(seq), f)
  BY <1>1, <1>2, Iterated
<1>5. ASSUME NEW n \in 1 .. Len(seq)
      PROVE  f[n] = IF seq[n] \in S THEN Append(f[n - 1], seq[n]) ELSE f[n - 1]
  <2>1. f[n - 1] \in Seq(V)
    BY <1>4 DEF Trace
  <2> QED BY <2>1, <1>3, <1>4 DEF Trace
<1>6. f \in [0 .. Len(seq) -> Seq(V)] /\ f[0] = <<>>
  BY <1>4 DEF Trace
<1>7. \A n \in 0 .. Len(seq) :
        f[n] = IF n = 0 THEN <<>> ELSE IF seq[n] \in S THEN Append(f[n - 1], seq[n]) ELSE f[n - 1]
  <2> TAKE n \in 0 .. Len(seq)
  <2>1. n = 0 \/ n \in 1 .. Len(seq)
    OBVIOUS
  <2> QED BY <2>1, <1>5, <1>6
<1>8. Filter(seq, S, f)
  BY <1>6, <1>7 DEF Filter
<1> QED BY <1>6, <1>8

LEMMA FilterSteps ==
  ASSUME NEW V, NEW seq \in Seq(V), NEW S, NEW f, Filter(seq, S, f)
  PROVE  /\ f[0] = <<>>
         /\ \A n \in 1 .. Len(seq) :
              f[n] = IF seq[n] \in S THEN Append(f[n - 1], seq[n]) ELSE f[n - 1]
<1>1. \A n \in 0 .. Len(seq) :
        f[n] = IF n = 0 THEN <<>> ELSE IF seq[n] \in S THEN Append(f[n - 1], seq[n]) ELSE f[n - 1]
  BY DEF Filter
<1>2. f[0] = <<>>
  BY <1>1
<1>3. ASSUME NEW n \in 1 .. Len(seq)
      PROVE  f[n] = IF seq[n] \in S THEN Append(f[n - 1], seq[n]) ELSE f[n - 1]
  <2>1. n \in 0 .. Len(seq) /\ n # 0
    OBVIOUS
  <2> QED BY <2>1, <1>1, Zenon
<1> QED BY <1>2, <1>3

LEMMA FilterUnique ==
  ASSUME NEW V, NEW seq \in Seq(V), NEW S, NEW f, NEW h, Filter(seq, S, f), Filter(seq, S, h)
  PROVE  f = h
<1> DEFINE P == {n \in 0 .. Len(seq) : f[n] = h[n]}
<1>1. \A n \in 0 .. Len(seq) :
        /\ f[n] = IF n = 0 THEN <<>> ELSE IF seq[n] \in S THEN Append(f[n - 1], seq[n]) ELSE f[n - 1]
        /\ h[n] = IF n = 0 THEN <<>> ELSE IF seq[n] \in S THEN Append(h[n - 1], seq[n]) ELSE h[n - 1]
  BY DEF Filter
<1>2. 0 \in P
  <2>1. 0 \in 0 .. Len(seq)
    OBVIOUS
  <2>2. f[0] = <<>> /\ h[0] = <<>>
    BY <1>1, <2>1, Zenon
  <2> QED BY <2>1, <2>2
<1>3. ASSUME NEW n \in 1 .. Len(seq), n - 1 \in P PROVE n \in P
  <2>1. f[n - 1] = h[n - 1]
    BY <1>3
  <2> QED BY <2>1, <1>1
<1>4. P = 0 .. Len(seq)
  <2> HIDE DEF P
  <2>1. P \in SUBSET (0 .. Len(seq)) /\ Len(seq) \in Nat
    BY DEF P
  <2> QED BY <2>1, <1>2, <1>3, UpTo
<1>5. \A n \in 0 .. Len(seq) : f[n] = h[n]
  BY <1>4
<1>6. /\ f = [n \in 0 .. Len(seq) |-> f[n]]
      /\ h = [n \in 0 .. Len(seq) |-> h[n]]
  BY DEF Filter
<1> QED BY <1>5, <1>6

\* (the trace that Kept ends)
LEMMA KeptTrace ==
  ASSUME NEW V, NEW seq \in Seq(V), NEW S
  PROVE  \E f \in [0 .. Len(seq) -> Seq(V)] : Filter(seq, S, f) /\ Kept(seq, S) = f[Len(seq)]
<1> DEFINE f == CHOOSE g : Filter(seq, S, g)
<1>3. Kept(seq, S) = f[Len(seq)]
  BY DEF Kept, Filter
<1> HIDE DEF f
<1>1. PICK h \in [0 .. Len(seq) -> Seq(V)] : Filter(seq, S, h)
  BY FilterExists
<1>2. Filter(seq, S, f)
  BY <1>1 DEF f
<1>a. f = h
  BY <1>1, <1>2, FilterUnique
<1> QED BY <1>1, <1>2, <1>a, <1>3

\* What filtering returns: members of the sequence that are in the set, every one of
\* them, and none twice that the sequence has once.
Members(s) == {s[k] : k \in DOMAIN s}
Distinct(s) == \A j, k \in DOMAIN s : s[j] = s[k] => j = k

LEMMA KeptMembers ==
  ASSUME NEW V, NEW seq \in Seq(V), NEW S
  PROVE  /\ Kept(seq, S) \in Seq(V)
         /\ Members(Kept(seq, S)) = Members(seq) \cap S
         /\ Distinct(seq) => Distinct(Kept(seq, S))
<1>1. PICK f \in [0 .. Len(seq) -> Seq(V)] : Filter(seq, S, f) /\ Kept(seq, S) = f[Len(seq)]
  BY KeptTrace
<1> DEFINE Fine(n) == /\ Members(f[n]) = {seq[k] : k \in 1 .. n} \cap S
                      /\ Distinct(seq) => Distinct(f[n])
           P == {n \in 0 .. Len(seq) : Fine(n)}
<1>2. f[0] = <<>> /\ \A n \in 1 .. Len(seq) :
        f[n] = IF seq[n] \in S THEN Append(f[n - 1], seq[n]) ELSE f[n - 1]
  BY <1>1, FilterSteps
<1>3. 0 \in P
  BY <1>2 DEF Members, Distinct
<1>4. ASSUME NEW n \in 1 .. Len(seq), n - 1 \in P PROVE n \in P
  <2> DEFINE s == f[n - 1]
  <2>1. s \in Seq(V) /\ seq[n] \in V
    OBVIOUS
  <2>2. Members(s) = {seq[k] : k \in 1 .. n - 1} \cap S /\ (Distinct(seq) => Distinct(s))
    BY <1>4
  <2>3. {seq[k] : k \in 1 .. n} = {seq[k] : k \in 1 .. n - 1} \cup {seq[n]}
    OBVIOUS
  <2>4. f[n] = IF seq[n] \in S THEN Append(s, seq[n]) ELSE s
    BY <1>2
  <2> HIDE DEF s
  <2>5. CASE seq[n] \notin S
    BY <2>2, <2>3, <2>4, <2>5
  <2>6. CASE seq[n] \in S
    <3>a. /\ DOMAIN Append(s, seq[n]) = DOMAIN s \cup {Len(s) + 1} /\ Len(s) + 1 \notin DOMAIN s
          /\ Append(s, seq[n])[Len(s) + 1] = seq[n]
          /\ \A k \in DOMAIN s : Append(s, seq[n])[k] = s[k]
      BY <2>1
    <3>1. Members(Append(s, seq[n])) = Members(s) \cup {seq[n]}
      BY <3>a DEF Members
    <3>2. ASSUME Distinct(seq) PROVE Distinct(Append(s, seq[n]))
      <4>1. seq[n] \notin {seq[k] : k \in 1 .. n - 1}
        BY <3>2 DEF Distinct
      <4>2. seq[n] \notin Members(s)
        BY <4>1, <2>2
      <4>3. Distinct(s)
        BY <2>2, <3>2
      <4> DEFINE t == Append(s, seq[n])
      <4>4. ASSUME NEW j \in DOMAIN t, NEW k \in DOMAIN t, t[j] = t[k] PROVE j = k
        <5> HIDE DEF t
        <5>1. \A i \in DOMAIN s : t[i] # seq[n]
          BY <3>a, <4>2 DEF Members, t
        <5>2. CASE j \in DOMAIN s /\ k \in DOMAIN s
          BY <5>2, <3>a, <4>3, <4>4 DEF Distinct, t
        <5>3. CASE j \notin DOMAIN s \/ k \notin DOMAIN s
          BY <5>1, <5>3, <3>a, <4>4 DEF t
        <5> QED BY <5>2, <5>3
      <4> HIDE DEF t
      <4>5. Distinct(t)
        BY <4>4 DEF Distinct
      <4> QED BY <4>5 DEF t
    <3>3. f[n] = Append(s, seq[n])
      BY <2>4, <2>6
    <3>4. Members(f[n]) = {seq[k] : k \in 1 .. n} \cap S
      BY <2>2, <2>3, <2>6, <3>1, <3>3
    <3>5. Distinct(seq) => Distinct(f[n])
      BY <3>2, <3>3
    <3> QED BY <3>4, <3>5
  <2> QED BY <2>5, <2>6
<1>5. P = 0 .. Len(seq)
  <2> HIDE DEF P
  <2>1. P \in SUBSET (0 .. Len(seq)) /\ Len(seq) \in Nat
    BY DEF P
  <2> QED BY <2>1, <1>3, <1>4, UpTo
<1>6. Fine(Len(seq))
  <2>1. Len(seq) \in 0 .. Len(seq)
    OBVIOUS
  <2>2. Len(seq) \in P
    BY <1>5, <2>1
  <2> QED BY <2>2
<1>7. {seq[k] : k \in 1 .. Len(seq)} = Members(seq)
  BY DEF Members
<1> QED BY <1>1, <1>6, <1>7

\* The trace of a concatenation.
Joins(parts, f) ==
  f = [n \in 0 .. Len(parts) |-> IF n = 0 THEN <<>> ELSE f[n - 1] \o parts[n]]

LEMMA JoinsExists ==
  ASSUME NEW V, NEW parts \in Seq(Seq(V))
  PROVE  \E f \in [0 .. Len(parts) -> Seq(V)] : Joins(parts, f)
<1> DEFINE step == [x \in (1 .. Len(parts)) \X Seq(V) |-> x[2] \o parts[x[1]]]
<1>1. step \in [(1 .. Len(parts)) \X Seq(V) -> Seq(V)]
  OBVIOUS
<1>2. <<>> \in Seq(V) /\ Len(parts) \in Nat
  OBVIOUS
<1>3. \A n \in 1 .. Len(parts), s \in Seq(V) : step[<<n, s>>] = s \o parts[n]
  OBVIOUS
<1> HIDE DEF step
<1>4. PICK f : Trace(Seq(V), <<>>, step, Len(parts), f)
  BY <1>1, <1>2, Iterated
<1>6. f \in [0 .. Len(parts) -> Seq(V)] /\ f[0] = <<>>
  BY <1>4 DEF Trace
<1>5. ASSUME NEW n \in 1 .. Len(parts) PROVE f[n] = f[n - 1] \o parts[n]
  <2>1. f[n - 1] \in Seq(V)
    <3>1. n - 1 \in 0 .. Len(parts)
      OBVIOUS
    <3> QED BY <3>1, <1>6
  <2>2. f[n] = step[<<n, f[n - 1]>>]
    BY <1>4 DEF Trace
  <2> QED BY <2>1, <2>2, <1>3, Zenon
<1>7. \A n \in 0 .. Len(parts) : f[n] = IF n = 0 THEN <<>> ELSE f[n - 1] \o parts[n]
  <2> TAKE n \in 0 .. Len(parts)
  <2>1. n = 0 \/ n \in 1 .. Len(parts)
    OBVIOUS
  <2> QED BY <2>1, <1>5, <1>6
<1>8. Joins(parts, f)
  BY <1>6, <1>7 DEF Joins
<1> QED BY <1>6, <1>8

LEMMA JoinsSteps ==
  ASSUME NEW V, NEW parts \in Seq(Seq(V)), NEW f, Joins(parts, f)
  PROVE  f[0] = <<>> /\ \A n \in 1 .. Len(parts) : f[n] = f[n - 1] \o parts[n]
<1>1. \A n \in 0 .. Len(parts) : f[n] = IF n = 0 THEN <<>> ELSE f[n - 1] \o parts[n]
  BY DEF Joins
<1>2. f[0] = <<>>
  <2>1. 0 \in 0 .. Len(parts)
    OBVIOUS
  <2> QED BY <2>1, <1>1, Zenon
<1>3. ASSUME NEW n \in 1 .. Len(parts) PROVE f[n] = f[n - 1] \o parts[n]
  <2>1. n \in 0 .. Len(parts) /\ n # 0
    OBVIOUS
  <2> QED BY <2>1, <1>1, Zenon
<1> QED BY <1>2, <1>3

LEMMA JoinsUnique ==
  ASSUME NEW V, NEW parts \in Seq(Seq(V)), NEW f, NEW h, Joins(parts, f), Joins(parts, h)
  PROVE  f = h
<1> DEFINE P == {n \in 0 .. Len(parts) : f[n] = h[n]}
<1>1. /\ f[0] = <<>> /\ \A n \in 1 .. Len(parts) : f[n] = f[n - 1] \o parts[n]
      /\ h[0] = <<>> /\ \A n \in 1 .. Len(parts) : h[n] = h[n - 1] \o parts[n]
  BY JoinsSteps
<1>2. 0 \in P
  BY <1>1
<1>3. ASSUME NEW n \in 1 .. Len(parts), n - 1 \in P PROVE n \in P
  <2>1. f[n - 1] = h[n - 1]
    BY <1>3
  <2>2. f[n] = h[n]
    BY <2>1, <1>1, Zenon
  <2> QED BY <2>2
<1>4. P = 0 .. Len(parts)
  <2> HIDE DEF P
  <2>1. P \in SUBSET (0 .. Len(parts)) /\ Len(parts) \in Nat
    BY DEF P
  <2> QED BY <2>1, <1>2, <1>3, UpTo
<1>5. \A n \in 0 .. Len(parts) : f[n] = h[n]
  BY <1>4
<1>6. /\ f = [n \in 0 .. Len(parts) |-> f[n]]
      /\ h = [n \in 0 .. Len(parts) |-> h[n]]
  BY DEF Joins
<1> QED BY <1>5, <1>6

LEMMA JoinedTrace ==
  ASSUME NEW V, NEW parts \in Seq(Seq(V))
  PROVE  \E f \in [0 .. Len(parts) -> Seq(V)] : Joins(parts, f) /\ Joined(parts) = f[Len(parts)]
<1> DEFINE f == CHOOSE g : Joins(parts, g)
<1>1. Joined(parts) = f[Len(parts)]
  BY DEF Joined, Joins
<1> HIDE DEF f
<1>2. PICK h \in [0 .. Len(parts) -> Seq(V)] : Joins(parts, h)
  BY JoinsExists
<1>3. Joins(parts, f)
  BY <1>2 DEF f
<1>4. f = h
  BY <1>2, <1>3, JoinsUnique
<1> QED BY <1>1, <1>2, <1>3, <1>4

\* What two sequences hold together.
LEMMA ConcatMembers ==
  ASSUME NEW V, NEW s \in Seq(V), NEW t \in Seq(V)
  PROVE  /\ Members(s \o t) = Members(s) \cup Members(t)
         /\ (Distinct(s) /\ Distinct(t) /\ Members(s) \cap Members(t) = {}) => Distinct(s \o t)
<1> DEFINE u == s \o t
<1>1. /\ u \in Seq(V) /\ Len(u) = Len(s) + Len(t)
      /\ \A k \in 1 .. Len(u) : u[k] = IF k <= Len(s) THEN s[k] ELSE t[k - Len(s)]
  BY ConcatProperties
<1>2. \A k \in DOMAIN s : k \in DOMAIN u /\ u[k] = s[k]
  BY <1>1
<1>3. \A k \in DOMAIN t : Len(s) + k \in DOMAIN u /\ u[Len(s) + k] = t[k]
  BY <1>1
<1>4. \A k \in DOMAIN u : \/ k \in DOMAIN s
                          \/ \E j \in DOMAIN t : k = Len(s) + j /\ u[k] = t[j]
  <2> TAKE k \in DOMAIN u
  <2>1. CASE k <= Len(s)
    BY <1>1, <2>1
  <2>2. CASE ~ (k <= Len(s))
    <3>1. k - Len(s) \in DOMAIN t /\ k = Len(s) + (k - Len(s)) /\ u[k] = t[k - Len(s)]
      BY <1>1, <2>2
    <3> QED BY <3>1
  <2> QED BY <2>1, <2>2
<1> HIDE DEF u
<1>5. Members(u) = Members(s) \cup Members(t)
  BY <1>2, <1>3, <1>4 DEF Members
<1>6. ASSUME Distinct(s), Distinct(t), Members(s) \cap Members(t) = {},
             NEW j \in DOMAIN u, NEW k \in DOMAIN u, u[j] = u[k]
      PROVE  j = k
  <2>1. CASE j \in DOMAIN s /\ k \in DOMAIN s
    BY <1>2, <1>6, <2>1 DEF Distinct
  <2>2. CASE j \in DOMAIN s /\ k \notin DOMAIN s
    <3>1. PICK x \in DOMAIN t : u[k] = t[x]
      BY <1>4, <2>2
    <3>2. u[j] \in Members(s) /\ u[k] \in Members(t)
      BY <1>2, <2>2, <3>1 DEF Members
    <3> QED BY <1>6, <3>2
  <2>3. CASE j \notin DOMAIN s /\ k \in DOMAIN s
    <3>1. PICK x \in DOMAIN t : u[j] = t[x]
      BY <1>4, <2>3
    <3>2. u[k] \in Members(s) /\ u[j] \in Members(t)
      BY <1>2, <2>3, <3>1 DEF Members
    <3> QED BY <1>6, <3>2
  <2>4. CASE j \notin DOMAIN s /\ k \notin DOMAIN s
    <3>1. PICK x \in DOMAIN t : j = Len(s) + x /\ u[j] = t[x]
      BY <1>4, <2>4
    <3>2. PICK y \in DOMAIN t : k = Len(s) + y /\ u[k] = t[y]
      BY <1>4, <2>4
    <3> QED BY <1>6, <3>1, <3>2 DEF Distinct
  <2> QED BY <2>1, <2>2, <2>3, <2>4
<1>7. (Distinct(s) /\ Distinct(t) /\ Members(s) \cap Members(t) = {}) => Distinct(u)
  BY <1>6 DEF Distinct
<1> QED BY <1>5, <1>7 DEF u

\* A concatenation holds what its parts hold, and nothing twice that no part has
\* twice and no two parts share.
LEMMA JoinedMembers ==
  ASSUME NEW V, NEW parts \in Seq(Seq(V))
  PROVE  /\ Joined(parts) \in Seq(V)
         /\ Members(Joined(parts)) = UNION {Members(parts[i]) : i \in DOMAIN parts}
         /\ (/\ \A i \in DOMAIN parts : Distinct(parts[i])
             /\ \A i, j \in DOMAIN parts : i # j => Members(parts[i]) \cap Members(parts[j]) = {})
            => Distinct(Joined(parts))
<1>1. PICK f \in [0 .. Len(parts) -> Seq(V)] : Joins(parts, f) /\ Joined(parts) = f[Len(parts)]
  BY JoinedTrace
<1> DEFINE Apart == /\ \A i \in DOMAIN parts : Distinct(parts[i])
                    /\ \A i, j \in DOMAIN parts : i # j => Members(parts[i]) \cap Members(parts[j]) = {}
           Fine(n) == /\ Members(f[n]) = UNION {Members(parts[i]) : i \in 1 .. n}
                      /\ Apart => Distinct(f[n])
           P == {n \in 0 .. Len(parts) : Fine(n)}
<1>2. f[0] = <<>> /\ \A n \in 1 .. Len(parts) : f[n] = f[n - 1] \o parts[n]
  BY <1>1, JoinsSteps
<1>3. 0 \in P
  BY <1>2 DEF Members, Distinct
<1>4. ASSUME NEW n \in 1 .. Len(parts), n - 1 \in P PROVE n \in P
  <2> DEFINE s == f[n - 1]
  <2>1. s \in Seq(V) /\ parts[n] \in Seq(V)
    <3>1. n - 1 \in 0 .. Len(parts) /\ n \in DOMAIN parts
      OBVIOUS
    <3>2. \A i \in DOMAIN parts : parts[i] \in Seq(V)
      OBVIOUS
    <3> QED BY <3>1, <3>2
  <2>2. Members(s) = UNION {Members(parts[i]) : i \in 1 .. n - 1} /\ (Apart => Distinct(s))
    BY <1>4
  <2>3. 1 .. n = (1 .. n - 1) \cup {n} /\ 1 .. n \subseteq DOMAIN parts
    OBVIOUS
  <2>4. f[n] = s \o parts[n]
    BY <1>2
  <2> HIDE DEF s, Apart
  <2>5. Members(f[n]) = Members(s) \cup Members(parts[n])
    BY <2>1, <2>4, ConcatMembers
  <2>6. Members(f[n]) = UNION {Members(parts[i]) : i \in 1 .. n}
    BY <2>2, <2>3, <2>5
  <2>7. ASSUME Apart PROVE Distinct(f[n])
    <3>1. Distinct(s) /\ Distinct(parts[n])
      BY <2>2, <2>3, <2>7 DEF Apart
    <3>2. \A i \in 1 .. n - 1 : Members(parts[i]) \cap Members(parts[n]) = {}
      <4> TAKE i \in 1 .. n - 1
      <4>1. i \in DOMAIN parts /\ n \in DOMAIN parts /\ i # n
        OBVIOUS
      <4> QED BY <4>1, <2>7 DEF Apart
    <3>3. Members(s) \cap Members(parts[n]) = {}
      BY <2>2, <3>2
    <3> QED BY <2>1, <2>4, <3>1, <3>3, ConcatMembers
  <2> QED BY <2>6, <2>7
<1> HIDE DEF Apart
<1>5. P = 0 .. Len(parts)
  <2> HIDE DEF P
  <2>1. P \in SUBSET (0 .. Len(parts)) /\ Len(parts) \in Nat
    BY DEF P
  <2> QED BY <2>1, <1>3, <1>4, UpTo
<1>6. Fine(Len(parts))
  <2>1. Len(parts) \in 0 .. Len(parts)
    OBVIOUS
  <2>2. Len(parts) \in P
    BY <1>5, <2>1
  <2> QED BY <2>2
<1>7. Members(Joined(parts)) = UNION {Members(parts[i]) : i \in DOMAIN parts}
  <2>1. DOMAIN parts = 1 .. Len(parts)
    OBVIOUS
  <2> QED BY <1>1, <1>6, <2>1, Zenon
<1>8. Apart => Distinct(Joined(parts))
  BY <1>1, <1>6
<1>9. (/\ \A i \in DOMAIN parts : Distinct(parts[i])
       /\ \A i, j \in DOMAIN parts : i # j => Members(parts[i]) \cap Members(parts[j]) = {})
      => Distinct(Joined(parts))
  BY <1>8 DEF Apart
<1>10. Joined(parts) \in Seq(V)
  BY <1>1
<1> QED BY <1>7, <1>9, <1>10

\* s is part of seq, in the order of seq: g says where.
Within(s, seq, g) ==
  /\ g \in [1 .. Len(s) -> 1 .. Len(seq)]
  /\ \A i \in 1 .. Len(s) : s[i] = seq[g[i]]
  /\ \A i, j \in 1 .. Len(s) : i < j => g[i] < g[j]

\* What is kept is in the order it was in.
LEMMA KeptOrder ==
  ASSUME NEW V, NEW seq \in Seq(V), NEW S
  PROVE  \E g : Within(Kept(seq, S), seq, g)
<1>1. PICK f \in [0 .. Len(seq) -> Seq(V)] : Filter(seq, S, f) /\ Kept(seq, S) = f[Len(seq)]
  BY KeptTrace
<1> DEFINE Fine(n) == \E g : Within(f[n], seq, g) /\ \A i \in 1 .. Len(f[n]) : g[i] <= n
           P == {n \in 0 .. Len(seq) : Fine(n)}
<1>2. f[0] = <<>> /\ \A n \in 1 .. Len(seq) :
        f[n] = IF seq[n] \in S THEN Append(f[n - 1], seq[n]) ELSE f[n - 1]
  BY <1>1, FilterSteps
<1>3. 0 \in P
  <2> DEFINE g == [i \in 1 .. 0 |-> 1]
  <2>1. Len(f[0]) = 0 /\ 1 .. 0 = {}
    BY <1>2
  <2>2. g \in [1 .. Len(f[0]) -> 1 .. Len(seq)]
    BY <2>1
  <2> HIDE DEF g
  <2>3. Within(f[0], seq, g) /\ \A i \in 1 .. Len(f[0]) : g[i] <= 0
    BY <2>1, <2>2 DEF Within
  <2> QED BY <2>3
<1>4. ASSUME NEW n \in 1 .. Len(seq), n - 1 \in P PROVE n \in P
  <2> DEFINE s == f[n - 1]
  <2>1. s \in Seq(V) /\ seq[n] \in V /\ n - 1 \in 0 .. Len(seq) /\ n \in 0 .. Len(seq)
    OBVIOUS
  <2>2. PICK g : Within(s, seq, g) /\ \A i \in 1 .. Len(s) : g[i] <= n - 1
    BY <1>4
  <2>3. f[n] = IF seq[n] \in S THEN Append(s, seq[n]) ELSE s
    BY <1>2
  <2> HIDE DEF s
  <2>4. g \in [1 .. Len(s) -> 1 .. Len(seq)] /\ Len(s) \in Nat
    BY <2>1, <2>2 DEF Within
  <2>5. CASE seq[n] \notin S
    <3>1. Within(f[n], seq, g) /\ \A i \in 1 .. Len(f[n]) : g[i] <= n
      BY <2>2, <2>3, <2>4, <2>5
    <3> QED BY <2>1, <3>1
  <2>6. CASE seq[n] \in S
    <3> DEFINE t == Append(s, seq[n])
               h == [i \in 1 .. Len(t) |-> IF i = Len(t) THEN n ELSE g[i]]
    <3>1. Len(t) = Len(s) + 1 /\ t[Len(t)] = seq[n] /\ \A i \in 1 .. Len(s) : t[i] = s[i]
      BY <2>1
    <3> HIDE DEF t
    <3>2. h \in [1 .. Len(t) -> 1 .. Len(seq)]
      BY <2>4, <3>1
    <3>a. \A i \in 1 .. Len(s) : i \in 1 .. Len(t) /\ i # Len(t)
      BY <2>4, <3>1
    <3>b. \A i \in 1 .. Len(s) : h[i] = g[i]
      BY <3>a
    <3>c. \A i \in 1 .. Len(s) : g[i] \in 1 .. Len(seq)
      BY <2>4
    <3>3. \A i \in 1 .. Len(s) : h[i] = g[i] /\ h[i] <= n - 1 /\ h[i] \in Nat
      <4> HIDE DEF h
      <4> QED BY <2>2, <3>b, <3>c
    <3>4. h[Len(t)] = n
      BY <2>4, <3>1
    <3> HIDE DEF h
    <3>5. \A i \in 1 .. Len(t) : i \in 1 .. Len(s) \/ i = Len(t)
      BY <2>4, <3>1
    <3>6. \A i \in 1 .. Len(t) : t[i] = seq[h[i]] /\ h[i] <= n
      <4> TAKE i \in 1 .. Len(t)
      <4>1. CASE i \in 1 .. Len(s)
        <5>1. t[i] = s[i] /\ s[i] = seq[g[i]] /\ h[i] = g[i]
          BY <2>2, <3>1, <3>b, <4>1 DEF Within
        <5>2. h[i] <= n
          BY <3>3, <4>1
        <5> QED BY <5>1, <5>2
      <4>2. CASE i = Len(t)
        BY <3>1, <3>4, <4>2
      <4> QED BY <3>5, <4>1, <4>2
    <3>7. ASSUME NEW i \in 1 .. Len(t), NEW j \in 1 .. Len(t), i < j PROVE h[i] < h[j]
      <4>1. i \in 1 .. Len(s)
        BY <2>4, <3>1, <3>5, <3>7
      <4>2. CASE j = Len(t)
        BY <4>1, <4>2, <3>3, <3>4
      <4>3. CASE j \in 1 .. Len(s)
        BY <4>1, <4>3, <2>2, <3>3, <3>7 DEF Within
      <4> QED BY <3>5, <4>2, <4>3
    <3>8. Within(t, seq, h)
      BY <3>2, <3>6, <3>7 DEF Within
    <3>9. f[n] = t
      BY <2>3, <2>6 DEF t
    <3> QED BY <2>1, <3>6, <3>8, <3>9
  <2> QED BY <2>5, <2>6
<1>5. P = 0 .. Len(seq)
  <2> HIDE DEF P
  <2>1. P \in SUBSET (0 .. Len(seq)) /\ Len(seq) \in Nat
    BY DEF P
  <2> QED BY <2>1, <1>3, <1>4, UpTo
<1>6. Len(seq) \in P
  <2>1. Len(seq) \in 0 .. Len(seq)
    OBVIOUS
  <2> HIDE DEF P
  <2> QED BY <1>5, <2>1
<1> QED BY <1>1, <1>6

Increasing(s) == \A i, j \in DOMAIN s : i < j => s[i] < s[j]

\* What is kept of numbers that increase.
LEMMA KeptNumbers ==
  ASSUME NEW seq \in Seq(Nat), Increasing(seq), NEW S
  PROVE  /\ Kept(seq, S) \in Seq(Nat) /\ Increasing(Kept(seq, S))
         /\ Members(Kept(seq, S)) = Members(seq) \cap S
<1> DEFINE s == Kept(seq, S)
<1>1. s \in Seq(Nat) /\ Members(s) = Members(seq) \cap S
  BY KeptMembers
<1>2. PICK g : Within(s, seq, g)
  BY KeptOrder
<1> HIDE DEF s
<1>3. ASSUME NEW i \in DOMAIN s, NEW j \in DOMAIN s, i < j PROVE s[i] < s[j]
  <2>1. i \in 1 .. Len(s) /\ j \in 1 .. Len(s)
    BY <1>1
  <2>2. g[i] < g[j] /\ g[i] \in DOMAIN seq /\ g[j] \in DOMAIN seq /\ s[i] = seq[g[i]] /\ s[j] = seq[g[j]]
    BY <1>2, <1>3, <2>1 DEF Within
  <2> QED BY <2>2 DEF Increasing
<1> QED BY <1>1, <1>3 DEF Increasing, s

\* Increasing numbers are known by which they are.
LEMMA SameNumbers ==
  ASSUME NEW s \in Seq(Nat), NEW t \in Seq(Nat), Increasing(s), Increasing(t), Members(s) = Members(t)
  PROVE  s = t
<1> DEFINE Same(n) == n <= Len(s) /\ n <= Len(t) => \A i \in 1 .. n : s[i] = t[i]
           P == {n \in 0 .. Len(s) : Same(n)}
<1>1. 0 \in P
  OBVIOUS
<1>2. ASSUME NEW n \in 1 .. Len(s), n - 1 \in P, n <= Len(t) PROVE s[n] = t[n]
  <2>1. n \in DOMAIN s /\ n \in DOMAIN t /\ s[n] \in Nat /\ t[n] \in Nat /\ \A i \in 1 .. n - 1 : s[i] = t[i]
    BY <1>2
  <2>2. PICK j \in DOMAIN t : t[j] = s[n]
    BY <2>1 DEF Members
  <2>3. PICK k \in DOMAIN s : s[k] = t[n]
    BY <2>1 DEF Members
  <2>4. j >= n
    <3>1. SUFFICES ASSUME j < n PROVE FALSE
      BY <2>1, <2>2
    <3>2. j \in 1 .. n - 1 /\ j \in DOMAIN s
      BY <3>1, <2>1, <2>2
    <3>3. s[j] = s[n] /\ s[j] < s[n]
      BY <3>1, <3>2, <2>1, <2>2 DEF Increasing
    <3> QED BY <3>3, <2>1
  <2>5. k >= n
    <3>1. SUFFICES ASSUME k < n PROVE FALSE
      BY <2>1, <2>3
    <3>2. k \in 1 .. n - 1 /\ k \in DOMAIN t
      BY <3>1, <2>1, <2>3
    <3>3. t[k] = t[n] /\ t[k] < t[n]
      BY <3>1, <3>2, <2>1, <2>3 DEF Increasing
    <3> QED BY <3>3, <2>1
  <2>6. t[n] <= s[n]
    <3>1. n < j => t[n] < t[j]
      BY <2>1, <2>2 DEF Increasing
    <3>2. n < j \/ n = j
      BY <2>2, <2>4
    <3> QED BY <3>1, <3>2, <2>1, <2>2
  <2>7. s[n] <= t[n]
    <3>1. n < k => s[n] < s[k]
      BY <2>1, <2>3 DEF Increasing
    <3>2. n < k \/ n = k
      BY <2>3, <2>5
    <3> QED BY <3>1, <3>2, <2>1, <2>3
  <2> QED BY <2>1, <2>6, <2>7
<1>3. ASSUME NEW n \in 1 .. Len(s), n - 1 \in P PROVE n \in P
  <2>1. n \in 0 .. Len(s) /\ n - 1 \in Nat /\ Len(t) \in Nat
    OBVIOUS
  <2>2. ASSUME n <= Len(s), n <= Len(t) PROVE \A i \in 1 .. n : s[i] = t[i]
    <3>1. \A i \in 1 .. n - 1 : s[i] = t[i]
      BY <1>3, <2>1, <2>2
    <3>2. s[n] = t[n]
      BY <1>2, <1>3, <2>2
    <3> QED BY <3>1, <3>2
  <2> QED BY <2>1, <2>2
<1>4. P = 0 .. Len(s)
  <2> HIDE DEF P
  <2>1. P \in SUBSET (0 .. Len(s)) /\ Len(s) \in Nat
    BY DEF P
  <2> QED BY <2>1, <1>1, <1>3, UpTo
<1>5. \A n \in 0 .. Len(s) : Same(n)
  BY <1>4
<1>6. \A i \in 1 .. Len(s) : i <= Len(t) => s[i] = t[i]
  BY <1>5
<1> HIDE DEF P, Same
<1>7. Len(s) >= Len(t)
  <2>1. SUFFICES ASSUME Len(s) < Len(t) PROVE FALSE
    OBVIOUS
  <2>2. Len(s) + 1 \in DOMAIN t
    BY <2>1
  <2>3. PICK j \in DOMAIN s : s[j] = t[Len(s) + 1]
    BY <2>2 DEF Members
  <2>a. j <= Len(s) /\ j \in 1 .. Len(s) /\ j <= Len(t)
    BY <2>1, <2>3
  <2>4. j \in DOMAIN t /\ s[j] = t[j] /\ j < Len(s) + 1
    BY <2>a, <1>6
  <2>5. t[j] < t[Len(s) + 1] /\ t[j] \in Nat
    BY <2>2, <2>4 DEF Increasing
  <2> QED BY <2>3, <2>4, <2>5
<1>8. Len(t) >= Len(s)
  <2>1. SUFFICES ASSUME Len(t) < Len(s) PROVE FALSE
    OBVIOUS
  <2>2. Len(t) + 1 \in DOMAIN s
    BY <2>1
  <2>3. PICK j \in DOMAIN t : t[j] = s[Len(t) + 1]
    BY <2>2 DEF Members
  <2>a. j <= Len(t) /\ j \in 1 .. Len(t) /\ j \in 1 .. Len(s)
    BY <2>1, <2>3
  <2>4. j \in DOMAIN s /\ s[j] = t[j] /\ j < Len(t) + 1
    BY <2>a, <1>6
  <2>5. s[j] < s[Len(t) + 1] /\ s[j] \in Nat
    BY <2>2, <2>4 DEF Increasing
  <2> QED BY <2>3, <2>4, <2>5
<1> QED BY <1>6, <1>7, <1>8

\* The order of increasing numbers is that of their places.
LEMMA IncreasingOrder ==
  ASSUME NEW s \in Seq(Nat), Increasing(s), NEW i \in DOMAIN s, NEW j \in DOMAIN s
  PROVE  i < j <=> s[i] < s[j]
<1>1. s[i] \in Nat /\ s[j] \in Nat /\ i \in Nat /\ j \in Nat
  OBVIOUS
<1>2. (i < j => s[i] < s[j]) /\ (j < i => s[j] < s[i]) /\ (i = j => s[i] = s[j])
  BY DEF Increasing
<1> QED BY <1>1, <1>2

\* What a sequence holds with one more member.
LEMMA AppendMembers ==
  ASSUME NEW V, NEW s \in Seq(V), NEW x \in V
  PROVE  Members(Append(s, x)) = Members(s) \cup {x}
<1>1. /\ DOMAIN Append(s, x) = DOMAIN s \cup {Len(s) + 1} /\ Append(s, x)[Len(s) + 1] = x
      /\ \A k \in DOMAIN s : Append(s, x)[k] = s[k]
  OBVIOUS
<1>2. Len(s) + 1 \notin DOMAIN s
  OBVIOUS
<1> QED BY <1>1, <1>2 DEF Members
=============================================================================
