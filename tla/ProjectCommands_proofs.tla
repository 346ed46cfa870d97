--------------------------- MODULE ProjectCommands_proofs ---------------------------
(* The load and the link gate over a project that changes meanwhile, for every      *)
(* project: what the matcher and a resolved path are, what the selections find, and *)
(* what the outcome of a command means.                                             *)
EXTENDS ProjectCommands, Iteration_proofs, FunctionTheorems, FiniteSetTheorems

Segment == [deep : BOOLEAN, names : SUBSET STRING]
Selector == Seq(Segment) \ {<<>>}
Paths == Seq(STRING)
Spelled == Paths \ {Root}

Fits(segment, name) == segment.deep \/ name \in segment.names

-----------------------------------------------------------------------------
(* The matcher.                                                              *)

\* The first n names of the path, laid along what comes before position q, and along
\* q itself where it takes any number of them.
LaysOut(f, segments, path, n, q) ==
  /\ f \in [1 .. n -> DOMAIN segments]
  /\ \A i \in 1 .. n : f[i] <= q /\ (f[i] = q => segments[q].deep)
  /\ \A i \in 1 .. n : Fits(segments[f[i]], path[i])
  /\ \A i, j \in 1 .. n : i < j => f[i] <= f[j] /\ (f[i] = f[j] => segments[f[i]].deep)
  /\ \A k \in 1 .. q - 1 : segments[k].deep \/ \E i \in 1 .. n : f[i] = k

Laid(segments, path, n, q) == \E f : LaysOut(f, segments, path, n, q)

\* Where a name that is laid on p0 leaves the next one.
After(segments, p0) == IF segments[p0].deep THEN p0 ELSE p0 + 1
Passes(segments, p, q) == p <= q /\ \A k \in p .. q - 1 : segments[k].deep

LEMMA LaidStart ==
  ASSUME NEW segments \in Selector, NEW path, NEW q \in DOMAIN segments
  PROVE  Laid(segments, path, 0, q) <=> Passes(segments, 1, q)
<1>1. DOMAIN segments = 1 .. Len(segments) /\ Len(segments) \in Nat
  BY DEF Selector
<1>2. ASSUME Passes(segments, 1, q) PROVE Laid(segments, path, 0, q)
  <2> DEFINE f == [i \in 1 .. 0 |-> q]
  <2>1. LaysOut(f, segments, path, 0, q)
    BY <1>2 DEF LaysOut, Passes
  <2> QED BY <2>1 DEF Laid
<1>3. ASSUME Laid(segments, path, 0, q) PROVE Passes(segments, 1, q)
  BY <1>1, <1>3 DEF Laid, LaysOut, Passes
<1> QED BY <1>2, <1>3

LEMMA LaidNext ==
  ASSUME NEW segments \in Selector, NEW path \in Paths, NEW n \in 1 .. Len(path), NEW q \in DOMAIN segments
  PROVE  Laid(segments, path, n, q) <=>
           \E p \in DOMAIN segments : /\ Laid(segments, path, n - 1, p) /\ Fits(segments[p], path[n])
                                      /\ Passes(segments, After(segments, p), q)
<1>1. DOMAIN segments = 1 .. Len(segments) /\ Len(segments) \in Nat /\ n \in Nat /\ n > 0
  BY DEF Selector, Paths
<1>2. ASSUME NEW p \in DOMAIN segments, Laid(segments, path, n - 1, p), Fits(segments[p], path[n]),
             Passes(segments, After(segments, p), q)
      PROVE  Laid(segments, path, n, q)
  <2>1. PICK g : LaysOut(g, segments, path, n - 1, p)
    BY <1>2 DEF Laid
  <2> DEFINE f == [i \in 1 .. n |-> IF i = n THEN p ELSE g[i]]
  <2>2. f[n] = p /\ \A i \in 1 .. n - 1 : f[i] = g[i] /\ i \in 1 .. n
    BY <1>1
  <2>3. f \in [1 .. n -> DOMAIN segments]
    BY <2>1 DEF LaysOut
  <2>4. /\ \A i \in 1 .. n - 1 : g[i] \in DOMAIN segments /\ g[i] <= p /\ (g[i] = p => segments[p].deep)
        /\ \A i \in 1 .. n - 1 : Fits(segments[g[i]], path[i])
        /\ \A i, j \in 1 .. n - 1 : i < j => g[i] <= g[j] /\ (g[i] = g[j] => segments[g[i]].deep)
        /\ \A k \in 1 .. p - 1 : segments[k].deep \/ \E i \in 1 .. n - 1 : g[i] = k
    BY <2>1 DEF LaysOut
  <2>5. \A i \in 1 .. n : i = n \/ i \in 1 .. n - 1
    BY <1>1
  <2> HIDE DEF f
  <2>6. p <= q /\ (p = q => segments[p].deep)
    BY <1>1, <1>2 DEF Passes, After
  <2>7. \A i \in 1 .. n : f[i] <= p
    BY <1>1, <2>2, <2>4, <2>5
  <2>8. \A i \in 1 .. n : f[i] <= q /\ (f[i] = q => segments[q].deep)
    <3> TAKE i \in 1 .. n
    <3>1. f[i] \in DOMAIN segments /\ f[i] <= p
      BY <2>3, <2>7
    <3>2. f[i] <= q
      BY <1>1, <2>6, <3>1
    <3>3. f[i] = q => p = q
      BY <1>1, <2>6, <3>1
    <3> QED BY <2>6, <3>2, <3>3
  <2>9. \A i \in 1 .. n : Fits(segments[f[i]], path[i])
    BY <1>2, <2>2, <2>4, <2>5
  <2>10. \A i, j \in 1 .. n : i < j => f[i] <= f[j] /\ (f[i] = f[j] => segments[f[i]].deep)
    <3> TAKE i, j \in 1 .. n
    <3> HAVE i < j
    <3>1. i \in 1 .. n - 1
      BY <1>1
    <3>2. CASE j = n
      BY <2>2, <2>4, <3>1, <3>2
    <3>3. CASE j \in 1 .. n - 1
      BY <2>2, <2>4, <3>1, <3>3
    <3> QED BY <2>5, <3>2, <3>3
  <2>11. \A k \in 1 .. q - 1 : segments[k].deep \/ \E i \in 1 .. n : f[i] = k
    <3> TAKE k \in 1 .. q - 1
    <3>1. CASE k < p
      <4>1. segments[k].deep \/ \E i \in 1 .. n - 1 : g[i] = k
        BY <1>1, <2>4, <3>1
      <4> QED BY <4>1, <2>2
    <3>2. CASE k = p
      BY <1>1, <2>2, <3>2
    <3>3. CASE k > p
      BY <1>1, <1>2, <3>3 DEF Passes, After
    <3> QED BY <1>1, <3>1, <3>2, <3>3
  <2>12. LaysOut(f, segments, path, n, q)
    BY <2>3, <2>8, <2>9, <2>10, <2>11 DEF LaysOut
  <2> QED BY <2>12 DEF Laid
<1>3. ASSUME Laid(segments, path, n, q)
      PROVE  \E p \in DOMAIN segments : /\ Laid(segments, path, n - 1, p) /\ Fits(segments[p], path[n])
                                        /\ Passes(segments, After(segments, p), q)
  <2>1. PICK f : LaysOut(f, segments, path, n, q)
    BY <1>3 DEF Laid
  <2> DEFINE g == [i \in 1 .. n - 1 |-> f[i]]
             p == f[n]
  <2>2. n \in 1 .. n /\ \A i \in 1 .. n - 1 : i \in 1 .. n /\ i < n
    BY <1>1
  <2>3. p \in DOMAIN segments /\ Fits(segments[p], path[n]) /\ p <= q /\ (p = q => segments[p].deep)
    BY <2>1, <2>2 DEF LaysOut
  <2>a. \A i \in 1 .. n : f[i] \in DOMAIN segments
    BY <2>1 DEF LaysOut
  <2>4. g \in [1 .. n - 1 -> DOMAIN segments] /\ \A i \in 1 .. n - 1 : g[i] = f[i]
    BY <2>2, <2>a
  <2> HIDE DEF g, p
  <2>5. \A i \in 1 .. n - 1 : g[i] <= p /\ (g[i] = p => segments[p].deep)
    BY <2>1, <2>2, <2>4 DEF LaysOut, p
  <2>6. \A i \in 1 .. n - 1 : Fits(segments[g[i]], path[i])
    BY <2>1, <2>2, <2>4 DEF LaysOut
  <2>7. \A i, j \in 1 .. n - 1 : i < j => g[i] <= g[j] /\ (g[i] = g[j] => segments[g[i]].deep)
    BY <2>1, <2>2, <2>4 DEF LaysOut
  <2>8. \A k \in 1 .. p - 1 : segments[k].deep \/ \E i \in 1 .. n - 1 : g[i] = k
    <3> TAKE k \in 1 .. p - 1
    <3>1. k \in 1 .. q - 1 /\ k # p
      BY <1>1, <2>3
    <3>2. segments[k].deep \/ \E i \in 1 .. n : f[i] = k
      BY <2>1, <3>1 DEF LaysOut
    <3>3. \A i \in 1 .. n : i = n \/ i \in 1 .. n - 1
      BY <1>1
    <3> QED BY <2>4, <3>1, <3>2, <3>3 DEF p
  <2>9. Laid(segments, path, n - 1, p)
    <3>1. LaysOut(g, segments, path, n - 1, p)
      BY <2>4, <2>5, <2>6, <2>7, <2>8 DEF LaysOut
    <3> QED BY <3>1 DEF Laid
  <2>10. Passes(segments, After(segments, p), q)
    <3>1. After(segments, p) <= q
      BY <1>1, <2>3 DEF After
    <3>2. ASSUME NEW k \in After(segments, p) .. q - 1 PROVE segments[k].deep
      <4>1. k \in 1 .. q - 1 /\ p <= k /\ (k = p => segments[p].deep)
        BY <1>1, <2>3 DEF After
      <4>2. CASE \E i \in 1 .. n : f[i] = k
        <5>1. PICK i \in 1 .. n : f[i] = k
          BY <4>2
        <5>2. f[i] <= p
          <6>1. i = n \/ i < n
            BY <1>1
          <6>2. i < n => f[i] <= f[n]
            BY <2>1, <2>2 DEF LaysOut
          <6> QED BY <6>1, <6>2, <2>3, <1>1 DEF p
        <5> QED BY <1>1, <2>3, <4>1, <5>1, <5>2
      <4> QED BY <2>1, <4>1, <4>2 DEF LaysOut
    <3> QED BY <3>1, <3>2 DEF Passes
  <2> QED BY <2>3, <2>9, <2>10
<1> QED BY <1>2, <1>3

\* Laid all along but for the last name, which the last segment takes.
LEMMA LaidAligned ==
  ASSUME NEW segments \in Selector, NEW path \in Spelled
  PROVE  Aligned(segments, path) <=>
           Laid(segments, path, Len(path) - 1, Len(segments)) /\ Fits(segments[Len(segments)], path[Len(path)])
<1> DEFINE L == Len(path)
           m == Len(segments)
<1>1. /\ DOMAIN segments = 1 .. m /\ m \in Nat /\ m > 0
      /\ DOMAIN path = 1 .. L /\ L \in Nat /\ L > 0
  BY DEF Selector, Spelled, Paths, Root
<1>a. L = Len(path) /\ m = Len(segments)
  OBVIOUS
<1> HIDE DEF L, m
<1>2. ASSUME Laid(segments, path, L - 1, m), Fits(segments[m], path[L])
      PROVE  Aligned(segments, path)
  <2>1. PICK g : LaysOut(g, segments, path, L - 1, m)
    BY <1>2 DEF Laid
  <2> DEFINE f == [i \in 1 .. L |-> IF i = L THEN m ELSE g[i]]
  <2>2. f[L] = m /\ \A i \in 1 .. L - 1 : f[i] = g[i] /\ i \in 1 .. L
    BY <1>1
  <2>3. /\ g \in [1 .. L - 1 -> DOMAIN segments]
        /\ \A i \in 1 .. L - 1 : g[i] <= m /\ (g[i] = m => segments[m].deep)
        /\ \A i \in 1 .. L - 1 : Fits(segments[g[i]], path[i])
        /\ \A i, j \in 1 .. L - 1 : i < j => g[i] <= g[j] /\ (g[i] = g[j] => segments[g[i]].deep)
        /\ \A k \in 1 .. m - 1 : segments[k].deep \/ \E i \in 1 .. L - 1 : g[i] = k
    BY <2>1 DEF LaysOut
  <2>4. \A i \in 1 .. L : i = L \/ i \in 1 .. L - 1
    BY <1>1
  <2>5. f \in [DOMAIN path -> DOMAIN segments]
    BY <1>1, <2>3, <2>4
  <2> HIDE DEF f
  <2>6. \A i \in DOMAIN path : segments[f[i]].deep \/ path[i] \in segments[f[i]].names
    BY <1>1, <1>2, <2>2, <2>3, <2>4 DEF Fits
  <2>7. \A i, j \in DOMAIN path : i < j => f[i] <= f[j] /\ (f[i] = f[j] => segments[f[i]].deep)
    <3> TAKE i, j \in DOMAIN path
    <3> HAVE i < j
    <3>1. i \in 1 .. L - 1
      BY <1>1
    <3>2. CASE j = L
      BY <2>2, <2>3, <3>1, <3>2
    <3>3. CASE j \in 1 .. L - 1
      BY <2>2, <2>3, <3>1, <3>3
    <3> QED BY <1>1, <2>4, <3>2, <3>3
  <2>8. \A k \in DOMAIN segments : (\E i \in DOMAIN path : f[i] = k) \/ segments[k].deep
    <3> TAKE k \in DOMAIN segments
    <3>1. CASE k = m
      BY <1>1, <2>2, <3>1
    <3>2. CASE k \in 1 .. m - 1
      BY <1>1, <2>2, <2>3, <3>2
    <3> QED BY <1>1, <3>1, <3>2
  <2> QED BY <1>a, <2>2, <2>5, <2>6, <2>7, <2>8 DEF Aligned
<1>3. ASSUME Aligned(segments, path)
      PROVE  Laid(segments, path, L - 1, m) /\ Fits(segments[m], path[L])
  <2>1. PICK f \in [DOMAIN path -> DOMAIN segments] :
          /\ \A i \in DOMAIN path : segments[f[i]].deep \/ path[i] \in segments[f[i]].names
          /\ \A i, j \in DOMAIN path : i < j => f[i] <= f[j] /\ (f[i] = f[j] => segments[f[i]].deep)
          /\ \A k \in DOMAIN segments : (\E i \in DOMAIN path : f[i] = k) \/ segments[k].deep
          /\ f[L] = m
    BY <1>3, <1>a DEF Aligned
  <2> DEFINE g == [i \in 1 .. L - 1 |-> f[i]]
  <2>2. L \in DOMAIN path /\ \A i \in 1 .. L - 1 : i \in DOMAIN path /\ i < L
    BY <1>1
  <2>3. g \in [1 .. L - 1 -> DOMAIN segments] /\ \A i \in 1 .. L - 1 : g[i] = f[i]
    BY <2>2
  <2> HIDE DEF g
  <2>4. \A i \in 1 .. L - 1 : g[i] <= m /\ (g[i] = m => segments[m].deep)
    BY <2>1, <2>2, <2>3
  <2>5. \A i \in 1 .. L - 1 : Fits(segments[g[i]], path[i])
    BY <2>1, <2>2, <2>3 DEF Fits
  <2>6. \A i, j \in 1 .. L - 1 : i < j => g[i] <= g[j] /\ (g[i] = g[j] => segments[g[i]].deep)
    BY <2>1, <2>2, <2>3
  <2>7. \A k \in 1 .. m - 1 : segments[k].deep \/ \E i \in 1 .. L - 1 : g[i] = k
    <3> TAKE k \in 1 .. m - 1
    <3>1. k \in DOMAIN segments /\ k # m
      BY <1>1
    <3>2. \A i \in DOMAIN path : i = L \/ i \in 1 .. L - 1
      BY <1>1
    <3> QED BY <2>1, <2>3, <3>1, <3>2
  <2>8. Laid(segments, path, L - 1, m)
    <3>1. LaysOut(g, segments, path, L - 1, m)
      BY <2>3, <2>4, <2>5, <2>6, <2>7 DEF LaysOut
    <3> QED BY <3>1 DEF Laid
  <2> QED BY <2>1, <2>2, <2>8 DEF Fits
<1> QED BY <1>2, <1>3, <1>a

\* The positions the matcher is at after each name.
Positions(segments, path, f) ==
  f = [n \in 0 .. Len(path) - 1 |-> IF n = 0 THEN {1} ELSE Advance(f[n - 1], path[n], segments)]

LEMMA Advanced ==
  ASSUME NEW segments \in Selector, NEW positions, NEW name, NEW q \in DOMAIN segments
  PROVE  q \in _recursive_closure(Advance(positions, name, segments), segments) <=>
           \E p \in _recursive_closure(positions, segments) :
             Fits(segments[p], name) /\ Passes(segments, After(segments, p), q)
<1> DEFINE near == _recursive_closure(positions, segments)
           next == Advance(positions, name, segments)
           from(p) == IF segments[p].deep THEN {p}
                      ELSE IF p < Len(segments) /\ segment_matches(name, segments[p]) THEN {p + 1} ELSE {}
<1>1. DOMAIN segments = 1 .. Len(segments) /\ Len(segments) \in Nat
  BY DEF Selector
<1>2. near \subseteq DOMAIN segments
  BY DEF _recursive_closure
<1>3. next = UNION {from(p) : p \in near}
  BY DEF Advance
<1>4. q \in _recursive_closure(next, segments) <=> \E r \in next : Passes(segments, r, q)
  BY DEF _recursive_closure, Passes
<1>5. \A p \in near : from(p) \subseteq {After(segments, p)} /\ (from(p) # {} => Fits(segments[p], name))
  BY DEF After, Fits, segment_matches
<1>6. \A p \in near : Fits(segments[p], name) /\ Passes(segments, After(segments, p), q) => After(segments, p) \in from(p)
  BY <1>1, <1>2 DEF After, Fits, Passes, segment_matches
<1> HIDE DEF near, from, next
<1> QED BY <1>3, <1>4, <1>5, <1>6 DEF near, next

LEMMA MatcherSteps ==
  ASSUME NEW segments \in Selector, NEW path \in Spelled
  PROVE  \E f : /\ f[0] = {1}
                /\ \A n \in 1 .. Len(path) - 1 : f[n] = Advance(f[n - 1], path[n], segments)
                /\ selector_matches_path(segments, path) <=>
                     /\ Len(segments) \in _recursive_closure(f[Len(path) - 1], segments)
                     /\ Last(segments).deep \/ segment_matches(Last(path), Last(segments))
<1> DEFINE N == Len(path) - 1
           f == CHOOSE g : Positions(segments, path, g)
           step == [x \in (1 .. N) \X SUBSET Nat |-> Advance(x[2], path[x[1]], segments)]
<1>1. DOMAIN segments = 1 .. Len(segments) /\ Len(segments) \in Nat /\ N \in Nat
  BY DEF Selector, Spelled, Paths, Root
<1>2. \A positions, name : Advance(positions, name, segments) \in SUBSET Nat
  BY <1>1 DEF Advance, _recursive_closure
<1>3. /\ step \in [(1 .. N) \X SUBSET Nat -> SUBSET Nat]
      /\ \A n \in 1 .. N, s \in SUBSET Nat : step[<<n, s>>] = Advance(s, path[n], segments)
  BY <1>2
<1> HIDE DEF step
<1>4. {1} \in SUBSET Nat
  OBVIOUS
<1>5. PICK g : Trace(SUBSET Nat, {1}, step, N, g)
  BY <1>1, <1>3, <1>4, Iterated
<1>6. ASSUME NEW n \in 1 .. N PROVE g[n] = Advance(g[n - 1], path[n], segments)
  <2>1. g[n - 1] \in SUBSET Nat /\ g[n] = step[<<n, g[n - 1]>>]
    BY <1>5 DEF Trace
  <2> QED BY <2>1, <1>3
<1>7. \A n \in 0 .. N : g[n] = IF n = 0 THEN {1} ELSE Advance(g[n - 1], path[n], segments)
  <2> TAKE n \in 0 .. N
  <2>1. n = 0 \/ n \in 1 .. N
    BY <1>1
  <2>2. g[0] = {1}
    BY <1>5 DEF Trace
  <2> QED BY <2>1, <2>2, <1>6
<1>8. g = [n \in 0 .. N |-> g[n]]
  BY <1>5 DEF Trace
<1>9. Positions(segments, path, g)
  BY <1>7, <1>8 DEF Positions
<1>10. Positions(segments, path, f)
  BY <1>9
<1>11. selector_matches_path(segments, path) <=>
         /\ Len(segments) \in _recursive_closure(f[N], segments)
         /\ Last(segments).deep \/ segment_matches(Last(path), Last(segments))
  BY DEF selector_matches_path, Positions
<1> HIDE DEF f
<1>12. \A n \in 0 .. N : f[n] = IF n = 0 THEN {1} ELSE Advance(f[n - 1], path[n], segments)
  BY <1>10 DEF Positions
<1>13. f[0] = {1}
  <2>1. 0 \in 0 .. N
    BY <1>1
  <2> QED BY <2>1, <1>12
<1>14. ASSUME NEW n \in 1 .. N PROVE f[n] = Advance(f[n - 1], path[n], segments)
  <2>1. n \in 0 .. N /\ n # 0
    BY <1>1
  <2> QED BY <2>1, <1>12, Zenon
<1> QED BY <1>11, <1>13, <1>14

\* The matcher, a segment and a position at a time, finds just the paths that a selector
\* can be laid along.
LEMMA MatcherIsRight ==
  ASSUME NEW segments \in Selector, NEW path \in Spelled
  PROVE  selector_matches_path(segments, path) <=> Aligned(segments, path)
<1> DEFINE N == Len(path) - 1
<1>1. DOMAIN segments = 1 .. Len(segments) /\ Len(segments) \in Nat \ {0} /\ N \in Nat /\ path \in Paths
      /\ Len(path) \in Nat
  BY DEF Selector, Spelled, Paths, Root
<1>2. PICK f : /\ f[0] = {1}
               /\ \A n \in 1 .. N : f[n] = Advance(f[n - 1], path[n], segments)
               /\ selector_matches_path(segments, path) <=>
                    /\ Len(segments) \in _recursive_closure(f[N], segments)
                    /\ Last(segments).deep \/ segment_matches(Last(path), Last(segments))
  BY MatcherSteps
<1> DEFINE Same(n) == \A q \in DOMAIN segments : q \in _recursive_closure(f[n], segments) <=> Laid(segments, path, n, q)
           P == {n \in 0 .. N : Same(n)}
<1>3. Same(0)
  <2>1. \A q \in DOMAIN segments : q \in _recursive_closure(f[0], segments) <=> Passes(segments, 1, q)
    BY <1>2 DEF _recursive_closure, Passes
  <2> QED BY <2>1, LaidStart
<1>4. ASSUME NEW n \in 1 .. N, Same(n - 1) PROVE Same(n)
  <2> TAKE q \in DOMAIN segments
  <2>1. f[n] = Advance(f[n - 1], path[n], segments) /\ n \in 1 .. Len(path)
    BY <1>1, <1>2
  <2>2. q \in _recursive_closure(f[n], segments) <=>
          \E p \in _recursive_closure(f[n - 1], segments) :
            Fits(segments[p], path[n]) /\ Passes(segments, After(segments, p), q)
    BY <2>1, Advanced
  <2>3. Laid(segments, path, n, q) <=>
          \E p \in DOMAIN segments : /\ Laid(segments, path, n - 1, p) /\ Fits(segments[p], path[n])
                                     /\ Passes(segments, After(segments, p), q)
    BY <1>1, <2>1, LaidNext
  <2>4. _recursive_closure(f[n - 1], segments) \subseteq DOMAIN segments
    BY DEF _recursive_closure
  <2> QED BY <1>4, <2>2, <2>3, <2>4
<1>5. P = 0 .. N
  <2>1. 0 \in P
    BY <1>1, <1>3
  <2>2. \A n \in 1 .. N : n - 1 \in P => n \in P
    BY <1>1, <1>4
  <2> HIDE DEF P
  <2>3. P \in SUBSET (0 .. N)
    BY DEF P
  <2> QED BY <1>1, <2>1, <2>2, <2>3, UpTo
<1>6. Same(N)
  <2>1. N \in 0 .. N
    BY <1>1
  <2> HIDE DEF Same
  <2> QED BY <2>1, <1>5
<1>7. Len(segments) \in _recursive_closure(f[N], segments) <=> Laid(segments, path, N, Len(segments))
  BY <1>1, <1>6
<1>8. Last(segments).deep \/ segment_matches(Last(path), Last(segments)) <=> Fits(segments[Len(segments)], path[Len(path)])
  BY DEF Last, segment_matches, Fits
<1> QED BY <1>2, <1>7, <1>8, LaidAligned

-----------------------------------------------------------------------------
(* Prefixes.                                                                 *)

Up(path, n) == SubSeq(path, 1, n)

LEMMA AppendFacts ==
  ASSUME NEW path \in Paths, NEW name \in STRING
  PROVE  /\ Append(path, name) \in Spelled /\ Len(Append(path, name)) = Len(path) + 1
         /\ Front(Append(path, name)) = path /\ Last(Append(path, name)) = name
         /\ Append(path, name)[Len(path) + 1] = name
         /\ \A k \in 1 .. Len(path) : Append(path, name)[k] = path[k]
<1> DEFINE a == Append(path, name)
<1>1. a \in Paths /\ Len(a) = Len(path) + 1 /\ Len(path) \in Nat /\ a[Len(path) + 1] = name
      /\ \A k \in 1 .. Len(path) : a[k] = path[k]
  <2>1. path \in Seq(STRING) /\ name \in STRING
    BY DEF Paths
  <2>2. Len(path) \in Nat
    BY <2>1
  <2>3. a \in Seq(STRING) /\ Len(a) = Len(path) + 1 /\ a[Len(path) + 1] = name
    BY <2>1, AppendProperties
  <2>4. \A k \in 1 .. Len(path) : a[k] = path[k]
    BY <2>1, AppendProperties
  <2> HIDE DEF a
  <2> QED BY <2>2, <2>3, <2>4 DEF Paths
<1>2. a # <<>>
  BY AppendProperties DEF Paths
<1> HIDE DEF a
<1>3. Front(a) = path
  <2>1. Len(a) - 1 = Len(path)
    BY <1>1
  <2>2. Front(a) = SubSeq(a, 1, Len(path))
    BY <2>1 DEF Front
  <2>3. a \in Seq(STRING)
    BY <1>1 DEF Paths
  <2>4. /\ SubSeq(a, 1, Len(path)) \in Seq(STRING) /\ Len(SubSeq(a, 1, Len(path))) = Len(path)
        /\ \A k \in 1 .. Len(path) : SubSeq(a, 1, Len(path))[k] = a[k]
    <3>1. Len(path) <= Len(a) /\ Len(a) \in Nat
      BY <1>1
    <3> QED BY <2>3, <3>1, <1>1, SubSeqProperties
  <2>5. path \in Seq(STRING)
    BY DEF Paths
  <2> QED BY <1>1, <2>2, <2>4, <2>5, SeqEqual
<1>4. Last(a) = name
  BY <1>1 DEF Last
<1> QED BY <1>1, <1>2, <1>3, <1>4 DEF a, Spelled, Root

LEMMA UpFacts ==
  ASSUME NEW path \in Paths, NEW n \in 0 .. Len(path)
  PROVE  /\ Up(path, n) \in Paths /\ Len(Up(path, n)) = n
         /\ \A k \in 1 .. n : Up(path, n)[k] = path[k]
<1>1. path \in Seq(STRING) /\ Len(path) \in Nat
  BY DEF Paths
<1>2. CASE n = 0
  <2>1. SubSeq(path, 1, 0) = <<>>
    BY <1>1
  <2> QED BY <1>2, <2>1 DEF Up, Paths
<1>3. CASE n \in 1 .. Len(path)
  <2>1. /\ SubSeq(path, 1, n) \in Seq(STRING) /\ Len(SubSeq(path, 1, n)) = n
        /\ \A k \in 1 .. n : SubSeq(path, 1, n)[k] = path[k]
    BY <1>1, <1>3, SubSeqProperties
  <2> QED BY <2>1 DEF Up, Paths
<1> QED BY <1>1, <1>2, <1>3

\* A path grows by a name at a time.
LEMMA UpSteps ==
  ASSUME NEW path \in Paths
  PROVE  /\ Up(path, 0) = Root /\ Up(path, Len(path)) = path
         /\ path # Root => Front(path) = Up(path, Len(path) - 1) /\ Last(path) = path[Len(path)]
         /\ \A n \in 1 .. Len(path) : Up(path, n) = Append(Up(path, n - 1), path[n]) /\ path[n] \in STRING
<1>1. path \in Seq(STRING) /\ Len(path) \in Nat /\ \A n \in 1 .. Len(path) : path[n] \in STRING
  BY DEF Paths
<1>2. Up(path, 0) = Root
  <2>1. Up(path, 0) \in Seq(STRING) /\ Len(Up(path, 0)) = 0
    BY <1>1, UpFacts DEF Paths
  <2> QED BY <2>1 DEF Root
<1>3. Up(path, Len(path)) = path
  <2>1. /\ Up(path, Len(path)) \in Seq(STRING) /\ Len(Up(path, Len(path))) = Len(path)
        /\ \A k \in 1 .. Len(path) : Up(path, Len(path))[k] = path[k]
    <3>1. Len(path) \in 0 .. Len(path)
      BY <1>1
    <3> QED BY <3>1, UpFacts DEF Paths
  <2> QED BY <1>1, <2>1, SeqEqual
<1>4. ASSUME NEW n \in 1 .. Len(path) PROVE Up(path, n) = Append(Up(path, n - 1), path[n])
  <2> DEFINE a == Append(Up(path, n - 1), path[n])
  <2>1. n \in 0 .. Len(path) /\ n - 1 \in 0 .. Len(path) /\ n - 1 \in Nat
    BY <1>1
  <2>2. Up(path, n) \in Seq(STRING) /\ Len(Up(path, n)) = n /\ \A k \in 1 .. n : Up(path, n)[k] = path[k]
    BY <2>1, UpFacts DEF Paths
  <2>3. Up(path, n - 1) \in Paths /\ Len(Up(path, n - 1)) = n - 1 /\ \A k \in 1 .. n - 1 : Up(path, n - 1)[k] = path[k]
    BY <2>1, UpFacts
  <2>4. /\ a \in Spelled /\ Len(a) = Len(Up(path, n - 1)) + 1 /\ a[Len(Up(path, n - 1)) + 1] = path[n]
        /\ \A k \in 1 .. Len(Up(path, n - 1)) : a[k] = Up(path, n - 1)[k]
    BY <1>1, <2>3, AppendFacts
  <2> HIDE DEF a
  <2>5. a \in Seq(STRING) /\ Len(a) = n /\ \A k \in 1 .. n : a[k] = path[k]
    <3>1. \A k \in 1 .. n : k = n \/ k \in 1 .. n - 1
      BY <2>1
    <3> QED BY <2>1, <2>3, <2>4, <3>1 DEF Spelled, Paths
  <2>6. Up(path, n) = a
    BY <2>1, <2>2, <2>5, SeqEqual
  <2> QED BY <2>6 DEF a
<1> QED BY <1>1, <1>2, <1>3, <1>4 DEF Front, Last, Up

-----------------------------------------------------------------------------
(* Where a path leads.                                                       *)

Trail(t, path, f) ==
  f = [n \in 0 .. Len(path) |-> IF n = 0 THEN Root ELSE Through(t, Append(f[n - 1], path[n]))]

LEMMA ThroughType ==
  ASSUME NEW t, IsTree(t), NEW place \in Paths
  PROVE  Through(t, place) \in Paths
BY DEF Through, At, IsTree, IsEntry, Dir, Absent, Paths

LEMMA RealTrail ==
  ASSUME NEW t, IsTree(t), NEW path \in Paths
  PROVE  \E f : /\ f \in [0 .. Len(path) -> Paths] /\ f[0] = Root
                /\ \A n \in 1 .. Len(path) : f[n] = Through(t, Append(f[n - 1], path[n]))
                /\ Real(t, path) = f[Len(path)]
<1> DEFINE N == Len(path)
           f == CHOOSE g : Trail(t, path, g)
           step == [x \in (1 .. N) \X Paths |-> Through(t, Append(x[2], path[x[1]]))]
<1>1. N \in Nat /\ Root \in Paths /\ \A n \in 1 .. N : path[n] \in STRING
  BY DEF Paths, Root
<1>2. ASSUME NEW n \in 1 .. N, NEW s \in Paths PROVE Through(t, Append(s, path[n])) \in Paths
  <2>1. Append(s, path[n]) \in Paths
    BY <1>1, AppendFacts DEF Spelled
  <2> QED BY <2>1, ThroughType
<1>3. /\ step \in [(1 .. N) \X Paths -> Paths]
      /\ \A n \in 1 .. N, s \in Paths : step[<<n, s>>] = Through(t, Append(s, path[n]))
  BY <1>2
<1> HIDE DEF step
<1>4. PICK g : Trace(Paths, Root, step, N, g)
  BY <1>1, <1>3, Iterated
<1>5. ASSUME NEW n \in 1 .. N PROVE g[n] = Through(t, Append(g[n - 1], path[n]))
  <2>1. g[n - 1] \in Paths /\ g[n] = step[<<n, g[n - 1]>>]
    BY <1>4 DEF Trace
  <2> QED BY <2>1, <1>3
<1>6. \A n \in 0 .. N : g[n] = IF n = 0 THEN Root ELSE Through(t, Append(g[n - 1], path[n]))
  <2> TAKE n \in 0 .. N
  <2>1. n = 0 \/ n \in 1 .. N
    BY <1>1
  <2>2. g[0] = Root
    BY <1>4 DEF Trace
  <2> QED BY <2>1, <2>2, <1>5
<1>7. g = [n \in 0 .. N |-> g[n]]
  BY <1>4 DEF Trace
<1>8. Trail(t, path, g)
  BY <1>6, <1>7 DEF Trail
<1>9. Trail(t, path, f)
  BY <1>8
<1>10. Real(t, path) = f[N]
  BY DEF Real, Trail
<1> HIDE DEF f
<1>11. \A n \in 0 .. N : f[n] = IF n = 0 THEN Root ELSE Through(t, Append(f[n - 1], path[n]))
  BY <1>9 DEF Trail
<1>12. f[0] = Root
  <2>1. 0 \in 0 .. N
    BY <1>1
  <2> QED BY <2>1, <1>11
<1>13. ASSUME NEW n \in 1 .. N PROVE f[n] = Through(t, Append(f[n - 1], path[n]))
  <2>1. n \in 0 .. N /\ n # 0
    BY <1>1
  <2> QED BY <2>1, <1>11, Zenon
<1> DEFINE P == {n \in 0 .. N : f[n] \in Paths}
<1>14. P = 0 .. N
  <2>1. 0 \in P
    BY <1>1, <1>12
  <2>2. ASSUME NEW n \in 1 .. N, n - 1 \in P PROVE n \in P
    BY <1>1, <1>2, <1>13, <2>2
  <2> HIDE DEF P
  <2>3. P \in SUBSET (0 .. N)
    BY DEF P
  <2> QED BY <1>1, <2>1, <2>2, <2>3, UpTo
<1>15. f \in [0 .. N -> Paths]
  <2>1. f = [n \in 0 .. N |-> f[n]]
    BY <1>9 DEF Trail
  <2> QED BY <2>1, <1>14
<1> QED BY <1>10, <1>12, <1>13, <1>15

\* A path is resolved a name at a time.
LEMMA RealSteps ==
  ASSUME NEW t, IsTree(t)
  PROVE  /\ Real(t, Root) = Root
         /\ \A path \in Paths : Real(t, path) \in Paths
         /\ \A path \in Paths, name \in STRING :
              Real(t, Append(path, name)) = Through(t, Append(Real(t, path), name))
<1>1. Real(t, Root) = Root
  <2>1. Root \in Paths /\ Len(Root) = 0
    BY DEF Root, Paths
  <2>2. PICK f : f[0] = Root /\ Real(t, Root) = f[Len(Root)]
    BY <2>1, RealTrail
  <2> QED BY <2>1, <2>2
<1>2. ASSUME NEW path \in Paths PROVE Real(t, path) \in Paths
  <2>1. PICK f : f \in [0 .. Len(path) -> Paths] /\ Real(t, path) = f[Len(path)]
    BY RealTrail
  <2>2. Len(path) \in 0 .. Len(path)
    BY DEF Paths
  <2> QED BY <2>1, <2>2
<1>3. ASSUME NEW path \in Paths, NEW name \in STRING
      PROVE  Real(t, Append(path, name)) = Through(t, Append(Real(t, path), name))
  <2> DEFINE a == Append(path, name)
             N == Len(path)
  <2>1. PICK f : /\ f[0] = Root /\ \A n \in 1 .. N : f[n] = Through(t, Append(f[n - 1], path[n]))
                 /\ Real(t, path) = f[N]
    BY RealTrail
  <2>2. a \in Paths /\ Len(a) = N + 1 /\ a[N + 1] = name /\ \A k \in 1 .. N : a[k] = path[k]
    BY AppendFacts DEF Spelled
  <2>3. N \in Nat
    BY DEF Paths
  <2> HIDE DEF a
  <2>4. PICK g : /\ g[0] = Root /\ \A n \in 1 .. N + 1 : g[n] = Through(t, Append(g[n - 1], a[n]))
                 /\ Real(t, a) = g[N + 1]
    <3>1. \E g : /\ g[0] = Root /\ \A n \in 1 .. Len(a) : g[n] = Through(t, Append(g[n - 1], a[n]))
                 /\ Real(t, a) = g[Len(a)]
      BY <2>2, RealTrail
    <3> QED BY <2>2, <3>1
  <2> DEFINE P == {n \in 0 .. N : f[n] = g[n]}
  <2>5. P = 0 .. N
    <3>1. 0 \in P
      BY <2>1, <2>3, <2>4
    <3>2. ASSUME NEW n \in 1 .. N, n - 1 \in P PROVE n \in P
      <4>1. n \in 1 .. N + 1 /\ n \in 0 .. N
        BY <2>3
      <4> QED BY <2>1, <2>2, <2>4, <3>2, <4>1
    <3> HIDE DEF P
    <3>3. P \in SUBSET (0 .. N)
      BY DEF P
    <3> QED BY <2>3, <3>1, <3>2, <3>3, UpTo
  <2>6. f[N] = g[N] /\ N + 1 \in 1 .. N + 1 /\ (N + 1) - 1 = N
    <3>1. N \in 0 .. N
      BY <2>3
    <3> QED BY <2>3, <2>5, <3>1
  <2>7. g[N + 1] = Through(t, Append(g[N], name))
    BY <2>2, <2>4, <2>6
  <2> QED BY <2>1, <2>4, <2>6, <2>7 DEF a
<1> QED BY <1>1, <1>2, <1>3

\* What is there has directories above it.
LEMMA AboveIsDir ==
  ASSUME NEW t, IsTree(t), WellFormed(t), NEW path \in Paths, NEW name \in STRING,
         At(t, Append(path, name)).kind # "absent"
  PROVE  At(t, path).kind = "dir"
<1> DEFINE a == Append(path, name)
<1>1. a \in Spelled /\ Len(a) = Len(path) + 1 /\ Front(a) = path
  BY AppendFacts
<1>2. CASE path = Root
  BY <1>2 DEF At, Dir
<1>3. CASE path # Root
  <2>1. Len(path) \in Nat /\ Len(path) # 0
    BY <1>3 DEF Root, Paths
  <2>2. Len(a) > 1
    BY <1>1, <2>1
  <2> HIDE DEF a
  <2>3. a # Root /\ At(t, a).kind # "absent"
    BY <1>1 DEF Spelled, a
  <2>4. a \in DOMAIN t /\ t[a].kind # "absent"
    BY <2>3 DEF At, Absent
  <2> QED BY <1>1, <2>2, <2>4 DEF WellFormed
<1> QED BY <1>2, <1>3

LEMMA DirsAbove ==
  ASSUME NEW t, IsTree(t), WellFormed(t), NEW path \in Paths, At(t, path).kind # "absent"
  PROVE  \A n \in 0 .. Len(path) - 1 : At(t, Up(path, n)).kind = "dir"
<1> DEFINE N == Len(path)
           P == {n \in 0 .. N : At(t, Up(path, N - n)).kind # "absent"}
<1>1. N \in Nat
  BY DEF Paths
<1>2. /\ Up(path, N) = path
      /\ \A n \in 1 .. N : Up(path, n) = Append(Up(path, n - 1), path[n]) /\ path[n] \in STRING
  BY UpSteps
<1>3. \A n \in 0 .. N : Up(path, n) \in Paths
  BY UpFacts
<1> HIDE DEF N
<1>4. ASSUME NEW n \in 1 .. N, At(t, Up(path, n)).kind # "absent" PROVE At(t, Up(path, n - 1)).kind = "dir"
  <2>1. Up(path, n) = Append(Up(path, n - 1), path[n]) /\ path[n] \in STRING
    BY <1>2
  <2>2. Up(path, n - 1) \in Paths
    BY <1>1, <1>3
  <2>3. At(t, Append(Up(path, n - 1), path[n])).kind # "absent"
    BY <1>4, <2>1
  <2> QED BY <2>1, <2>2, <2>3, AboveIsDir
<1>5. P = 0 .. N
  <2>1. 0 \in P
    BY <1>1, <1>2
  <2>2. ASSUME NEW n \in 1 .. N, n - 1 \in P PROVE n \in P
    <3>1. N - (n - 1) \in 1 .. N /\ (N - (n - 1)) - 1 = N - n /\ n \in 0 .. N
      BY <1>1
    <3>2. At(t, Up(path, N - n)).kind = "dir"
      BY <1>4, <2>2, <3>1
    <3> QED BY <3>1, <3>2
  <2> HIDE DEF P
  <2>3. P \in SUBSET (0 .. N)
    BY DEF P
  <2> QED BY <1>1, <2>1, <2>2, <2>3, UpTo
<1>6. ASSUME NEW n \in 0 .. N - 1 PROVE At(t, Up(path, n)).kind = "dir"
  <2>1. N - (n + 1) \in 0 .. N /\ N - (N - (n + 1)) = n + 1 /\ n + 1 \in 1 .. N /\ (n + 1) - 1 = n
    BY <1>1
  <2>2. At(t, Up(path, n + 1)).kind # "absent"
    BY <1>5, <2>1
  <2> QED BY <1>4, <2>1, <2>2
<1> QED BY <1>6 DEF N

\* A path through directories leads where it says, but for what its last name may be a
\* link to.
LEMMA RealThroughDirs ==
  ASSUME NEW t, IsTree(t), NEW path \in Spelled,
         \A n \in 0 .. Len(path) - 1 : At(t, Up(path, n)).kind = "dir"
  PROVE  /\ \A n \in 0 .. Len(path) - 1 : Real(t, Up(path, n)) = Up(path, n)
         /\ Real(t, path) = Through(t, path)
<1> DEFINE N == Len(path)
           P == {n \in 0 .. N - 1 : Real(t, Up(path, n)) = Up(path, n)}
<1>1. N \in Nat \ {0} /\ path \in Paths
  BY DEF Spelled, Paths, Root
<1>2. /\ Up(path, 0) = Root /\ Up(path, N) = path
      /\ \A n \in 1 .. N : Up(path, n) = Append(Up(path, n - 1), path[n]) /\ path[n] \in STRING
  BY <1>1, UpSteps
<1>3. \A n \in 0 .. N : Up(path, n) \in Paths
  BY <1>1, UpFacts
<1> HIDE DEF N
<1>4. ASSUME NEW n \in 1 .. N, Real(t, Up(path, n - 1)) = Up(path, n - 1)
      PROVE  Real(t, Up(path, n)) = Through(t, Up(path, n))
  <2>1. Up(path, n) = Append(Up(path, n - 1), path[n]) /\ path[n] \in STRING
    BY <1>2
  <2>2. Up(path, n - 1) \in Paths
    BY <1>1, <1>3
  <2>3. Real(t, Append(Up(path, n - 1), path[n])) = Through(t, Append(Real(t, Up(path, n - 1)), path[n]))
    BY <2>1, <2>2, RealSteps
  <2> QED BY <1>4, <2>1, <2>3
<1>5. P = 0 .. N - 1
  <2>1. 0 \in P
    BY <1>1, <1>2, RealSteps
  <2>2. ASSUME NEW n \in 1 .. N - 1, n - 1 \in P PROVE n \in P
    <3>1. Real(t, Up(path, n)) = Through(t, Up(path, n))
      BY <1>1, <1>4, <2>2
    <3>2. At(t, Up(path, n)).kind = "dir"
      BY <1>1 DEF N
    <3> QED BY <1>1, <3>1, <3>2 DEF Through
  <2> HIDE DEF P
  <2>3. P \in SUBSET (0 .. N - 1) /\ N - 1 \in Nat
    BY <1>1 DEF P
  <2> QED BY <2>1, <2>2, <2>3, UpTo
<1>6. N \in 1 .. N /\ N - 1 \in 0 .. N - 1
  BY <1>1
<1>7. Real(t, path) = Through(t, path)
  BY <1>2, <1>4, <1>5, <1>6
<1> QED BY <1>5, <1>7 DEF N

\* What is on the way to a document that a path names.
OnTheWay(t, path, n) == At(t, Append(Real(t, Up(path, n)), path[n + 1]))

LEMMA WayToFile ==
  ASSUME NEW t, IsTree(t), WellFormed(t), NEW path \in Spelled, IsFile(t, path), NEW n \in 0 .. Len(path) - 1
  PROVE  /\ IsDir(t, Up(path, n))
         /\ n + 1 < Len(path) => OnTheWay(t, path, n).kind \in {"dir", "link"} /\ IsDir(t, Up(path, n + 1))
         /\ n + 1 = Len(path) => OnTheWay(t, path, n).kind \in {"file", "link"}
<1> DEFINE N == Len(path)
           P == {k \in 0 .. N : Stat(t, Up(path, N - k)).kind # "absent" /\ (k > 0 => IsDir(t, Up(path, N - k)))}
<1>1. N \in Nat \ {0} /\ path \in Paths
  BY DEF Spelled, Paths, Root
<1>2. /\ Up(path, N) = path
      /\ \A k \in 1 .. N : Up(path, k) = Append(Up(path, k - 1), path[k]) /\ path[k] \in STRING
  BY <1>1, UpSteps
<1>3. \A k \in 0 .. N : Up(path, k) \in Paths /\ Real(t, Up(path, k)) \in Paths
  BY <1>1, UpFacts, RealSteps
<1>a. n \in 0 .. N - 1 /\ IsFile(t, Up(path, N))
  BY <1>2
<1> HIDE DEF N
<1>4. ASSUME NEW k \in 0 .. N - 1, Stat(t, Up(path, k + 1)).kind # "absent"
      PROVE  /\ IsDir(t, Up(path, k))
             /\ OnTheWay(t, path, k).kind = Stat(t, Up(path, k + 1)).kind \/ OnTheWay(t, path, k).kind = "link"
  <2> DEFINE place == Append(Real(t, Up(path, k)), path[k + 1])
  <2>1. k + 1 \in 1 .. N /\ (k + 1) - 1 = k /\ k \in 0 .. N
    BY <1>1
  <2>2. Real(t, Up(path, k + 1)) = Through(t, place)
    <3>1. Up(path, k + 1) = Append(Up(path, k), path[k + 1]) /\ path[k + 1] \in STRING /\ Up(path, k) \in Paths
      BY <1>2, <1>3, <2>1
    <3> QED BY <3>1, RealSteps
  <2>3. Stat(t, Up(path, k + 1)) = At(t, Through(t, place))
    BY <2>2 DEF Stat
  <2>4. CASE At(t, place).kind = "link"
    <3>1. At(t, Real(t, Up(path, k))).kind = "dir"
      BY <1>2, <1>3, <2>1, <2>4, AboveIsDir
    <3> QED BY <2>4, <3>1 DEF IsDir, Stat, OnTheWay
  <2>5. CASE At(t, place).kind # "link"
    <3>1. Stat(t, Up(path, k + 1)) = At(t, place)
      BY <2>3, <2>5 DEF Through
    <3>2. At(t, Real(t, Up(path, k))).kind = "dir"
      BY <1>2, <1>3, <1>4, <2>1, <3>1, AboveIsDir
    <3> QED BY <3>1, <3>2 DEF IsDir, Stat, OnTheWay
  <2> QED BY <2>4, <2>5
<1>5. P = 0 .. N
  <2>1. 0 \in P
    BY <1>1, <1>a DEF IsFile
  <2>2. ASSUME NEW k \in 1 .. N, k - 1 \in P PROVE k \in P
    <3>1. N - (k - 1) = (N - k) + 1 /\ N - k \in 0 .. N - 1 /\ k \in 0 .. N
      BY <1>1
    <3>2. IsDir(t, Up(path, N - k))
      BY <1>4, <2>2, <3>1
    <3> QED BY <3>1, <3>2 DEF IsDir
  <2> HIDE DEF P
  <2>3. P \in SUBSET (0 .. N)
    BY DEF P
  <2> QED BY <1>1, <2>1, <2>2, <2>3, UpTo
<1>6. ASSUME NEW k \in 0 .. N - 1 PROVE IsDir(t, Up(path, k))
  <2>1. N - k \in 0 .. N /\ N - k > 0 /\ N - (N - k) = k
    BY <1>1
  <2> QED BY <1>5, <2>1
<1>7. Stat(t, Up(path, n + 1)).kind # "absent"
  <2>1. CASE n + 1 = N
    BY <1>a, <2>1 DEF IsFile
  <2>2. CASE n + 1 < N
    <3>1. n + 1 \in 0 .. N - 1
      BY <1>1, <1>a, <2>2
    <3> QED BY <1>6, <3>1 DEF IsDir
  <2> QED BY <1>1, <1>a, <2>1, <2>2
<1>8. OnTheWay(t, path, n).kind = Stat(t, Up(path, n + 1)).kind \/ OnTheWay(t, path, n).kind = "link"
  BY <1>4, <1>7, <1>a
<1>9. n + 1 < N => IsDir(t, Up(path, n + 1))
  <2>1. n + 1 < N => n + 1 \in 0 .. N - 1
    BY <1>1, <1>a
  <2> QED BY <1>6, <2>1
<1> QED BY <1>6, <1>8, <1>9, <1>a DEF IsDir, IsFile, N

\* What no link leads to, nor to anything above it, is reached by its own path alone.
LEMMA OneWay ==
  ASSUME NEW t, IsTree(t), NEW path \in Paths, Unreached(t, path), NEW q \in Paths, Real(t, q) = path
  PROVE  q = path
<1> DEFINE N == Len(q)
           Away(p) == \E l \in DOMAIN t : t[l].kind = "link" /\ IsPrefix(t[l].to, p)
           P == {n \in 0 .. N : Real(t, Up(q, n)) = Up(q, n) \/ Away(Real(t, Up(q, n)))}
<1>1. N \in Nat
  BY DEF Paths
<1>2. /\ Up(q, 0) = Root /\ Up(q, N) = q
      /\ \A k \in 1 .. N : Up(q, k) = Append(Up(q, k - 1), q[k]) /\ q[k] \in STRING
  BY UpSteps
<1>3. \A k \in 0 .. N : Up(q, k) \in Paths /\ Real(t, Up(q, k)) \in Paths
  BY UpFacts, RealSteps
<1> HIDE DEF N
<1>4. ASSUME NEW s \in Paths, NEW p \in Paths, NEW name \in STRING, IsPrefix(s, p)
      PROVE  IsPrefix(s, Append(p, name)) /\ IsPrefix(s, s)
  <2>1. /\ Append(p, name) \in Paths /\ Len(Append(p, name)) = Len(p) + 1
        /\ \A k \in 1 .. Len(p) : Append(p, name)[k] = p[k]
    BY AppendFacts DEF Spelled
  <2>2. Len(s) \in Nat /\ Len(p) \in Nat /\ Len(s) <= Len(p) /\ Len(s) <= Len(Append(p, name))
    BY <1>4, <2>1 DEF Paths, IsPrefix
  <2>3. SubSeq(s, 1, Len(s)) = SubSeq(p, 1, Len(s))
    BY <1>4 DEF IsPrefix
  <2>4. SubSeq(p, 1, Len(s)) = SubSeq(Append(p, name), 1, Len(s))
    <3>1. Len(s) \in 0 .. Len(p) /\ Len(s) \in 0 .. Len(Append(p, name))
      BY <2>2
    <3>2. /\ Up(p, Len(s)) \in Seq(STRING) /\ Len(Up(p, Len(s))) = Len(s)
          /\ \A k \in 1 .. Len(s) : Up(p, Len(s))[k] = p[k]
      BY <3>1, UpFacts DEF Paths
    <3>3. /\ Up(Append(p, name), Len(s)) \in Seq(STRING) /\ Len(Up(Append(p, name), Len(s))) = Len(s)
          /\ \A k \in 1 .. Len(s) : Up(Append(p, name), Len(s))[k] = Append(p, name)[k]
      BY <2>1, <3>1, UpFacts DEF Paths
    <3>4. \A k \in 1 .. Len(s) : k \in 1 .. Len(p)
      BY <2>2
    <3>5. Up(p, Len(s)) = Up(Append(p, name), Len(s))
      BY <2>1, <3>2, <3>3, <3>4, SeqEqual
    <3> QED BY <3>5 DEF Up
  <2>5. SubSeq(s, 1, Len(s)) = SubSeq(Append(p, name), 1, Len(s))
    BY <2>3, <2>4, Zenon
  <2>6. IsPrefix(s, Append(p, name))
    BY <2>2, <2>5, Zenon DEF IsPrefix
  <2>7. IsPrefix(s, s)
    BY <2>2 DEF IsPrefix
  <2> QED BY <2>6, <2>7
<1>5. P = 0 .. N
  <2>1. 0 \in P
    BY <1>1, <1>2, RealSteps
  <2>2. ASSUME NEW n \in 1 .. N, n - 1 \in P PROVE n \in P
    <3> DEFINE before == Real(t, Up(q, n - 1))
               place == Append(before, q[n])
    <3>1. Up(q, n) = Append(Up(q, n - 1), q[n]) /\ q[n] \in STRING /\ Up(q, n - 1) \in Paths /\ before \in Paths
          /\ n \in 0 .. N
      BY <1>1, <1>2, <1>3
    <3>a. Real(t, Append(Up(q, n - 1), q[n])) = Through(t, Append(Real(t, Up(q, n - 1)), q[n]))
      BY <3>1, RealSteps
    <3>2. Real(t, Up(q, n)) = Through(t, place)
      BY <3>1, <3>a
    <3>3. before = Up(q, n - 1) \/ Away(before)
      BY <2>2
    <3>4. CASE At(t, place).kind = "link"
      <4>1. place \in DOMAIN t /\ Real(t, Up(q, n)) = t[place].to /\ t[place].kind = "link"
        BY <3>2, <3>4 DEF At, Through, Dir, Absent
      <4>2. t[place].to \in Paths
        BY <4>1 DEF IsTree, IsEntry, Paths
      <4>3. IsPrefix(t[place].to, t[place].to)
        BY <4>2 DEF IsPrefix, Paths
      <4> HIDE DEF place
      <4> QED BY <3>1, <4>1, <4>3
    <3>5. CASE At(t, place).kind # "link"
      <4>1. Real(t, Up(q, n)) = place
        BY <3>2, <3>5 DEF Through
      <4>2. CASE before = Up(q, n - 1)
        BY <3>1, <4>1, <4>2
      <4>3. CASE Away(before)
        <5>1. PICK l \in DOMAIN t : t[l].kind = "link" /\ IsPrefix(t[l].to, before)
          BY <4>3
        <5>2. t[l].to \in Paths
          BY <5>1 DEF IsTree, IsEntry, Paths
        <5> HIDE DEF before
        <5>3. IsPrefix(t[l].to, place)
          BY <1>4, <3>1, <5>1, <5>2
        <5> HIDE DEF place
        <5> QED BY <3>1, <4>1, <5>1, <5>3
      <4> QED BY <3>3, <4>2, <4>3
    <3> QED BY <3>4, <3>5
  <2> HIDE DEF P
  <2>3. P \in SUBSET (0 .. N)
    BY DEF P
  <2> QED BY <1>1, <2>1, <2>2, <2>3, UpTo
<1>6. Real(t, q) = q \/ Away(Real(t, q))
  <2>1. N \in 0 .. N
    BY <1>1
  <2> QED BY <1>2, <1>5, <2>1
<1> QED BY <1>6 DEF Unreached

-----------------------------------------------------------------------------
(* Sets in an order.                                                         *)

\* The members of a finite set, each once, in any order.
LEMMA Enumerated ==
  ASSUME NEW V, NEW S \in SUBSET V, IsFiniteSet(S), NEW f \in SetToSeqs(S)
  PROVE  f \in Seq(V) /\ Members(f) = S /\ Distinct(f)
<1> DEFINE n == Cardinality(S)
<1>1. n \in Nat
  BY FS_CardinalityType
<1>2. f \in [1 .. n -> S] /\ \A i, j \in 1 .. n : i # j => f[i] # f[j]
  BY DEF SetToSeqs
<1> HIDE DEF n
<1>3. f \in Injection(1 .. n, S)
  BY <1>2 DEF Injection, IsInjective
<1>4. Cardinality(1 .. n) = n /\ IsFiniteSet(1 .. n)
  BY <1>1, FS_Interval
<1>5. f \in Surjection(1 .. n, S)
  BY <1>3, <1>4, FS_Injection DEF n
<1>6. f \in Seq(S) /\ DOMAIN f = 1 .. n
  BY <1>1, <1>2
<1>7. Members(f) = S
  BY <1>2, <1>5, <1>6 DEF Members, Surjection
<1>8. Distinct(f)
  BY <1>2, <1>6 DEF Distinct
<1>9. f \in Seq(V)
  BY <1>1, <1>2
<1> QED BY <1>7, <1>8, <1>9

LEMMA SetToSeqMembers ==
  ASSUME NEW V, NEW S \in SUBSET V, IsFiniteSet(S)
  PROVE  SetToSeq(S) \in Seq(V) /\ Members(SetToSeq(S)) = S /\ Distinct(SetToSeq(S))
<1> DEFINE n == Cardinality(S)
<1>1. n \in Nat /\ ExistsBijection(1 .. n, S)
  BY FS_CardinalityType
<1>2. PICK g : g \in Bijection(1 .. n, S)
  BY <1>1 DEF ExistsBijection
<1>3. g \in [1 .. n -> S] /\ IsInjective(g)
  BY <1>2 DEF Bijection, Injection
<1>4. SetToSeq(S) \in [1 .. n -> S] /\ IsInjective(SetToSeq(S))
  BY <1>3 DEF SetToSeq
<1>5. SetToSeq(S) \in SetToSeqs(S)
  BY <1>4 DEF SetToSeqs, IsInjective
<1> QED BY <1>5, Enumerated

\* What is in no listing of the spellings comes last, and nothing is lost.
LEMMA SortedMembers ==
  ASSUME NEW S \in SUBSET Spelled, IsFiniteSet(S)
  PROVE  Sorted(S) \in Seq(Spelled) /\ Members(Sorted(S)) = S /\ Distinct(Sorted(S))
<1> DEFINE a == Kept(Order, S)
           b == SetToSeq(S \ ToSet(Order))
<1>1. Order \in Seq(Spelled) /\ ~Repeats(Order)
  BY ProjectAssumption DEF Spelled, Paths
<1>2. Distinct(Order)
  BY <1>1 DEF Repeats, Distinct
<1>3. a \in Seq(Spelled) /\ Members(a) = Members(Order) \cap S /\ Distinct(a)
  BY <1>1, <1>2, KeptMembers
<1>4. IsFiniteSet(S \ ToSet(Order)) /\ S \ ToSet(Order) \in SUBSET Spelled
  BY FS_Subset
<1>5. b \in Seq(Spelled) /\ Members(b) = S \ ToSet(Order) /\ Distinct(b)
  BY <1>4, SetToSeqMembers
<1>6. Members(Order) = ToSet(Order)
  BY DEF Members, ToSet
<1>7. Sorted(S) = a \o b
  BY DEF Sorted
<1> HIDE DEF a, b
<1>8. Members(a) \cap Members(b) = {}
  BY <1>3, <1>5, <1>6
<1>9. Members(a \o b) = Members(a) \cup Members(b) /\ Distinct(a \o b)
  BY <1>3, <1>5, <1>8, ConcatMembers
<1>10. a \o b \in Seq(Spelled)
  BY <1>3, <1>5
<1> QED BY <1>3, <1>5, <1>6, <1>7, <1>9, <1>10

\* What a function is of the members of a finite set is finite.
LEMMA FiniteImage ==
  ASSUME NEW S, IsFiniteSet(S), NEW f
  PROVE  IsFiniteSet({f[x] : x \in S})
<1> DEFINE T == {f[x] : x \in S}
           g == [x \in S |-> f[x]]
<1>1. g \in Surjection(S, T)
  BY DEF Surjection
<1> QED BY <1>1, FS_Surjection

-----------------------------------------------------------------------------
(* The trees.                                                                *)

Tree(t) == IsTree(t) /\ WellFormed(t) /\ \A p \in DOMAIN t : Headed(t[p])

\* A change where there is a directory leaves a tree a tree.
LEMMA PutKeepsTree ==
  ASSUME NEW t, Tree(t), NEW place \in Spelled, NEW entry, IsEntry(entry), Headed(entry),
         At(t, Front(place)).kind = "dir"
  PROVE  Tree(Put(t, place, entry))
<1> DEFINE u == Put(t, place, entry)
<1>1. DOMAIN u = DOMAIN t
  BY DEF Put
<1>2. \A p \in DOMAIN t : u[p] = IF p = place THEN entry
                                 ELSE IF IsStrictPrefix(place, p) THEN Absent ELSE t[p]
  BY DEF Put
<1>3. DOMAIN t \subseteq Spelled /\ Absent.kind = "absent" /\ IsEntry(Absent) /\ Headed(Absent)
  BY DEF Tree, IsTree, IsEntry, Headed, Absent, Spelled, Paths
<1> HIDE DEF u
<1>4. \A p \in DOMAIN t : IsEntry(u[p]) /\ Headed(u[p])
  <2> TAKE p \in DOMAIN t
  <2>1. IsEntry(t[p]) /\ Headed(t[p])
    BY DEF Tree, IsTree
  <2>2. u[p] = entry \/ u[p] = Absent \/ u[p] = t[p]
    BY <1>2
  <2> QED BY <1>3, <2>1, <2>2
<1>5. IsTree(u)
  BY <1>1, <1>4 DEF Tree, IsTree
<1>6. ASSUME NEW p \in DOMAIN t, u[p].kind # "absent", Len(p) > 1
      PROVE  At(u, Front(p)).kind = "dir"
  <2> DEFINE above == Front(p)
  <2>1. p \in Paths /\ p # Root /\ Len(p) \in Nat
    BY <1>3 DEF Spelled, Paths
  <2>2. above = Up(p, Len(p) - 1)
    BY <2>1, UpSteps
  <2>3. Len(p) - 1 \in 0 .. Len(p)
    BY <1>6, <2>1
  <2>4. above \in Paths /\ Len(above) = Len(p) - 1 /\ \A k \in 1 .. Len(p) - 1 : above[k] = p[k]
    BY <2>1, <2>2, <2>3, UpFacts
  <2>5. above # Root
    BY <1>6, <2>1, <2>4 DEF Root
  <2> HIDE DEF above
  <2>6. At(t, above).kind = "dir" /\ (p # place => ~IsStrictPrefix(place, p))
    <3>1. CASE p = place
      BY <3>1 DEF above
    <3>2. CASE p # place
      <4>1. ~IsStrictPrefix(place, p) /\ u[p] = t[p]
        BY <1>2, <1>3, <1>6, <3>2
      <4>2. WellFormed(t)
        BY DEF Tree
      <4> QED BY <1>6, <4>1, <4>2 DEF WellFormed, above
    <3> QED BY <3>1, <3>2
  <2>7. above \in DOMAIN t /\ t[above].kind = "dir"
    BY <2>5, <2>6 DEF At, Absent
  <2>8. ASSUME IsPrefix(place, above) PROVE FALSE
    <3>1. Len(place) \in Nat /\ Len(place) <= Len(above) /\ SubSeq(place, 1, Len(place)) = SubSeq(above, 1, Len(place))
      BY <2>8 DEF IsPrefix, Spelled, Paths
    <3>2. Len(place) \in 0 .. Len(above) /\ Len(place) \in 0 .. Len(p)
      BY <2>1, <2>3, <2>4, <3>1
    <3>3. /\ Up(above, Len(place)) \in Seq(STRING) /\ Len(Up(above, Len(place))) = Len(place)
          /\ \A k \in 1 .. Len(place) : Up(above, Len(place))[k] = above[k]
      BY <2>4, <3>2, UpFacts DEF Paths
    <3>4. /\ Up(p, Len(place)) \in Seq(STRING) /\ Len(Up(p, Len(place))) = Len(place)
          /\ \A k \in 1 .. Len(place) : Up(p, Len(place))[k] = p[k]
      BY <2>1, <3>2, UpFacts DEF Paths
    <3>5. \A k \in 1 .. Len(place) : k \in 1 .. Len(p) - 1
      BY <2>1, <2>4, <3>1
    <3>6. Up(above, Len(place)) = Up(p, Len(place))
      BY <2>4, <3>3, <3>4, <3>5, SeqEqual
    <3>7. SubSeq(place, 1, Len(place)) = SubSeq(p, 1, Len(place))
      BY <3>1, <3>6, Zenon DEF Up
    <3>8. Len(place) <= Len(p)
      BY <3>2
    <3>9. IsPrefix(place, p)
      BY <3>7, <3>8, Zenon DEF IsPrefix
    <3>10. p # place
      BY <2>1, <2>4, <3>1
    <3> QED BY <2>6, <3>9, <3>10, Zenon DEF IsStrictPrefix
  <2>9. place # above
    <3>1. place = above => IsPrefix(place, above)
      BY DEF IsPrefix, Spelled, Paths
    <3> QED BY <2>8, <3>1
  <2>10. u[above] = t[above]
    BY <1>2, <2>7, <2>8, <2>9, Zenon DEF IsStrictPrefix
  <2> QED BY <1>1, <2>5, <2>7, <2>10 DEF At, above
<1>7. WellFormed(u)
  BY <1>1, <1>6 DEF WellFormed
<1> QED BY <1>1, <1>4, <1>5, <1>7 DEF Tree, u

-----------------------------------------------------------------------------
(* Types.                                                                    *)

Entry == [name : STRING, kind : {"absent", "dir", "special", "file", "link"}]
FrameType ==
  {f \in [prefix : Paths, index : Nat, read : BOOLEAN, entries : SUBSET Entry] : IsFiniteSet(f.entries)}
RefusalType == [kind : {"symlink-directory", "no-match"}, spelling : Paths]
WalkType ==
  {w \in [selectors : Seq(Selector), pending : Seq(FrameType), visited : SUBSET (Paths \X Nat),
          found : SUBSET Spelled, matched : SUBSET Spelled, refusals : SUBSET RefusalType,
          strict : BOOLEAN, exclusions : SUBSET Selector] :
     IsFiniteSet(w.found) /\ IsFiniteSet(w.matched)}

TreeInv ==
  /\ tree \in trees /\ \A t \in trees : Tree(t)
  /\ \A e \in edits.may : e.place \in Spelled /\ IsEntry(e.entry) /\ Headed(e.entry)

WalkInv ==
  /\ walk \in WalkType
  /\ pc = "walk" => /\ walk.selectors # <<>>
                    /\ \A k \in DOMAIN walk.pending : walk.pending[k].index \in DOMAIN Head(walk.selectors)

LEMMA ListingType ==
  ASSUME NEW t, Tree(t), NEW place
  PROVE  Listing(t, place) \in SUBSET Entry /\ IsFiniteSet(Listing(t, place))
<1> DEFINE here == {q \in DOMAIN t : q # Root /\ Front(q) = place /\ Last(q) # Outside /\ t[q].kind # "absent"}
           f == [p \in here |-> [name |-> Last(p), kind |-> t[p].kind]]
<1>1. IsFiniteSet(here)
  <2>1. IsFiniteSet(DOMAIN t) /\ here \subseteq DOMAIN t
    BY DEF Tree, IsTree
  <2> QED BY <2>1, FS_Subset
<1>2. Listing(t, place) = {f[p] : p \in here}
  BY DEF Listing
<1>3. ASSUME NEW p \in here PROVE f[p] \in Entry
  <2>1. p \in Paths /\ p # Root /\ IsEntry(t[p])
    BY DEF Tree, IsTree, Paths
  <2>2. Last(p) \in STRING
    <3>1. Last(p) = p[Len(p)] /\ Len(p) \in 1 .. Len(p)
      BY <2>1, UpSteps DEF Paths, Root
    <3> QED BY <2>1, <3>1 DEF Paths
  <2>3. t[p].kind \in {"absent", "dir", "special", "file", "link"}
    BY <2>1 DEF IsEntry
  <2>4. f[p] = [name |-> Last(p), kind |-> t[p].kind]
    OBVIOUS
  <2> HIDE DEF f
  <2> QED BY <2>2, <2>3, <2>4 DEF Entry
<1> HIDE DEF here, f
<1>4. IsFiniteSet({f[p] : p \in here})
  BY <1>1, FiniteImage
<1> QED BY <1>2, <1>3, <1>4

\* The frames that an expansion gives rise to: of the directories, one each.
Children(frame, entered, index) == {Frame(Append(frame.prefix, e.name), index) : e \in entered}

LEMMA ChildrenType ==
  ASSUME NEW frame \in FrameType, NEW entered \in SUBSET Entry, IsFiniteSet(entered), NEW index \in Nat
  PROVE  Children(frame, entered, index) \in SUBSET FrameType /\ IsFiniteSet(Children(frame, entered, index))
<1> DEFINE f == [e \in entered |-> Frame(Append(frame.prefix, e.name), index)]
<1>1. Children(frame, entered, index) = {f[e] : e \in entered}
  BY DEF Children
<1>2. ASSUME NEW e \in entered PROVE f[e] \in FrameType
  <2>1. e.name \in STRING /\ frame.prefix \in Paths
    BY DEF Entry, FrameType
  <2>2. Append(frame.prefix, e.name) \in Paths
    BY <2>1, AppendFacts DEF Spelled
  <2>3. IsFiniteSet({})
    BY FS_EmptySet
  <2>4. f[e] = Frame(Append(frame.prefix, e.name), index)
    OBVIOUS
  <2> HIDE DEF f
  <2>5. /\ f[e] \in [prefix : Paths, index : Nat, read : BOOLEAN, entries : SUBSET Entry]
        /\ f[e].entries = {}
    BY <2>2, <2>4 DEF Frame
  <2> QED BY <2>3, <2>5 DEF FrameType
<1> HIDE DEF f
<1>3. IsFiniteSet({f[e] : e \in entered})
  BY FiniteImage
<1> QED BY <1>1, <1>2, <1>3

\* The frames of an expansion are the directories entered, at the position they are
\* entered at, and the frame itself, handed on past a `**`.
LEMMA SpawnedFrames ==
  ASSUME NEW frame \in FrameType, NEW segment \in Segment, NEW entered \in SUBSET Entry, IsFiniteSet(entered),
         NEW last \in BOOLEAN, NEW entries \in SUBSET Entry, IsFiniteSet(entries),
         NEW spawned \in Spawned(frame, segment, entered, last, entries)
  PROVE  /\ spawned \in Seq(FrameType)
         /\ Members(spawned) =
              IF segment.deep
              THEN Children(frame, entered, frame.index) \cup (IF last THEN {} ELSE {Handoff(frame, entries)})
              ELSE Children(frame, entered, frame.index + 1)
<1>1. frame.index \in Nat /\ frame.index + 1 \in Nat
  BY DEF FrameType
<1>2. CASE ~segment.deep
  <2> DEFINE S == Children(frame, entered, frame.index + 1)
  <2>1. spawned \in SetToSeqs(S)
    BY <1>2 DEF Spawned, Children
  <2>2. S \in SUBSET FrameType /\ IsFiniteSet(S)
    BY <1>1, ChildrenType
  <2> HIDE DEF S
  <2>3. spawned \in Seq(FrameType) /\ Members(spawned) = S
    BY <2>1, <2>2, Enumerated
  <2> QED BY <1>2, <2>3 DEF S
<1>3. CASE segment.deep
  <2> DEFINE S == Children(frame, entered, frame.index)
             rest == IF last THEN <<>> ELSE <<Handoff(frame, entries)>>
  <2>1. PICK order \in SetToSeqs(S) : spawned = order \o rest
    BY <1>3 DEF Spawned, _recursive_frames, Children
  <2>2. S \in SUBSET FrameType /\ IsFiniteSet(S)
    BY <1>1, ChildrenType
  <2>3. Handoff(frame, entries) \in FrameType
    BY <1>1 DEF Handoff, FrameType
  <2>4. rest \in Seq(FrameType) /\ Members(rest) = IF last THEN {} ELSE {Handoff(frame, entries)}
    <3>1. CASE last
      BY <3>1 DEF Members
    <3>2. CASE ~last
      BY <2>3, <3>2 DEF Members
    <3> QED BY <3>1, <3>2
  <2> HIDE DEF S, rest
  <2>5. order \in Seq(FrameType) /\ Members(order) = S
    BY <2>2, Enumerated
  <2>6. Members(order \o rest) = Members(order) \cup Members(rest)
    BY <2>4, <2>5, ConcatMembers
  <2>7. spawned \in Seq(FrameType)
    BY <2>1, <2>4, <2>5
  <2>8. Members(spawned) = S \cup (IF last THEN {} ELSE {Handoff(frame, entries)})
    BY <2>1, <2>4, <2>5, <2>6
  <2> QED BY <1>3, <2>7, <2>8 DEF S
<1> QED BY <1>2, <1>3

\* What is left of a list when its first is done.
LEMMA TailMembers ==
  ASSUME NEW V, NEW s \in Seq(V), s # <<>>
  PROVE  /\ Head(s) \in V /\ Head(s) \in Members(s) /\ Tail(s) \in Seq(V)
         /\ Members(s) = {Head(s)} \cup Members(Tail(s))
         /\ Distinct(s) => Distinct(Tail(s)) /\ Head(s) \notin Members(Tail(s))
<1> DEFINE t == Tail(s)
<1>1. Len(s) \in Nat \ {0} /\ DOMAIN s = 1 .. Len(s) /\ Head(s) = s[1]
  OBVIOUS
<1>2. t \in Seq(V) /\ Len(t) = Len(s) - 1 /\ DOMAIN t = 1 .. Len(s) - 1 /\ \A k \in DOMAIN t : t[k] = s[k + 1]
  OBVIOUS
<1> HIDE DEF t
<1>3. 1 \in DOMAIN s /\ \A k \in DOMAIN s : k = 1 \/ (k - 1 \in DOMAIN t /\ (k - 1) + 1 = k)
  BY <1>1, <1>2
<1>4. \A k \in DOMAIN t : k + 1 \in DOMAIN s /\ k + 1 # 1
  BY <1>1, <1>2
<1>5. s[1] \in V
  BY <1>3
<1>6. Members(s) = {s[1]} \cup Members(t)
  <2>1. ASSUME NEW k \in DOMAIN s PROVE s[k] \in {s[1]} \cup Members(t)
    BY <1>2, <1>3 DEF Members
  <2>2. ASSUME NEW k \in DOMAIN t PROVE t[k] \in Members(s)
    BY <1>2, <1>4 DEF Members
  <2>3. s[1] \in Members(s)
    BY <1>3 DEF Members
  <2> QED BY <2>1, <2>2, <2>3 DEF Members
<1>7. ASSUME Distinct(s) PROVE Distinct(t) /\ s[1] \notin Members(t)
  <2>1. ASSUME NEW j \in DOMAIN t, NEW k \in DOMAIN t, t[j] = t[k] PROVE j = k
    <3>1. s[j + 1] = s[k + 1] /\ j + 1 \in DOMAIN s /\ k + 1 \in DOMAIN s
      BY <1>2, <1>4, <2>1
    <3>2. j + 1 = k + 1
      BY <1>7, <3>1 DEF Distinct
    <3> QED BY <1>2, <3>2
  <2>2. ASSUME NEW k \in DOMAIN t, t[k] = s[1] PROVE FALSE
    <3>1. s[k + 1] = s[1] /\ k + 1 \in DOMAIN s /\ k + 1 # 1
      BY <1>2, <1>4, <2>2
    <3> QED BY <1>3, <1>7, <3>1 DEF Distinct
  <2> QED BY <2>1, <2>2 DEF Distinct, Members
<1> QED BY <1>1, <1>2, <1>3, <1>5, <1>6, <1>7 DEF t, Members

LEMMA FrontMembers ==
  ASSUME NEW V, NEW s \in Seq(V), s # <<>>
  PROVE  /\ Last(s) \in V /\ Front(s) \in Seq(V) /\ Members(s) = Members(Front(s)) \cup {Last(s)}
<1> DEFINE t == SubSeq(s, 1, Len(s) - 1)
<1>1. Len(s) \in Nat \ {0} /\ DOMAIN s = 1 .. Len(s)
  OBVIOUS
<1>2. t \in Seq(V) /\ Len(t) = Len(s) - 1 /\ \A k \in 1 .. Len(s) - 1 : t[k] = s[k]
  <2>1. CASE Len(s) = 1
    <3>1. t = <<>>
      BY <2>1
    <3> QED BY <2>1, <3>1
  <2>2. CASE Len(s) > 1
    <3>1. 1 \in 1 .. Len(s) /\ Len(s) - 1 \in 1 .. Len(s)
      BY <1>1, <2>2
    <3> QED BY <1>1, <3>1, SubSeqProperties
  <2> QED BY <1>1, <2>1, <2>2
<1>3. Front(s) = t /\ Last(s) = s[Len(s)]
  BY DEF Front, Last
<1> HIDE DEF t
<1>4. DOMAIN t = 1 .. Len(s) - 1
  BY <1>1, <1>2
<1>5. \A k \in DOMAIN s : k = Len(s) \/ k \in DOMAIN t
  BY <1>1, <1>4
<1>6. \A k \in DOMAIN t : k \in DOMAIN s
  BY <1>1, <1>4
<1>7. Len(s) \in DOMAIN s
  BY <1>1
<1> QED BY <1>2, <1>3, <1>4, <1>5, <1>6, <1>7 DEF Members

-----------------------------------------------------------------------------
(* One step of the walk.                                                     *)

Top == Last(walk.pending)
Segments == Head(walk.selectors)
EntriesOf(frame) ==
  IF frame.read THEN frame.entries ELSE _retained(_scan(tree, frame.prefix), frame.prefix, walk.exclusions)

\* What expanding a frame adds to the walk.
Expansion(frame, segments, entries) ==
  LET segment == segments[frame.index]
      last == frame.index = Len(segments)
      candidates == Candidates(entries, segment)
      refused == Refused(tree, frame.prefix, candidates, segment, last, walk.strict)
      entered == Entered(candidates, segment, last)
  IN  /\ walk'.pending \in Seq(FrameType)
      /\ Members(walk'.pending) = Members(Front(walk.pending)) \cup
           IF segment.deep
           THEN Children(frame, entered, frame.index) \cup (IF last THEN {} ELSE {Handoff(frame, entries)})
           ELSE Children(frame, entered, frame.index + 1)
      /\ walk'.visited = walk.visited \cup {<<frame.prefix, frame.index>>}
      /\ walk'.found = walk.found \cup {Append(frame.prefix, e.name) : e \in Matches(candidates, refused, last)}
      /\ walk'.refusals = walk.refusals \cup
           {Refusal("symlink-directory", Append(frame.prefix, e.name)) : e \in refused}
      /\ walk' = [walk EXCEPT !.pending = walk'.pending, !.visited = walk'.visited, !.found = walk'.found,
                              !.refusals = walk'.refusals]

LEMMA EntriesType ==
  ASSUME TreeInv, WalkInv, NEW frame \in FrameType
  PROVE  EntriesOf(frame) \in SUBSET Entry /\ IsFiniteSet(EntriesOf(frame))
<1>1. CASE frame.read
  BY <1>1 DEF EntriesOf, FrameType
<1>2. CASE ~frame.read
  <2>1. _scan(tree, frame.prefix) \in SUBSET Entry /\ IsFiniteSet(_scan(tree, frame.prefix))
    BY ListingType DEF TreeInv, _scan
  <2>2. EntriesOf(frame) \subseteq _scan(tree, frame.prefix)
    BY <1>2 DEF EntriesOf, _retained
  <2> QED BY <2>1, <2>2, FS_Subset
<1> QED BY <1>1, <1>2

\* The frame that is next, and what the walk makes of it.
LEMMA ExpandFacts ==
  ASSUME TreeInv, WalkInv, Expand
  PROVE  /\ Top \in FrameType /\ Segments \in Selector /\ Top.index \in DOMAIN Segments
         /\ Segments[Top.index] \in Segment
         /\ EntriesOf(Top) \in SUBSET Entry /\ IsFiniteSet(EntriesOf(Top))
         /\ <<Top.prefix, Top.index>> \notin walk.visited
         /\ Expansion(Top, Segments, EntriesOf(Top))
<1>1. pc = "walk" /\ walk.pending # <<>> /\ walk.selectors # <<>>
  BY DEF Expand, WalkInv
<1>2. walk.pending \in Seq(FrameType) /\ walk.selectors \in Seq(Selector) /\ walk.strict \in BOOLEAN
  BY DEF WalkInv, WalkType
<1>3. Top \in FrameType /\ Segments \in Selector /\ Front(walk.pending) \in Seq(FrameType)
  BY <1>1, <1>2, FrontMembers DEF Top, Segments
<1>4. Top.index \in DOMAIN Segments
  <2>1. Len(walk.pending) \in DOMAIN walk.pending /\ Top = walk.pending[Len(walk.pending)]
    BY <1>1, <1>2 DEF Top, Last
  <2> QED BY <1>1, <2>1 DEF WalkInv, Segments
<1>5. Segments[Top.index] \in Segment
  BY <1>3, <1>4 DEF Selector
<1>6. EntriesOf(Top) \in SUBSET Entry /\ IsFiniteSet(EntriesOf(Top))
  BY <1>3, EntriesType
<1> DEFINE segment == Segments[Top.index]
           last == Top.index = Len(Segments)
           entries == EntriesOf(Top)
           candidates == Candidates(entries, segment)
           refused == Refused(tree, Top.prefix, candidates, segment, last, walk.strict)
           entered == Entered(candidates, segment, last)
           spelled(S) == {Append(Top.prefix, e.name) : e \in S}
<1>7. /\ <<Top.prefix, Top.index>> \notin walk.visited
      /\ \E spawned \in Spawned(Top, segment, entered, last, entries) :
           walk' = [walk EXCEPT !.pending = Front(walk.pending) \o spawned,
                                !.visited = walk.visited \cup {<<Top.prefix, Top.index>>},
                                !.found = walk.found \cup spelled(Matches(candidates, refused, last)),
                                !.refusals = walk.refusals \cup {Refusal("symlink-directory",
                                s) : s \in spelled(refused)}]
  BY DEF Expand, _walk, Top, Segments, EntriesOf
<1>8. candidates \subseteq entries /\ entered \subseteq candidates
  BY DEF Candidates, Entered
<1>9. entered \in SUBSET Entry /\ IsFiniteSet(entered)
  BY <1>6, <1>8, FS_Subset
<1>10. PICK spawned \in Spawned(Top, segment, entered, last, entries) :
           walk' = [walk EXCEPT !.pending = Front(walk.pending) \o spawned,
                                !.visited = walk.visited \cup {<<Top.prefix, Top.index>>},
                                !.found = walk.found \cup spelled(Matches(candidates, refused, last)),
                                !.refusals = walk.refusals \cup {Refusal("symlink-directory",
                                s) : s \in spelled(refused)}]
  BY <1>7
<1>a. {Refusal("symlink-directory", s) : s \in spelled(refused)} =
        {Refusal("symlink-directory", Append(Top.prefix, e.name)) : e \in refused}
  <2> DEFINE R == refused
  <2> HIDE DEF R
  <2>1. {Refusal("symlink-directory", s) : s \in spelled(R)} =
          {Refusal("symlink-directory", Append(Top.prefix, e.name)) : e \in R}
    BY Zenon
  <2> QED BY <2>1 DEF R
<1>c. last \in BOOLEAN
  OBVIOUS
<1> HIDE DEF segment, entries, entered, candidates, refused, last
<1>11. /\ spawned \in Seq(FrameType)
       /\ Members(spawned) =
            IF segment.deep
            THEN Children(Top, entered, Top.index) \cup (IF last THEN {} ELSE {Handoff(Top, entries)})
            ELSE Children(Top, entered, Top.index + 1)
  <2>1. segment \in Segment /\ entries \in SUBSET Entry /\ IsFiniteSet(entries) /\ last \in BOOLEAN
    BY <1>5, <1>6, <1>c DEF segment, entries
  <2> QED BY <1>3, <1>9, <2>1, SpawnedFrames
<1>12. Members(Front(walk.pending) \o spawned) = Members(Front(walk.pending)) \cup Members(spawned)
  BY <1>3, <1>11, ConcatMembers
<1>b. Front(walk.pending) \o spawned \in Seq(FrameType)
  BY <1>3, <1>11
<1>13. DOMAIN walk = {"selectors", "pending", "visited", "found", "matched", "refusals", "strict", "exclusions"}
  BY DEF WalkInv, WalkType
<1>14. /\ walk'.pending = Front(walk.pending) \o spawned
       /\ walk'.visited = walk.visited \cup {<<Top.prefix, Top.index>>}
       /\ walk'.found = walk.found \cup spelled(Matches(candidates, refused, last))
       /\ walk'.refusals = walk.refusals \cup {Refusal("symlink-directory", s) : s \in spelled(refused)}
  BY <1>10, <1>13
<1>15. walk' = [walk EXCEPT !.pending = walk'.pending, !.visited = walk'.visited, !.found = walk'.found,
                            !.refusals = walk'.refusals]
  BY <1>10, <1>14, Zenon
<1>16. Expansion(Top, Segments, entries)
  BY <1>11, <1>12, <1>14, <1>15, <1>a, <1>b DEF Expansion, segment, candidates, refused, entered, last
<1> QED BY <1>3, <1>4, <1>5, <1>6, <1>7, <1>16 DEF entries

LEMMA RefusalTyped ==
  ASSUME NEW s \in Paths
  PROVE  Refusal("symlink-directory", s) \in RefusalType /\ Refusal("no-match", s) \in RefusalType
BY DEF Refusal, RefusalType

LEMMA ExpandTyped ==
  ASSUME TreeInv, WalkInv, Expand
  PROVE  WalkInv'
<1>1. /\ Top \in FrameType /\ Segments \in Selector /\ Top.index \in DOMAIN Segments
      /\ Segments[Top.index] \in Segment /\ EntriesOf(Top) \in SUBSET Entry /\ IsFiniteSet(EntriesOf(Top))
      /\ Expansion(Top, Segments, EntriesOf(Top))
  BY ExpandFacts
<1>2. pc = "walk" /\ pc' = "walk" /\ walk.pending # <<>> /\ walk.selectors # <<>>
  BY DEF Expand, WalkInv
<1> DEFINE segment == Segments[Top.index]
           last == Top.index = Len(Segments)
           entries == EntriesOf(Top)
           candidates == Candidates(entries, segment)
           refused == Refused(tree, Top.prefix, candidates, segment, last, walk.strict)
           entered == Entered(candidates, segment, last)
           matches == Matches(candidates, refused, last)
           spelled(S) == {Append(Top.prefix, e.name) : e \in S}
           children == IF segment.deep
             THEN Children(Top, entered, Top.index) \cup (IF last THEN {} ELSE {Handoff(Top, entries)})
             ELSE Children(Top, entered, Top.index + 1)
<1>3. /\ walk'.pending \in Seq(FrameType)
      /\ Members(walk'.pending) = Members(Front(walk.pending)) \cup children
      /\ walk'.visited = walk.visited \cup {<<Top.prefix, Top.index>>}
      /\ walk'.found = walk.found \cup spelled(matches)
      /\ walk'.refusals = walk.refusals \cup {Refusal("symlink-directory", Append(Top.prefix, e.name)) : e \in refused}
      /\ walk' = [walk EXCEPT !.pending = walk'.pending, !.visited = walk'.visited, !.found = walk'.found,
                              !.refusals = walk'.refusals]
  BY <1>1 DEF Expansion
<1>4. candidates \subseteq entries /\ refused \subseteq candidates /\ entered \subseteq candidates /\ matches \subseteq candidates
  BY DEF Candidates, Refused, Entered, Matches
<1>a. entered # {} => segment.deep \/ ~last
  BY DEF Entered
<1>5. Top.prefix \in Paths /\ Top.index \in Nat /\ Top.index \in 1 .. Len(Segments) /\ Len(Segments) \in Nat
      /\ DOMAIN Segments = 1 .. Len(Segments)
  BY <1>1 DEF FrameType, Selector
<1>b. last <=> Top.index = Len(Segments)
  OBVIOUS
<1> HIDE DEF segment, last, entries, candidates, refused, entered, matches
<1>6. \A e \in candidates : Append(Top.prefix, e.name) \in Spelled
  <2> TAKE e \in candidates
  <2>1. e.name \in STRING
    BY <1>1, <1>4 DEF Entry, entries
  <2> QED BY <1>5, <2>1, AppendFacts
<1>7. IsFiniteSet(matches)
  <2>1. matches \subseteq entries /\ IsFiniteSet(entries)
    BY <1>1, <1>4 DEF entries
  <2> QED BY <2>1, FS_Subset
<1>8. spelled(matches) \subseteq Spelled /\ IsFiniteSet(spelled(matches))
  <2> DEFINE f == [e \in matches |-> Append(Top.prefix, e.name)]
  <2>1. spelled(matches) = {f[e] : e \in matches}
    OBVIOUS
  <2> HIDE DEF f
  <2>2. IsFiniteSet({f[e] : e \in matches})
    BY <1>7, FiniteImage
  <2>3. spelled(matches) \subseteq Spelled
    BY <1>4, <1>6
  <2> QED BY <2>1, <2>2, <2>3
<1>9. {Refusal("symlink-directory", Append(Top.prefix, e.name)) : e \in refused} \subseteq RefusalType
  <2>1. ASSUME NEW e \in refused PROVE Refusal("symlink-directory", Append(Top.prefix, e.name)) \in RefusalType
    <3>1. Append(Top.prefix, e.name) \in Paths
      BY <1>4, <1>6 DEF Spelled
    <3> QED BY <3>1, RefusalTyped
  <2> QED BY <2>1
<1>10. walk \in WalkType
  BY DEF WalkInv
<1>11. walk'.found \subseteq Spelled /\ IsFiniteSet(walk'.found)
  <2>1. walk.found \subseteq Spelled /\ IsFiniteSet(walk.found)
    BY <1>10 DEF WalkType
  <2>2. IsFiniteSet(walk.found \cup spelled(matches))
    BY <1>8, <2>1, FS_Union
  <2> QED BY <1>3, <1>8, <2>1, <2>2
<1>12. walk'.visited \subseteq Paths \X Nat /\ walk'.refusals \subseteq RefusalType
  BY <1>3, <1>5, <1>9, <1>10 DEF WalkType
<1>13. walk' \in WalkType
  BY <1>3, <1>10, <1>11, <1>12 DEF WalkType
<1>14. walk'.selectors = walk.selectors
  BY <1>3, <1>10 DEF WalkType
<1>15. \A f \in Members(walk'.pending) : f.index \in DOMAIN Segments
  <2>1. walk.pending \in Seq(FrameType)
    BY <1>10 DEF WalkType
  <2>2. Members(walk.pending) = Members(Front(walk.pending)) \cup {Top}
    BY <1>2, <2>1, FrontMembers DEF Top
  <2>3. \A f \in Members(Front(walk.pending)) : f.index \in DOMAIN Segments
    BY <1>2, <2>2 DEF WalkInv, Members, Segments
  <2>4. ASSUME NEW f \in children PROVE f.index \in DOMAIN Segments
    <3>1. CASE segment.deep /\ f \in Children(Top, entered, Top.index)
      BY <1>1, <3>1 DEF Children, Frame
    <3>2. CASE segment.deep /\ ~last /\ f = Handoff(Top, entries)
      <4>1. f.index = Top.index + 1
        <5>1. DOMAIN Top = {"prefix", "index", "read", "entries"}
          BY <1>1 DEF FrameType
        <5> QED BY <3>2, <5>1 DEF Handoff
      <4> QED BY <1>5, <1>b, <3>2, <4>1
    <3>3. CASE ~segment.deep /\ f \in Children(Top, entered, Top.index + 1)
      <4>1. f.index = Top.index + 1 /\ entered # {}
        BY <3>3 DEF Children, Frame
      <4> QED BY <1>5, <1>a, <1>b, <3>3, <4>1
    <3> QED BY <2>4, <3>1, <3>2, <3>3
  <2> QED BY <1>3, <2>3, <2>4
<1>16. \A k \in DOMAIN walk'.pending : walk'.pending[k].index \in DOMAIN Head(walk'.selectors)
  BY <1>14, <1>15 DEF Members, Segments
<1> QED BY <1>2, <1>13, <1>14, <1>16 DEF WalkInv

LEMMA NextSelectorTyped ==
  ASSUME WalkInv, NEW after, after # "walk", NextSelector(after)
  PROVE  WalkInv'
<1> DEFINE more == Tail(walk.selectors)
           unmatched == IF walk.found = {} THEN {Refusal("no-match", Root)} ELSE {}
<1>1. /\ pc = "walk" /\ walk.pending = <<>>
      /\ walk' = [walk EXCEPT !.selectors = more, !.visited = {}, !.found = {},
                              !.matched = walk.matched \cup walk.found,
                              !.refusals = walk.refusals \cup unmatched,
                              !.pending = IF more = <<>> THEN <<>> ELSE <<Frame(Root, 1)>>]
      /\ pc' = "walk" => more # <<>>
  BY DEF NextSelector
<1>2. walk \in WalkType /\ walk.selectors # <<>>
  BY <1>1 DEF WalkInv
<1>3. more \in Seq(Selector) /\ (more # <<>> => Head(more) \in Selector)
  <2>1. walk.selectors \in Seq(Selector)
    BY <1>2 DEF WalkType
  <2> QED BY <1>2, <2>1
<1>4. unmatched \subseteq RefusalType
  <2>1. Root \in Paths
    BY DEF Root, Paths
  <2>2. Refusal("no-match", Root) \in RefusalType
    BY <2>1, RefusalTyped
  <2> QED BY <2>2
<1>5. Frame(Root, 1) \in FrameType /\ Frame(Root, 1).index = 1
  <2>1. IsFiniteSet({})
    BY FS_EmptySet
  <2>2. Frame(Root, 1) \in [prefix : Paths, index : Nat, read : BOOLEAN, entries : SUBSET Entry] /\ Frame(Root,
  1).entries = {}
    BY DEF Frame, Root, Paths
  <2> QED BY <2>1, <2>2 DEF Frame, FrameType
<1>6. IsFiniteSet(walk.matched \cup walk.found) /\ walk.matched \cup walk.found \subseteq Spelled
  <2>1. IsFiniteSet(walk.matched) /\ IsFiniteSet(walk.found) /\ walk.matched \cup walk.found \subseteq Spelled
    BY <1>2 DEF WalkType
  <2> QED BY <2>1, FS_Union
<1>7. IsFiniteSet({})
  BY FS_EmptySet
<1> DEFINE pending == IF more = <<>> THEN <<>> ELSE <<Frame(Root, 1)>>
<1>8. pending \in Seq(FrameType) /\ (more # <<>> => pending = <<Frame(Root, 1)>>)
  BY <1>5
<1>9. /\ walk'.selectors = more /\ walk'.pending = pending
      /\ walk' \in WalkType
  <2> HIDE DEF more, pending, unmatched
  <2>1. walk' = [walk EXCEPT !.selectors = more, !.visited = {}, !.found = {},
                              !.matched = walk.matched \cup walk.found,
                              !.refusals = walk.refusals \cup unmatched,
                              !.pending = pending]
    BY <1>1 DEF more, pending, unmatched
  <2>2. walk.refusals \cup unmatched \subseteq RefusalType
    BY <1>2, <1>4 DEF WalkType
  <2> QED BY <1>2, <1>3, <1>6, <1>7, <1>8, <2>1, <2>2 DEF WalkType
<1>10. pc' = "walk" => walk'.selectors # <<>> /\ 1 \in DOMAIN Head(walk'.selectors)
  <2>1. ASSUME more # <<>> PROVE 1 \in DOMAIN Head(more)
    <3> DEFINE h == Head(more)
    <3>1. h \in Selector
      BY <1>3, <2>1
    <3> HIDE DEF h
    <3>2. 1 \in DOMAIN h
      BY <3>1 DEF Selector
    <3> QED BY <3>2 DEF h
  <2> QED BY <1>1, <1>9, <2>1
<1> HIDE DEF more
<1>11. pc' = "walk" => \A k \in DOMAIN walk'.pending : walk'.pending[k].index = 1
  BY <1>1, <1>5, <1>8, <1>9
<1> QED BY <1>9, <1>10, <1>11 DEF WalkInv

LEMMA WalkTyped ==
  ASSUME TreeInv, WalkInv, NEW after, after # "walk", WalkStep(after)
  PROVE  WalkInv'
<1>1. CASE Skip
  <2>1. walk.pending # <<>> /\ walk' = [walk EXCEPT !.pending = Front(walk.pending)] /\ pc' = pc /\ pc = "walk"
    BY <1>1 DEF Skip
  <2>2. walk \in WalkType /\ walk.pending \in Seq(FrameType)
    BY DEF WalkInv, WalkType
  <2>3. Front(walk.pending) \in Seq(FrameType) /\ Members(walk.pending) = Members(Front(walk.pending)) \cup {Last(walk.pending)}
    BY <2>1, <2>2, FrontMembers
  <2>4. walk' \in WalkType /\ walk'.selectors = walk.selectors /\ walk'.pending = Front(walk.pending)
    BY <2>1, <2>2, <2>3 DEF WalkType
  <2>5. \A f \in Members(walk'.pending) : f.index \in DOMAIN Head(walk.selectors)
    <3> TAKE f \in Members(walk'.pending)
    <3>1. f \in Members(walk.pending)
      BY <2>3, <2>4
    <3>2. PICK k \in DOMAIN walk.pending : f = walk.pending[k]
      BY <3>1 DEF Members
    <3> QED BY <2>1, <3>2 DEF WalkInv
  <2> QED BY <2>1, <2>4, <2>5 DEF WalkInv, Members
<1>2. CASE CannotScan
  BY <1>2 DEF CannotScan, WalkInv
<1>3. CASE Expand
  BY <1>3, ExpandTyped
<1>4. CASE NextSelector(after)
  BY <1>4, NextSelectorTyped
<1> QED BY <1>1, <1>2, <1>3, <1>4 DEF WalkStep

-----------------------------------------------------------------------------
(* What a load reads.                                                        *)

RecordType == [path : Spelled, id : STRING]
LinkType == [scope : STRING, plain : BOOLEAN, path : Paths, fragment : STRING]
Registrations == [path : Spelled, target : Paths, manifest : Paths, id : STRING]
Identity == [target : Paths, path : Spelled]

\* What a file that a path leads to has written in it.
LEMMA TextFacts ==
  ASSUME NEW t, Tree(t), NEW path, IsFile(t, path)
  PROVE  /\ Text(t, path).records \in Seq(RecordType) /\ Text(t, path).links \in Seq(LinkType)
         /\ Text(t, path).head \in Heads
<1> DEFINE place == Real(t, path)
<1>1. At(t, place).kind = "file" /\ Text(t, path) = At(t, place).text
  BY DEF IsFile, Stat, Text
<1>2. place \in DOMAIN t /\ At(t, place) = t[place]
  BY <1>1 DEF At, Dir, Absent
<1> HIDE DEF place
<1>3. IsEntry(t[place]) /\ Headed(t[place]) /\ t[place].kind = "file"
  BY <1>1, <1>2 DEF Tree, IsTree
<1> QED BY <1>1, <1>2, <1>3 DEF IsEntry, Headed, RecordType, LinkType, Spelled, Paths

\* The records of a manifest that can be read.
LEMMA ManifestFacts ==
  ASSUME NEW t, Tree(t), NEW declared \in Paths, _read_manifest(t, declared)
  PROVE  LET found == parse_manifest_bytes(t, Text(t, declared), declared)
         IN  /\ found \in Seq(Registrations)
             /\ \A k \in DOMAIN found : Contained(found[k].target)
<1> DEFINE read == Text(t, declared).records
           found == parse_manifest_bytes(t, Text(t, declared), declared)
<1>1. IsFile(t, declared) /\ \A i \in DOMAIN read : _validate_record(t, read[i])
  BY DEF _read_manifest, _resolve_regular_file
<1>2. read \in Seq(RecordType)
  BY <1>1, TextFacts
<1>3. found = [i \in DOMAIN read |-> Registration(t, read[i], declared)]
  BY DEF parse_manifest_bytes
<1> HIDE DEF read, found
<1>4. ASSUME NEW i \in DOMAIN read
      PROVE  /\ Registration(t, read[i], declared) \in Registrations
             /\ Contained(Registration(t, read[i], declared).target)
  <2>1. read[i] \in RecordType
    BY <1>2
  <2>2. read[i].path \in Spelled /\ read[i].path \in Paths /\ read[i].id \in STRING
    BY <2>1 DEF RecordType, Spelled
  <2>3. Real(t, read[i].path) \in Paths
    BY <2>2, RealSteps DEF Tree
  <2>4. Contained(Real(t, read[i].path))
    BY <1>1 DEF _validate_record, _resolve_regular_file, safe_resolve
  <2> QED BY <2>2, <2>3, <2>4 DEF Registration, Registrations
<1>5. DOMAIN read = 1 .. Len(read) /\ Len(read) \in Nat
  BY <1>2
<1>6. found \in [1 .. Len(read) -> Registrations]
  BY <1>3, <1>4, <1>5
<1>7. found \in Seq(Registrations)
  BY <1>5, <1>6
<1>8. \A k \in DOMAIN found : Contained(found[k].target)
  BY <1>3, <1>4
<1> QED BY <1>7, <1>8 DEF found

\* What is under a root, and the documents among it.
LEMMA WalkedFacts ==
  ASSUME NEW t, Tree(t), NEW root \in Paths, NEW globs
  PROVE  /\ Found(t, root, globs) \in SUBSET Spelled /\ IsFiniteSet(Found(t, root, globs))
         /\ \A p \in Found(t, root, globs) : At(t, p).kind # "absent" /\ IsFile(t, p)
<1>1. Found(t, root, globs) \subseteq Walked(t, root) /\ \A p \in Found(t, root, globs) : IsFile(t, p)
  BY DEF Found
<1>2. CASE At(t, root).kind = "dir"
  <2>1. Walked(t, root) \subseteq DOMAIN t /\ \A p \in Walked(t, root) : At(t, p).kind # "absent"
    BY <1>2 DEF Walked
  <2>2. DOMAIN t \subseteq Spelled /\ IsFiniteSet(DOMAIN t)
    BY DEF Tree, IsTree, Spelled, Paths
  <2>3. IsFiniteSet(Found(t, root, globs))
    <3>1. Found(t, root, globs) \subseteq DOMAIN t
      BY <1>1, <2>1
    <3> QED BY <2>2, <3>1, FS_Subset
  <2> QED BY <1>1, <2>1, <2>2, <2>3
<1>3. CASE At(t, root).kind # "dir"
  <2>1. Walked(t, root) \subseteq {root} /\ \A p \in Walked(t, root) : p \in Spelled /\ At(t, p).kind # "absent"
    BY <1>3 DEF Walked, IsMarkdown, Spelled
  <2>2. IsFiniteSet({root})
    BY FS_Singleton
  <2>3. Found(t, root, globs) \subseteq {root}
    BY <1>1, <2>1
  <2>4. IsFiniteSet(Found(t, root, globs))
    BY <2>2, <2>3, FS_Subset
  <2> QED BY <1>1, <2>1, <2>4
<1> QED BY <1>2, <1>3

\* Discovery finds each document under a root once, by one of its paths there.
LEMMA DiscoverFacts ==
  ASSUME NEW t, Tree(t), NEW root \in Paths, NEW globs
  PROVE  LET found == discover_doc_candidates(t, root, globs)
         IN  /\ IsFiniteSet(found)
             /\ \A c \in found : /\ c \in Identity /\ Contained(c.target)
                                 /\ c.path \in Found(t, root, globs) /\ Real(t, c.path) = c.target
             /\ \A c, d \in found : c.target = d.target => c = d
             /\ \A p \in Found(t, root, globs) : Contained(Real(t, p)) => \E c \in found : c.target = Real(t, p)
<1> DEFINE paths == {p \in Found(t, root, globs) : safe_resolve(t, p).ok}
           to(target) == {p \in paths : Real(t, p) = target}
           first(target) == Head(Sorted(to(target)))
           targets == {Real(t, p) : p \in paths}
           found == discover_doc_candidates(t, root, globs)
<1>1. found = {[target |-> target, path |-> first(target)] : target \in targets}
  BY DEF discover_doc_candidates
<1>2. Found(t, root, globs) \in SUBSET Spelled /\ IsFiniteSet(Found(t, root, globs))
  BY WalkedFacts
<1>3. paths \in SUBSET Spelled /\ IsFiniteSet(paths)
  <2>1. paths \subseteq Found(t, root, globs)
    OBVIOUS
  <2> QED BY <1>2, <2>1, FS_Subset
<1>4. \A p \in paths : p \in Found(t, root, globs) /\ Contained(Real(t, p))
  BY DEF safe_resolve
<1>5. \A p \in Found(t, root, globs) : Contained(Real(t, p)) => p \in paths
  BY DEF safe_resolve
<1>6. ASSUME NEW target \in targets PROVE first(target) \in to(target)
  <2> DEFINE S == to(target)
  <2>1. S # {} /\ S \subseteq paths
    OBVIOUS
  <2> HIDE DEF S
  <2>2. S \in SUBSET Spelled /\ IsFiniteSet(S)
    BY <1>3, <2>1, FS_Subset
  <2>3. Sorted(S) \in Seq(Spelled) /\ Members(Sorted(S)) = S
    BY <2>2, SortedMembers
  <2>4. Sorted(S) # <<>>
    BY <2>1, <2>3 DEF Members
  <2>5. Head(Sorted(S)) \in S
    BY <2>3, <2>4, TailMembers
  <2> QED BY <2>5 DEF S
<1>7. IsFiniteSet(targets)
  <2> DEFINE f == [p \in paths |-> Real(t, p)]
  <2>1. targets = {f[p] : p \in paths}
    OBVIOUS
  <2> HIDE DEF f, targets, paths
  <2> QED BY <1>3, <2>1, FiniteImage
<1> HIDE DEF paths, targets
<1>8. IsFiniteSet(found)
  <2> DEFINE f == [x \in targets |-> [target |-> x, path |-> first(x)]]
  <2>1. found = {f[x] : x \in targets}
    BY <1>1
  <2> HIDE DEF f, found, first
  <2> QED BY <1>7, <2>1, FiniteImage
<1>9. ASSUME NEW c \in found
      PROVE  /\ c \in Identity /\ Contained(c.target)
             /\ c.path \in Found(t, root, globs) /\ Real(t, c.path) = c.target
  <2>1. PICK target \in targets : c = [target |-> target, path |-> first(target)]
    BY <1>1
  <2>2. c.target = target /\ c.path = first(target)
    BY <2>1
  <2>3. c.path \in paths /\ Real(t, c.path) = target
    BY <1>6, <2>2
  <2> HIDE DEF first
  <2>4. c.path \in Spelled /\ Real(t, c.path) \in Paths
    <3>1. c.path \in Spelled /\ c.path \in Paths
      BY <1>3, <2>3 DEF Spelled
    <3> QED BY <3>1, RealSteps DEF Tree
  <2>5. c \in Identity
    BY <2>1, <2>2, <2>3, <2>4 DEF Identity
  <2> QED BY <1>4, <2>2, <2>3, <2>5
<1>10. \A c, d \in found : c.target = d.target => c = d
  <2> HIDE DEF first
  <2> TAKE c, d \in found
  <2>1. PICK x \in targets : c = [target |-> x, path |-> first(x)]
    BY <1>1
  <2>2. PICK y \in targets : d = [target |-> y, path |-> first(y)]
    BY <1>1
  <2> QED BY <2>1, <2>2
<1>11. ASSUME NEW p \in Found(t, root, globs), Contained(Real(t, p)) PROVE \E c \in found : c.target = Real(t, p)
  <2> HIDE DEF first
  <2>1. Real(t, p) \in targets
    BY <1>5, <1>11 DEF targets
  <2>2. [target |-> Real(t, p), path |-> first(Real(t, p))] \in found
    BY <1>1, <2>1
  <2> QED BY <2>2
<1> QED BY <1>8, <1>9, <1>10, <1>11 DEF found

\* Every document is taken in its turn, once.
LEMMA ListedMembers ==
  ASSUME NEW S \in SUBSET Identity, IsFiniteSet(S)
  PROVE  LET paths == Sorted({i.path : i \in S})
             listed == Joined([k \in DOMAIN paths |-> SetToSeq({i \in S : i.path = paths[k]})])
         IN  listed \in Seq(Identity) /\ Members(listed) = S /\ Distinct(listed)
<1> DEFINE P == {i.path : i \in S}
           paths == Sorted(P)
           at(k) == {i \in S : i.path = paths[k]}
           parts == [k \in DOMAIN paths |-> SetToSeq(at(k))]
<1>1. P \in SUBSET Spelled /\ IsFiniteSet(P)
  <2> DEFINE f == [i \in S |-> i.path]
  <2>1. P = {f[i] : i \in S} /\ P \subseteq Spelled
    BY DEF Identity
  <2> HIDE DEF f, P
  <2> QED BY <2>1, FiniteImage
<1> HIDE DEF P
<1>2. paths \in Seq(Spelled) /\ Members(paths) = P /\ Distinct(paths)
  BY <1>1, SortedMembers
<1> HIDE DEF paths
<1>3. ASSUME NEW k \in DOMAIN paths
      PROVE  parts[k] \in Seq(Identity) /\ Members(parts[k]) = at(k) /\ Distinct(parts[k])
  <2> DEFINE A == at(k)
  <2>1. A \in SUBSET Identity /\ IsFiniteSet(A)
    BY FS_Subset
  <2>2. parts[k] = SetToSeq(A)
    OBVIOUS
  <2> HIDE DEF A, parts
  <2>3. SetToSeq(A) \in Seq(Identity) /\ Members(SetToSeq(A)) = A /\ Distinct(SetToSeq(A))
    BY <2>1, SetToSeqMembers
  <2> QED BY <2>2, <2>3 DEF A
<1>4. DOMAIN parts = DOMAIN paths /\ DOMAIN paths = 1 .. Len(paths) /\ Len(paths) \in Nat
  BY <1>2
<1>5. parts \in Seq(Seq(Identity))
  <2>1. parts \in [1 .. Len(paths) -> Seq(Identity)]
    BY <1>3, <1>4
  <2> QED BY <1>4, <2>1
<1>6. \A i, j \in DOMAIN parts : i # j => Members(parts[i]) \cap Members(parts[j]) = {}
  <2> TAKE i, j \in DOMAIN parts
  <2> HAVE i # j
  <2>1. paths[i] # paths[j]
    BY <1>2, <1>4 DEF Distinct
  <2>2. at(i) \cap at(j) = {}
    BY <2>1
  <2> HIDE DEF parts, at
  <2> QED BY <1>3, <1>4, <2>2
<1>7. UNION {Members(parts[k]) : k \in DOMAIN parts} = S
  <2>1. ASSUME NEW i \in S PROVE \E k \in DOMAIN parts : i \in Members(parts[k])
    <3>1. i.path \in Members(paths)
      BY <1>2 DEF P
    <3>2. PICK k \in DOMAIN paths : i.path = paths[k]
      BY <3>1 DEF Members
    <3>3. i \in at(k)
      BY <3>2
    <3> HIDE DEF parts, at
    <3> QED BY <1>3, <1>4, <3>3
  <2>2. \A k \in DOMAIN parts : Members(parts[k]) \subseteq S
    <3> TAKE k \in DOMAIN parts
    <3>1. Members(parts[k]) = at(k)
      BY <1>3, <1>4
    <3> QED BY <3>1
  <2> QED BY <2>1, <2>2
<1>8. \A k \in DOMAIN parts : Distinct(parts[k])
  BY <1>3, <1>4
<1> HIDE DEF parts
<1>9. Joined(parts) \in Seq(Identity) /\ Members(Joined(parts)) = UNION {Members(parts[k]) : k \in DOMAIN parts}
  BY <1>5, JoinedMembers
<1>10. Distinct(Joined(parts))
  BY <1>5, <1>6, <1>8, JoinedMembers
<1> QED BY <1>7, <1>9, <1>10 DEF parts, paths, P

-----------------------------------------------------------------------------
(* The type invariant, with what every phase takes for granted.              *)

LoadPhases == {"manifests", "discover", "assemble", "cover", "inspect", "loaded"}
Checking == {"check", "open", "stat", "headings"}
LinkPhases == {"links", "judge", "sources", "reported"} \cup Checking

Settled == Valid(config) /\ \A k \in DOMAIN config.roots : Contained(config.roots[k])

ConfigInv ==
  /\ config \in Configs /\ (~config.legacy.declared => config.legacy.entries = <<>>)
  /\ \/ pc # "config" /\ Settled
     \/ pc \in {"config", "refused"} /\ problems = {} /\ verdicts = {}

PhaseInv ==
  /\ pc \in LoadPhases \cup LinkPhases \cup {"config", "walk", "refused"}
  /\ pc \in LoadPhases => walk.strict
  /\ pc \in LinkPhases => ~walk.strict

TodoInv ==
  /\ pc \in {"manifests", "discover"} => todo \in Seq(Paths)
  /\ pc = "assemble" => todo \in Seq(Identity)
  /\ pc \in {"inspect", "sources"} => todo \in Seq(Spelled)

EnrollInv ==
  /\ records \in Seq(Registrations) /\ OwnedOnce(records)
  /\ \A k \in DOMAIN records : Contained(records[k].target)
  /\ identities \in SUBSET Identity /\ IsFiniteSet(identities)
  /\ \A i \in identities : Contained(i.target)
  /\ \A i, j \in identities : i.target = j.target => i = j

SourceType == [path : Spelled, place : Paths]
LinkInv ==
  /\ sources \in Seq(SourceType)
  /\ DOMAIN held \in {{"path", "links"}, {"path", "links", "text"}}
  /\ held.path \in Paths /\ held.links \in Seq(LinkType)
  /\ held.links # <<>> => DOMAIN held = {"path", "links", "text"} /\ held.path \in Spelled
  /\ pc \in {"stat", "headings"} => held.links # <<>>
  /\ pc = "open" => sources # <<>> /\ held.links = <<>>

TypeInv == TreeInv /\ ConfigInv /\ PhaseInv /\ WalkInv /\ TodoInv /\ EnrollInv /\ LinkInv

LEMMA NoWalkType ==
  ASSUME NEW b \in BOOLEAN
  PROVE  [NoWalk EXCEPT !.strict = b] \in WalkType
<1>1. IsFiniteSet({})
  BY FS_EmptySet
<1>2. <<>> \in Seq(Selector) /\ <<>> \in Seq(FrameType)
  OBVIOUS
<1> QED BY <1>1, <1>2 DEF NoWalk, WalkType

LEMMA InitTyped == Init => TypeInv
<1> SUFFICES ASSUME Init PROVE TypeInv
  OBVIOUS
<1>1. PICK project \in Projects :
    /\ tree = project.tree /\ trees = {project.tree} /\ config = project.config
    /\ edits = [may |-> project.edits, made |-> 0]
    /\ pc = "config" /\ walk = [NoWalk EXCEPT !.strict = (project.command = "load")]
    /\ todo = <<>>
    /\ manifests = {} /\ records = <<>> /\ identities = {} /\ nodes = {}
    /\ warned = {} /\ problems = {}
    /\ sources = <<>> /\ legacy = {} /\ held = NothingHeld /\ memo = [p \in {} |-> Root] /\ verdicts = {}
  BY DEF Init
<1>2. /\ IsTree(project.tree) /\ WellFormed(project.tree)
      /\ \A p \in DOMAIN project.tree : Headed(project.tree[p])
      /\ project.config \in Configs
      /\ ~project.config.legacy.declared => project.config.legacy.entries = <<>>
      /\ \A e \in project.edits : e.place \in Spelled /\ IsEntry(e.entry) /\ Headed(e.entry)
  BY ProjectAssumption DEF Spelled, Paths
<1>3. TreeInv
  BY <1>1, <1>2 DEF TreeInv, Tree
<1>4. ConfigInv /\ PhaseInv /\ TodoInv
  BY <1>1, <1>2 DEF ConfigInv, PhaseInv, TodoInv, LoadPhases, LinkPhases, Checking
<1>5. WalkInv
  <2>1. (project.command = "load") \in BOOLEAN
    OBVIOUS
  <2> QED BY <1>1, <2>1, NoWalkType DEF WalkInv
<1>6. EnrollInv
  <2>1. IsFiniteSet({})
    BY FS_EmptySet
  <2> QED BY <1>1, <2>1 DEF EnrollInv, OwnedOnce
<1>7. LinkInv
  BY <1>1 DEF LinkInv, NothingHeld, Root, Paths
<1> QED BY <1>3, <1>4, <1>5, <1>6, <1>7 DEF TypeInv

\* Only an edit changes the tree.
LEMMA TreeSteps ==
  ASSUME TreeInv, [Next]_vars
  PROVE  TreeInv' /\ trees \subseteq trees'
<1>1. CASE Load
  <2>1. UNCHANGED <<tree, trees, edits>>
    BY <1>1 DEF Load, LoadStep, load_config, build_registration_index, Registered, Discover, Discovered, Acquire,
         AcquireRefused, _assemble, CoverageWalk, Judge, Inspect, enforce_coverage
  <2> QED BY <2>1 DEF TreeInv
<1>2. CASE CheckLinks
  <2>1. UNCHANGED <<tree, trees, edits>>
    BY <1>2 DEF CheckLinks, LinksStep, load_config, _require_link_sources, SourceWalk, Selected,
         select_link_sources, select_legacy_marker_sources, _link_message, _stat_mode, AskTarget, Said, check_links,
         ReadSource, Report
  <2> QED BY <2>1 DEF TreeInv
<1>3. CASE Edit
  <2>1. PICK e \in edits.may :
          At(tree, e.place) # e.entry /\ At(tree, Front(e.place)).kind = "dir" /\ tree' = Put(tree, e.place, e.entry)
    BY <1>3 DEF Edit
  <2>2. trees' = trees \cup {tree'} /\ edits'.may = edits.may
    BY <1>3 DEF Edit
  <2>3. Tree(tree) /\ e.place \in Spelled /\ IsEntry(e.entry) /\ Headed(e.entry)
    BY DEF TreeInv
  <2>4. Tree(tree')
    BY <2>1, <2>3, PutKeepsTree
  <2> QED BY <2>2, <2>4 DEF TreeInv
<1>4. CASE UNCHANGED vars
  BY <1>4 DEF vars, TreeInv
<1> QED BY <1>1, <1>2, <1>3, <1>4 DEF Next

-----------------------------------------------------------------------------
(* Every step keeps it.                                                      *)

Rest == ConfigInv /\ PhaseInv /\ WalkInv /\ TodoInv /\ EnrollInv /\ LinkInv

LEMMA ConfigShape ==
  ASSUME config \in Configs
  PROVE  /\ config.roots \in Seq(Paths) /\ config.manifests.entries \in Seq(Paths)
         /\ config.link_sources \in Seq(Seq(Segment)) /\ config.legacy.entries \in Seq(Seq(Segment))
         /\ config.coverage.select \in Seq(Seq(Segment)) /\ config.coverage.exclude \in Seq(Seq(Segment))
         /\ config.coverage.exempt \in Seq(Spelled)
BY DEF Configs, Selectors, Segment, Paths, Spelled

\* The selectors of a valid configuration are not empty.
LEMMA SettledSelectors ==
  ASSUME config \in Configs, Valid(config)
  PROVE  /\ config.link_sources \in Seq(Selector)
         /\ config.legacy.declared => config.legacy.entries \in Seq(Selector)
         /\ config.coverage.declared =>
              /\ config.coverage.select \in Seq(Selector) /\ config.coverage.select # <<>>
              /\ config.coverage.exclude \in Seq(Selector)
<1>1. ASSUME NEW s \in Seq(Seq(Segment)), \A k \in DOMAIN s : s[k] # <<>>
      PROVE  s \in Seq(Selector)
  <2>1. \A k \in DOMAIN s : s[k] \in Selector
    BY <1>1 DEF Selector
  <2>2. s \in [1 .. Len(s) -> Selector] /\ Len(s) \in Nat
    BY <1>1, <2>1
  <2> QED BY <2>2
<1>2. _validate_selectors(config.link_sources)
  BY DEF Valid
<1>3. config.legacy.declared => _validate_selectors(config.legacy.entries)
  BY DEF Valid, _validate_legacy_marker_sources
<1>4. config.coverage.declared => ValidCoverage(config.coverage)
  BY DEF Valid
<1>5. config.coverage.declared => config.coverage.select # <<>> /\ _validate_selectors(config.coverage.select)
  BY <1>4 DEF ValidCoverage, _validate_select
<1>6. config.coverage.declared => \A k \in DOMAIN config.coverage.exclude : config.coverage.exclude[k] # <<>>
  BY <1>4 DEF ValidCoverage, _validate_selector, validate_link_selector
<1>7. config.link_sources \in Seq(Selector)
  BY <1>1, <1>2, ConfigShape DEF _validate_selectors, validate_link_selector
<1>8. config.legacy.declared => config.legacy.entries \in Seq(Selector)
  BY <1>1, <1>3, ConfigShape DEF _validate_selectors, validate_link_selector
<1>9. config.coverage.declared => config.coverage.select \in Seq(Selector)
  BY <1>1, <1>5, ConfigShape DEF _validate_selectors, validate_link_selector
<1>10. config.coverage.declared => config.coverage.exclude \in Seq(Selector)
  BY <1>1, <1>6, ConfigShape
<1> QED BY <1>5, <1>7, <1>8, <1>9, <1>10

LEMMA LoadConfigTyped ==
  ASSUME TypeInv, NEW next, next = IF walk.strict THEN "manifests" ELSE "links",
         load_config(next), UNCHANGED links
  PROVE  Rest'
<1> USE DEF TypeInv
<1>1. /\ config' = [config EXCEPT !.roots = [i \in DOMAIN @ |-> Real(tree, @[i])]]
      /\ pc = "config" /\ UNCHANGED <<walk, records, identities, problems>>
      /\ UNCHANGED <<sources, held, verdicts>>
  BY DEF load_config, links
<1>2. /\ config'.roots = [i \in DOMAIN config.roots |-> Real(tree, config.roots[i])]
      /\ config'.ignored = config.ignored /\ config'.link_sources = config.link_sources
      /\ config'.manifests = config.manifests /\ config'.legacy = config.legacy /\ config'.coverage = config.coverage
  BY <1>1 DEF ConfigInv, Configs
<1>3. config' \in Configs
  <2>1. config.roots \in Seq(Paths)
    BY ConfigShape DEF ConfigInv
  <2>2. \A i \in DOMAIN config.roots : Real(tree, config.roots[i]) \in Paths
    BY <2>1, RealSteps DEF TreeInv, Tree
  <2>3. config'.roots \in [1 .. Len(config.roots) -> Paths] /\ Len(config.roots) \in Nat
    BY <1>2, <2>1, <2>2
  <2>4. config'.roots \in Seq(Seq(STRING))
    BY <2>3 DEF Paths
  <2> QED BY <1>1, <2>4 DEF ConfigInv, Configs
<1>4. Valid(config') <=> Valid(config)
  BY <1>2 DEF Valid
<1>5. _resolve_roots(tree, config.roots) => \A k \in DOMAIN config'.roots : Contained(config'.roots[k])
  BY <1>2 DEF _resolve_roots, safe_resolve
<1>6. CASE Valid(config) /\ _resolve_roots(tree, config.roots)
  <2>1. pc' = next /\ todo' = IF next = "manifests" THEN config.manifests.entries ELSE <<>>
    BY <1>6 DEF load_config
  <2>2. ConfigInv'
    BY <1>1, <1>2, <1>3, <1>4, <1>5, <1>6, <2>1 DEF ConfigInv, Settled
  <2>3. PhaseInv'
    BY <1>1, <2>1 DEF PhaseInv, LoadPhases, LinkPhases, Checking
  <2>4. WalkInv'
    BY <1>1, <2>1 DEF WalkInv
  <2>5. TodoInv'
    BY <2>1, ConfigShape DEF TodoInv, ConfigInv
  <2>6. EnrollInv' /\ LinkInv'
    BY <1>1, <2>1 DEF EnrollInv, LinkInv
  <2> QED BY <2>2, <2>3, <2>4, <2>5, <2>6 DEF Rest
<1>7. CASE ~(Valid(config) /\ _resolve_roots(tree, config.roots))
  <2>1. pc' = "refused"
    BY <1>7 DEF load_config
  <2>2. ConfigInv'
    BY <1>1, <1>2, <1>3, <2>1 DEF ConfigInv
  <2>3. PhaseInv' /\ WalkInv' /\ TodoInv'
    BY <1>1, <2>1 DEF PhaseInv, LoadPhases, LinkPhases, Checking, WalkInv, TodoInv
  <2>4. EnrollInv' /\ LinkInv'
    BY <1>1, <2>1 DEF EnrollInv, LinkInv
  <2> QED BY <2>2, <2>3, <2>4 DEF Rest
<1> QED BY <1>6, <1>7

\* What a step that keeps the configuration, and what the later phases hold, leaves to show.
LEMMA SameConfig ==
  ASSUME ConfigInv, config' = config, pc # "config", pc # "refused", pc' # "config"
  PROVE  ConfigInv'
BY DEF ConfigInv, Settled

LEMMA BuildTyped ==
  ASSUME TypeInv, build_registration_index, UNCHANGED links
  PROVE  Rest'
<1> USE DEF TypeInv
<1>1. /\ pc = "manifests" /\ todo # <<>> /\ UNCHANGED <<walk, config, identities, problems>>
      /\ UNCHANGED <<sources, held, verdicts>>
  BY DEF build_registration_index, links
<1>2. todo \in Seq(Paths)
  BY <1>1 DEF TodoInv
<1>3. Head(todo) \in Paths /\ Tail(todo) \in Seq(Paths)
  BY <1>1, <1>2, TailMembers
<1> DEFINE new == parse_manifest_bytes(tree, Text(tree, Head(todo)), Head(todo))
           found == records \o IF _read_manifest(tree, Head(todo)) THEN new ELSE <<>>
<1>4. CASE _read_manifest(tree, Head(todo)) /\ OwnedOnce(found)
  <2>1. records' = records \o new /\ todo' = Tail(todo) /\ pc' = pc
    BY <1>4 DEF build_registration_index
  <2>2. Tree(tree)
    BY DEF TreeInv
  <2>3. new \in Seq(Registrations) /\ \A k \in DOMAIN new : Contained(new[k].target)
    BY <1>3, <1>4, <2>2, ManifestFacts
  <2>4. OwnedOnce(records')
    BY <1>4, <2>1
  <2> HIDE DEF new, found
  <2>5. records \in Seq(Registrations) /\ \A k \in DOMAIN records : Contained(records[k].target)
    BY DEF EnrollInv
  <2>6. records' \in Seq(Registrations)
    BY <2>1, <2>3, <2>5
  <2>7. \A k \in DOMAIN records' : Contained(records'[k].target)
    <3> TAKE k \in DOMAIN records'
    <3>1. CASE k \in DOMAIN records
      <4>1. records'[k] = records[k]
        BY <2>1, <2>3, <2>5, <3>1
      <4> QED BY <2>5, <3>1, <4>1
    <3>2. CASE k \notin DOMAIN records
      <4>1. k - Len(records) \in DOMAIN new /\ records'[k] = new[k - Len(records)]
        BY <2>1, <2>3, <2>5, <3>2
      <4> QED BY <2>3, <4>1
    <3> QED BY <3>1, <3>2
  <2>8. EnrollInv'
    BY <1>1, <2>4, <2>6, <2>7 DEF EnrollInv
  <2>9. PhaseInv' /\ WalkInv' /\ TodoInv' /\ LinkInv'
    BY <1>1, <1>3, <2>1 DEF PhaseInv, WalkInv, TodoInv, LinkInv
  <2> QED BY <1>1, <2>1, <2>8, <2>9, SameConfig DEF Rest
<1>5. CASE ~(_read_manifest(tree, Head(todo)) /\ OwnedOnce(found))
  <2>1. UNCHANGED <<records, todo>> /\ pc' = "refused"
    BY <1>5 DEF build_registration_index
  <2>2. PhaseInv' /\ WalkInv' /\ TodoInv' /\ LinkInv' /\ EnrollInv'
    BY <1>1, <2>1 DEF PhaseInv, WalkInv, TodoInv, LinkInv, EnrollInv, LoadPhases, LinkPhases, Checking
  <2> QED BY <1>1, <2>1, <2>2, SameConfig DEF Rest
<1> QED BY <1>4, <1>5

LEMMA RegisteredTyped ==
  ASSUME TypeInv, Registered, UNCHANGED links
  PROVE  Rest'
<1> USE DEF TypeInv
<1>1. /\ pc = "manifests" /\ pc' = "discover" /\ UNCHANGED <<walk, config, records, problems>>
      /\ UNCHANGED <<sources, held, verdicts>> /\ todo' = config.roots
      /\ identities' = {[target |-> records[i].target, path |-> records[i].path] : i \in DOMAIN records}
  BY DEF Registered, links
<1>2. records \in Seq(Registrations) /\ OwnedOnce(records) /\ \A k \in DOMAIN records : Contained(records[k].target)
  BY DEF EnrollInv
<1>3. \A k \in DOMAIN records : records[k] \in Registrations
  BY <1>2
<1>4. IsFiniteSet(identities')
  <2> DEFINE f == [i \in DOMAIN records |-> [target |-> records[i].target, path |-> records[i].path]]
  <2>1. IsFiniteSet(DOMAIN records)
    <3>1. DOMAIN records = 1 .. Len(records) /\ Len(records) \in Nat
      BY <1>2
    <3> QED BY <3>1, FS_Interval
  <2>2. identities' = {f[i] : i \in DOMAIN records}
    BY <1>1
  <2> HIDE DEF f
  <2> QED BY <2>1, <2>2, FiniteImage
<1>5. /\ identities' \in SUBSET Identity /\ \A i \in identities' : Contained(i.target)
  BY <1>1, <1>2, <1>3 DEF Identity, Registrations
<1>6. \A i, j \in identities' : i.target = j.target => i = j
  <2> TAKE i, j \in identities'
  <2>1. PICK k \in DOMAIN records : i = [target |-> records[k].target, path |-> records[k].path]
    BY <1>1
  <2>2. PICK l \in DOMAIN records : j = [target |-> records[l].target, path |-> records[l].path]
    BY <1>1
  <2> QED BY <1>2, <2>1, <2>2 DEF OwnedOnce
<1>7. EnrollInv'
  BY <1>1, <1>4, <1>5, <1>6 DEF EnrollInv
<1>8. TodoInv'
  BY <1>1, ConfigShape DEF TodoInv, ConfigInv
<1>9. PhaseInv' /\ WalkInv' /\ LinkInv'
  BY <1>1 DEF PhaseInv, WalkInv, LinkInv, LoadPhases, LinkPhases, Checking
<1> QED BY <1>1, <1>7, <1>8, <1>9, SameConfig DEF Rest

LEMMA DiscoverTyped ==
  ASSUME TypeInv, Discover, UNCHANGED links
  PROVE  Rest'
<1> USE DEF TypeInv
<1> DEFINE root == Head(todo)
           found == discover_doc_candidates(tree, root, config.ignored)
           fresh == {c \in found : c.target \notin {i.target : i \in identities}}
<1>1. /\ pc = "discover" /\ todo # <<>> /\ pc' = pc /\ UNCHANGED <<walk, config, records, problems>>
      /\ UNCHANGED <<sources, held, verdicts>> /\ todo' = Tail(todo)
      /\ identities' = identities \cup fresh
  BY DEF Discover, links
<1>2. todo \in Seq(Paths)
  BY <1>1 DEF TodoInv
<1>3. root \in Paths /\ Tail(todo) \in Seq(Paths)
  BY <1>1, <1>2, TailMembers
<1>4. Tree(tree)
  BY DEF TreeInv
<1>5. /\ IsFiniteSet(found)
      /\ \A c \in found : c \in Identity /\ Contained(c.target)
      /\ \A c, d \in found : c.target = d.target => c = d
  BY <1>3, <1>4, DiscoverFacts
<1>6. IsFiniteSet(fresh)
  BY <1>5, FS_Subset
<1> HIDE DEF found, root
<1>7. EnrollInv'
  <2>1. IsFiniteSet(identities')
    BY <1>1, <1>6, FS_Union DEF EnrollInv
  <2>2. \A i \in identities' : i \in Identity /\ Contained(i.target)
    BY <1>1, <1>5 DEF EnrollInv
  <2>3. \A i, j \in identities' : i.target = j.target => i = j
    BY <1>1, <1>5 DEF EnrollInv
  <2> QED BY <1>1, <2>1, <2>2, <2>3 DEF EnrollInv
<1>8. PhaseInv' /\ WalkInv' /\ LinkInv' /\ TodoInv'
  BY <1>1, <1>3 DEF PhaseInv, WalkInv, LinkInv, TodoInv
<1> QED BY <1>1, <1>7, <1>8, SameConfig DEF Rest

LEMMA DiscoveredTyped ==
  ASSUME TypeInv, Discovered, UNCHANGED links
  PROVE  Rest'
<1> USE DEF TypeInv
<1>1. /\ pc = "discover" /\ pc' = "assemble" /\ UNCHANGED <<walk, config, records, identities, problems>>
      /\ UNCHANGED <<sources, held, verdicts>>
      /\ LET paths == Sorted({i.path : i \in identities})
         IN  todo' = Joined([k \in DOMAIN paths |-> SetToSeq({i \in identities : i.path = paths[k]})])
  BY DEF Discovered, links
<1>2. identities \in SUBSET Identity /\ IsFiniteSet(identities)
  BY DEF EnrollInv
<1>3. todo' \in Seq(Identity)
  BY <1>1, <1>2, ListedMembers
<1>4. PhaseInv' /\ WalkInv' /\ LinkInv' /\ TodoInv' /\ EnrollInv'
  BY <1>1, <1>3 DEF PhaseInv, WalkInv, LinkInv, TodoInv, EnrollInv, LoadPhases, LinkPhases, Checking
<1> QED BY <1>1, <1>4, SameConfig DEF Rest

LEMMA AssembleTyped ==
  ASSUME TypeInv, Acquire \/ AcquireRefused, UNCHANGED links
  PROVE  Rest'
<1> USE DEF TypeInv
<1>1. /\ pc = "assemble" /\ todo # <<>> /\ UNCHANGED <<walk, config, records, identities, problems>>
      /\ UNCHANGED <<sources, held, verdicts>>
      /\ \/ pc' = pc /\ todo' = Tail(todo)
         \/ pc' = "refused" /\ todo' = todo
  BY DEF Acquire, AcquireRefused, links
<1>2. todo \in Seq(Identity)
  BY <1>1 DEF TodoInv
<1>3. Tail(todo) \in Seq(Identity)
  BY <1>1, <1>2, TailMembers
<1>4. PhaseInv' /\ WalkInv' /\ LinkInv' /\ TodoInv' /\ EnrollInv'
  BY <1>1, <1>3 DEF PhaseInv, WalkInv, LinkInv, TodoInv, EnrollInv, LoadPhases, LinkPhases, Checking
<1> QED BY <1>1, <1>4, SameConfig DEF Rest

LEMMA SelectTyped ==
  ASSUME NEW selectors \in Seq(Selector), NEW strict \in BOOLEAN, NEW exclusions \in SUBSET Selector,
         select_paths(selectors, strict, exclusions, "refused")
  PROVE  WalkInv' /\ walk'.strict = strict /\ pc' \in {"refused", "walk"}
<1>1. Frame(Root, 1) \in FrameType
  <2>1. IsFiniteSet({})
    BY FS_EmptySet
  <2>2. Frame(Root, 1) \in [prefix : Paths, index : Nat, read : BOOLEAN, entries : SUBSET Entry] /\ Frame(Root,
  1).entries = {}
    BY DEF Frame, Root, Paths
  <2> QED BY <2>1, <2>2 DEF FrameType
<1>2. IsFiniteSet({})
  BY FS_EmptySet
<1>3. walk' = [selectors |-> selectors, pending |-> <<Frame(Root, 1)>>, visited |-> {}, found |-> {}, matched |-> {},
               refusals |-> {}, strict |-> strict, exclusions |-> exclusions]
  BY DEF select_paths, NoWalk
<1>4. walk' \in WalkType
  <2>1. <<Frame(Root, 1)>> \in Seq(FrameType)
    BY <1>1
  <2>2. walk' \in [selectors : Seq(Selector), pending : Seq(FrameType), visited : SUBSET (Paths \X Nat),
                   found : SUBSET Spelled, matched : SUBSET Spelled, refusals : SUBSET RefusalType,
                   strict : BOOLEAN, exclusions : SUBSET Selector]
    BY <1>3, <2>1
  <2>3. walk'.found = {} /\ walk'.matched = {}
    BY <1>3
  <2> QED BY <1>2, <2>2, <2>3 DEF WalkType
<1>5. pc' = IF selectors = <<>> THEN "refused" ELSE "walk"
  BY DEF select_paths
<1>6. ASSUME selectors # <<>>
      PROVE  \A k \in DOMAIN walk'.pending : walk'.pending[k].index \in DOMAIN Head(walk'.selectors)
  <2>1. Head(selectors) \in Selector
    BY <1>6, TailMembers
  <2>2. 1 \in DOMAIN Head(selectors)
    BY <2>1 DEF Selector
  <2> QED BY <1>3, <2>2 DEF Frame
<1> QED BY <1>3, <1>4, <1>5, <1>6 DEF WalkInv

LEMMA AssembledTyped ==
  ASSUME TypeInv, _assemble, UNCHANGED links
  PROVE  Rest'
<1> USE DEF TypeInv
<1>1. /\ pc = "assemble" /\ UNCHANGED <<todo, config, records, identities, problems>>
      /\ UNCHANGED <<sources, held, verdicts>>
      /\ \/ pc' \in {"refused", "loaded"} /\ walk' = walk
         \/ config.coverage.declared /\ select_paths(config.coverage.select, TRUE, ToSet(config.coverage.exclude), "refused")
  BY DEF _assemble, links
<1>2. /\ config.coverage.declared => /\ config.coverage.select \in Seq(Selector)
                                     /\ config.coverage.exclude \in Seq(Selector)
  <2>1. config \in Configs /\ Valid(config)
    BY <1>1 DEF ConfigInv, Settled
  <2> QED BY <2>1, SettledSelectors
<1>3. config.coverage.declared => ToSet(config.coverage.exclude) \in SUBSET Selector
  BY <1>2 DEF ToSet
<1>4. WalkInv' /\ (\/ pc' \in {"refused", "loaded"} /\ walk' = walk
                   \/ pc' \in {"refused", "walk"} /\ walk'.strict)
  <2>1. CASE pc' \in {"refused", "loaded"} /\ walk' = walk
    BY <2>1 DEF WalkInv
  <2>2. CASE config.coverage.declared /\ select_paths(config.coverage.select, TRUE, ToSet(config.coverage.exclude),
  "refused")
    <3> DEFINE sel == config.coverage.select
               exc == ToSet(config.coverage.exclude)
    <3>1. sel \in Seq(Selector) /\ exc \in SUBSET Selector /\ select_paths(sel, TRUE, exc, "refused")
      BY <1>2, <1>3, <2>2
    <3> HIDE DEF sel, exc
    <3> QED BY <3>1, SelectTyped
  <2> QED BY <1>1, <2>1, <2>2
<1>5. PhaseInv' /\ LinkInv' /\ TodoInv' /\ EnrollInv'
  BY <1>1, <1>4 DEF PhaseInv, LinkInv, TodoInv, EnrollInv, LoadPhases, LinkPhases, Checking
<1> QED BY <1>1, <1>4, <1>5, SameConfig DEF Rest

\* What a step of the walk leaves alone, and where it leads.
LEMMA WalkLeaves ==
  ASSUME WalkInv, NEW after, WalkStep(after)
  PROVE  /\ pc = "walk" /\ pc' \in {"walk", "refused", after}
         /\ walk'.strict = walk.strict /\ walk'.exclusions = walk.exclusions
<1> DEFINE Same == walk'.strict = walk.strict /\ walk'.exclusions = walk.exclusions
<1>1. ASSUME Skip PROVE Same /\ pc = "walk" /\ pc' = "walk"
  BY <1>1 DEF Skip, WalkInv, WalkType
<1>2. ASSUME CannotScan PROVE Same /\ pc = "walk" /\ pc' = "refused"
  BY <1>2 DEF CannotScan
<1>3. ASSUME Expand PROVE Same /\ pc = "walk" /\ pc' = "walk"
  BY <1>3 DEF Expand, _walk, WalkInv, WalkType
<1>4. ASSUME NextSelector(after) PROVE Same /\ pc = "walk" /\ pc' \in {"walk", "refused", after}
  BY <1>4 DEF NextSelector, WalkInv, WalkType
<1> QED BY <1>1, <1>2, <1>3, <1>4 DEF WalkStep

LEMMA WalksTyped ==
  ASSUME TypeInv, (CoverageWalk /\ UNCHANGED links) \/ SourceWalk
  PROVE  Rest'
<1> USE DEF TypeInv
<1>1. /\ UNCHANGED <<todo, config, records, identities, problems>>
      /\ UNCHANGED <<sources, held, verdicts>>
      /\ \/ walk.strict /\ WalkStep("cover")
         \/ ~walk.strict /\ WalkStep("judge")
  BY DEF CoverageWalk, SourceWalk, links, loading
<1>2. ASSUME NEW after \in {"cover", "judge"}, walk.strict <=> after = "cover", WalkStep(after)
      PROVE  Rest'
  <2>1. pc = "walk" /\ pc' \in {"walk", "refused", after} /\ walk'.strict = walk.strict
    BY <1>2, WalkLeaves
  <2>2. WalkInv'
    BY <1>2, WalkTyped
  <2>3. PhaseInv' /\ TodoInv' /\ EnrollInv' /\ LinkInv'
    BY <1>1, <1>2, <2>1 DEF PhaseInv, LoadPhases, LinkPhases, Checking, TodoInv, EnrollInv, LinkInv
  <2> QED BY <1>1, <2>1, <2>2, <2>3, SameConfig DEF Rest
<1> QED BY <1>1, <1>2 DEF WalkInv, WalkType

LEMMA JudgedTyped ==
  ASSUME TypeInv, (Judge /\ UNCHANGED links) \/ Selected
  PROVE  Rest'
<1> USE DEF TypeInv
<1>1. /\ UNCHANGED <<walk, config, records, identities>> /\ UNCHANGED <<sources, held, verdicts>>
      /\ \/ pc = "cover" /\ pc' = "inspect"
         \/ pc = "judge" /\ pc' = "sources"
      /\ todo' = Sorted(walk.matched)
  BY DEF Judge, Selected, links, loading
<1>2. walk.matched \in SUBSET Spelled /\ IsFiniteSet(walk.matched)
  BY DEF WalkInv, WalkType
<1>3. todo' \in Seq(Spelled)
  BY <1>1, <1>2, SortedMembers
<1>4. PhaseInv' /\ WalkInv' /\ TodoInv' /\ EnrollInv' /\ LinkInv'
  BY <1>1, <1>3 DEF PhaseInv, LoadPhases, LinkPhases, Checking, WalkInv, TodoInv, EnrollInv, LinkInv
<1> QED BY <1>1, <1>4, SameConfig DEF Rest

LEMMA InspectTyped ==
  ASSUME TypeInv, Inspect \/ enforce_coverage, UNCHANGED links
  PROVE  Rest'
<1> USE DEF TypeInv
<1>1. /\ UNCHANGED <<walk, config, records, identities>> /\ UNCHANGED <<sources, held, verdicts>>
      /\ pc = "inspect"
      /\ \/ todo # <<>> /\ pc' = pc /\ todo' = Tail(todo)
         \/ pc' \in {"loaded", "refused"} /\ UNCHANGED todo
  BY DEF Inspect, enforce_coverage, links
<1>2. todo \in Seq(Spelled)
  BY <1>1 DEF TodoInv
<1>3. todo # <<>> => Tail(todo) \in Seq(Spelled)
  BY <1>2, TailMembers
<1>4. PhaseInv' /\ WalkInv' /\ TodoInv' /\ EnrollInv' /\ LinkInv'
  BY <1>1, <1>2, <1>3 DEF PhaseInv, LoadPhases, LinkPhases, Checking, WalkInv, TodoInv, EnrollInv, LinkInv
<1> QED BY <1>1, <1>4, SameConfig DEF Rest

LEMMA RequireTyped ==
  ASSUME TypeInv, _require_link_sources
  PROVE  Rest'
<1> USE DEF TypeInv
<1>1. /\ pc = "links" /\ UNCHANGED <<config, records, identities, problems>> /\ UNCHANGED <<sources, held, verdicts>>
      /\ UNCHANGED todo /\ select_paths(config.link_sources, FALSE, {}, "refused")
  BY DEF _require_link_sources, links, loading
<1>2. config.link_sources \in Seq(Selector)
  <2>1. config \in Configs /\ Valid(config)
    BY <1>1 DEF ConfigInv, Settled
  <2> QED BY <2>1, SettledSelectors
<1>3. WalkInv' /\ ~walk'.strict /\ pc' \in {"refused", "walk"}
  <2> DEFINE sel == config.link_sources
  <2>1. sel \in Seq(Selector) /\ {} \in SUBSET Selector /\ select_paths(sel, FALSE, {}, "refused")
    BY <1>1, <1>2
  <2> HIDE DEF sel
  <2> QED BY <2>1, SelectTyped
<1>4. PhaseInv' /\ TodoInv' /\ EnrollInv' /\ LinkInv'
  BY <1>1, <1>3 DEF PhaseInv, LoadPhases, LinkPhases, Checking, TodoInv, EnrollInv, LinkInv
<1> QED BY <1>1, <1>3, <1>4, SameConfig DEF Rest

LEMMA SourcesTyped ==
  ASSUME TypeInv, select_link_sources \/ select_legacy_marker_sources
  PROVE  Rest'
<1> USE DEF TypeInv
<1>1. /\ UNCHANGED <<walk, config, records, identities, problems>> /\ UNCHANGED <<held, verdicts>>
      /\ pc = "sources" /\ pc' \in {"sources", "refused", "check"}
  BY DEF select_link_sources, select_legacy_marker_sources, links, loading
<1>2. todo \in Seq(Spelled)
  BY <1>1 DEF TodoInv
<1>3. sources' \in Seq(SourceType) /\ todo' \in Seq(Spelled)
  <2>1. CASE select_link_sources
    <3>1. todo # <<>>
      BY <2>1 DEF select_link_sources
    <3>2. Head(todo) \in Spelled /\ Tail(todo) \in Seq(Spelled)
      BY <1>2, <3>1, TailMembers
    <3>3. Real(tree, Head(todo)) \in Paths
      BY <3>2, RealSteps DEF TreeInv, Tree, Spelled
    <3>4. [path |-> Head(todo), place |-> Real(tree, Head(todo))] \in SourceType
      BY <3>2, <3>3 DEF SourceType
    <3>5. sources \in Seq(SourceType)
      BY DEF LinkInv
    <3>6. /\ sources' = sources \/ sources' = Append(sources, [path |-> Head(todo), place |-> Real(tree, Head(todo))])
          /\ todo' = todo \/ todo' = Tail(todo)
      BY <2>1 DEF select_link_sources
    <3>7. Append(sources, [path |-> Head(todo), place |-> Real(tree, Head(todo))]) \in Seq(SourceType)
      BY <3>4, <3>5
    <3> QED BY <1>2, <3>2, <3>5, <3>6, <3>7
  <2>2. CASE select_legacy_marker_sources
    BY <1>2, <2>2 DEF select_legacy_marker_sources, LinkInv
  <2> QED BY <2>1, <2>2
<1>4. PhaseInv' /\ WalkInv' /\ TodoInv' /\ EnrollInv' /\ LinkInv'
  BY <1>1, <1>3 DEF PhaseInv, LoadPhases, LinkPhases, Checking, WalkInv, TodoInv, EnrollInv, LinkInv
<1> QED BY <1>1, <1>4, SameConfig DEF Rest

\* A step over a link says something of it or goes on looking.
LEMMA LinkMoves ==
  ASSUME TypeInv, _link_message \/ _stat_mode \/ AskTarget
  PROVE  /\ UNCHANGED <<tree, trees, walk, todo, loading, sources, legacy>>
         /\ pc \in Checking /\ held.links # <<>>
         /\ \/ UNCHANGED <<held, verdicts>> /\ pc' \in {"stat", "headings", "refused"}
            \/ /\ \E why : verdicts' = verdicts \cup {Verdict(held.path, Asked, why)}
               /\ held' = [held EXCEPT !.links = Tail(@)] /\ pc' = "check"
<1>1. CASE _link_message
  <2>1. \/ Said("skipped") \/ Said(Answer(Fragment(Asked), held.path, memo', held.path))
        \/ Said("outside") \/ Said("symlink") \/ (pc' = "stat" /\ UNCHANGED <<held, verdicts>>)
    BY <1>1 DEF _link_message
  <2> QED BY <1>1, <2>1 DEF _link_message, Said, Checking
<1>2. CASE _stat_mode
  <2>1. Said("missing") \/ Said("resolves") \/ (pc' = "headings" /\ UNCHANGED <<held, verdicts>>)
    BY <1>2 DEF _stat_mode
  <2> QED BY <1>2, <2>1 DEF _stat_mode, Said, Checking, TypeInv, LinkInv
<1>3. CASE AskTarget
  <2>1. \/ Said(Answer(Fragment(Asked), Target.parts, memo', held.path))
        \/ (pc' = "refused" /\ UNCHANGED <<held, verdicts>>)
    BY <1>3 DEF AskTarget
  <2> QED BY <1>3, <2>1 DEF AskTarget, Said, Checking, TypeInv, LinkInv
<1> QED BY <1>1, <1>2, <1>3

\* A step over a document reports it, opens it, or ends the run.
LEMMA SourceMoves ==
  ASSUME TypeInv, check_links \/ ReadSource
  PROVE  /\ UNCHANGED <<tree, trees, walk, todo, loading, legacy, memo>>
         /\ pc \in {"check", "open"} /\ pc' \in {"check", "open", "refused"}
         /\ held.links = <<>> /\ sources # <<>> /\ sources \in Seq(SourceType)
         /\ \/ UNCHANGED <<held, sources, verdicts>> /\ pc' # "check"
            \/ /\ sources' = Tail(sources) /\ pc' = "check"
               /\ \E why : verdicts' = verdicts \cup {Verdict(Head(sources).path, NoLink, why)}
               /\ \/ held' = NothingHeld
                  \/ /\ IsFile(tree, Head(sources).path) /\ Text(tree, Head(sources).path).decodes
                     /\ held' = [path |-> Head(sources).path, links |-> Text(tree, Head(sources).path).links,
                                 text |-> Text(tree, Head(sources).path)]
<1>1. CASE check_links
  BY <1>1 DEF check_links, TypeInv, LinkInv
<1>2. CASE ReadSource
  <2> DEFINE path == Head(sources).path
             text == Text(tree, path)
  <2>1. /\ pc = "open" /\ UNCHANGED <<tree, trees, walk, todo, loading, legacy, memo>>
        /\ \/ pc' = "refused" /\ UNCHANGED <<held, sources, verdicts>>
           \/ /\ held' = IF SourceVerdict(text) = "unparseable" THEN NothingHeld
                         ELSE [path |-> path, links |-> text.links, text |-> text]
              /\ IsFile(tree, path)
              /\ verdicts' = verdicts \cup {Verdict(path, NoLink, SourceVerdict(text))}
              /\ sources' = Tail(sources) /\ pc' = "check"
    BY <1>2 DEF ReadSource
  <2>2. SourceVerdict(text) # "unparseable" => text.decodes
    BY DEF SourceVerdict
  <2>3. held.links = <<>> /\ sources # <<>> /\ sources \in Seq(SourceType)
    BY <2>1 DEF TypeInv, LinkInv
  <2> QED BY <2>1, <2>2, <2>3
<1> QED BY <1>1, <1>2

LEMMA CheckTyped ==
  ASSUME TypeInv, \/ _link_message \/ _stat_mode \/ AskTarget \/ check_links \/ ReadSource \/ Report
  PROVE  Rest'
<1> USE DEF TypeInv
<1>1. /\ UNCHANGED <<walk, todo, config, records, identities, problems>>
      /\ pc \in Checking /\ pc' \in Checking \cup {"refused", "reported"}
  BY LinkMoves, SourceMoves DEF Report, loading, Checking
<1>2. ASSUME check_links \/ ReadSource PROVE LinkInv'
  <2>1. sources # <<>> /\ sources \in Seq(SourceType) /\ held.links = <<>> /\ pc' \in {"check", "open", "refused"}
    BY <1>2, SourceMoves
  <2>2. Head(sources) \in SourceType /\ Tail(sources) \in Seq(SourceType)
    BY <2>1, TailMembers
  <2> DEFINE path == Head(sources).path
  <2>3. path \in Spelled
    BY <2>2 DEF SourceType
  <2>4. \/ UNCHANGED <<held, sources>>
        \/ sources' = Tail(sources) /\ pc' = "check" /\ held' = NothingHeld
        \/ /\ sources' = Tail(sources) /\ pc' = "check"
           /\ held' = [path |-> path, links |-> Text(tree, path).links, text |-> Text(tree, path)]
           /\ IsFile(tree, path)
    BY <1>2, SourceMoves
  <2>5. IsFile(tree, path) => Text(tree, path).links \in Seq(LinkType)
    BY TextFacts DEF TreeInv
  <2> HIDE DEF path
  <2>6. CASE UNCHANGED <<held, sources>>
    BY <2>1, <2>6 DEF LinkInv
  <2>7. CASE sources' = Tail(sources) /\ pc' = "check" /\ held' = NothingHeld
    BY <2>2, <2>7 DEF LinkInv, NothingHeld, Root, Paths
  <2>8. CASE /\ sources' = Tail(sources) /\ pc' = "check"
             /\ held' = [path |-> path, links |-> Text(tree, path).links, text |-> Text(tree, path)]
             /\ IsFile(tree, path)
    BY <2>2, <2>3, <2>5, <2>8 DEF LinkInv, Spelled
  <2> QED BY <2>4, <2>6, <2>7, <2>8
<1>3. ASSUME _link_message \/ _stat_mode \/ AskTarget PROVE LinkInv'
  <2>1. /\ held.links # <<>> /\ sources' = sources
        /\ \/ held' = held /\ pc' \in {"stat", "headings", "refused"}
           \/ held' = [held EXCEPT !.links = Tail(@)] /\ pc' = "check"
    BY <1>3, LinkMoves
  <2>2. "links" \in DOMAIN held /\ held.links \in Seq(LinkType)
    BY DEF LinkInv
  <2>3. Tail(held.links) \in Seq(LinkType)
    BY <2>1, <2>2, TailMembers
  <2>4. CASE held' = held /\ pc' \in {"stat", "headings", "refused"}
    BY <2>1, <2>4 DEF LinkInv
  <2>5. CASE held' = [held EXCEPT !.links = Tail(@)] /\ pc' = "check"
    <3>1. DOMAIN held' = DOMAIN held /\ held'.links = Tail(held.links) /\ held'.path = held.path
      BY <2>2, <2>5
    <3> QED BY <2>1, <2>3, <2>5, <3>1 DEF LinkInv
  <2> QED BY <2>1, <2>4, <2>5
<1>4. ASSUME Report PROVE LinkInv'
  BY <1>4 DEF Report, LinkInv, links
<1>5. PhaseInv' /\ WalkInv' /\ TodoInv' /\ EnrollInv'
  BY <1>1 DEF PhaseInv, LoadPhases, LinkPhases, Checking, WalkInv, TodoInv, EnrollInv
<1> QED BY <1>1, <1>2, <1>3, <1>4, <1>5, SameConfig DEF Rest, Checking

LEMMA StillTyped ==
  ASSUME TypeInv, Edit \/ UNCHANGED vars
  PROVE  Rest'
<1> USE DEF TypeInv
<1>1. UNCHANGED <<pc, walk, todo, config, records, identities, problems, sources, held, verdicts>>
  BY DEF Edit, vars, loading, links
<1> QED BY <1>1 DEF Rest, ConfigInv, Settled, PhaseInv, WalkInv, TodoInv, EnrollInv, LinkInv

LEMMA TypedStep ==
  ASSUME TypeInv, [Next]_vars
  PROVE  TypeInv'
<1>1. TreeInv'
  BY TreeSteps DEF TypeInv
<1>2. Rest'
  <2>1. ASSUME Load PROVE Rest'
    <3>1. LoadStep /\ UNCHANGED links /\ walk.strict
      BY <2>1 DEF Load
    <3>2. ASSUME load_config("manifests") PROVE Rest'
      BY <3>1, <3>2, LoadConfigTyped
    <3> QED BY <3>1, <3>2, BuildTyped, RegisteredTyped, DiscoverTyped, DiscoveredTyped, AssembleTyped, AssembledTyped,
               WalksTyped, JudgedTyped, InspectTyped DEF LoadStep
  <2>2. ASSUME CheckLinks PROVE Rest'
    <3>1. LinksStep /\ ~walk.strict
      BY <2>2 DEF CheckLinks
    <3>2. ASSUME load_config("links"), UNCHANGED links PROVE Rest'
      BY <3>1, <3>2, LoadConfigTyped
    <3> QED BY <3>1, <3>2, RequireTyped, WalksTyped, JudgedTyped, SourcesTyped, CheckTyped DEF LinksStep
  <2> QED BY <2>1, <2>2, StillTyped DEF Next
<1> QED BY <1>1, <1>2 DEF TypeInv, Rest

\* Whatever is read has the shape that what reads it takes for granted.
THEOREM Typed == Spec => []TypeInv
<1>1. Init => TypeInv
  BY InitTyped
<1>2. TypeInv /\ [Next]_vars => TypeInv'
  BY TypedStep
<1> QED BY <1>1, <1>2, PTL DEF Spec

-----------------------------------------------------------------------------
(* What the gate says of a link.  The memo holds what some tree of the run offers, *)
(* the permission to use a marker is what the configuration gives the document,    *)
(* and so an answer from the memo is true of that tree.                            *)

Answers(x) ==
  \E t \in trees : IsFile(t, x) /\ Text(t, x).decodes /\ memo[x] = _target_headings(Text(t, x))

MemoInv ==
  /\ pc \in {"config", "links", "walk", "judge", "sources"} \cup LoadPhases =>
       DOMAIN memo = {} /\ verdicts = {} /\ held.links = <<>>
  /\ \A x \in DOMAIN memo : Answers(x)

HeldInv ==
  held.links # <<>> =>
    \E t \in trees : IsFile(t, held.path) /\ Text(t, held.path) = held.text /\ held.text.decodes

Permitted(path) == path \in legacy <=> MayUseMarkers(path)

LegacyInv ==
  /\ pc \in Checking => \A k \in DOMAIN sources : Permitted(sources[k].path)
  /\ held.links # <<>> => Permitted(held.path)

\* What the steps before found of the target that is being looked at.
AskedInv ==
  /\ pc \in {"stat", "headings"} =>
       /\ Asked.path # <<>> /\ Target.ok
       /\ \E t \in trees : Contained(Real(t, Target.parts))
  /\ pc = "headings" =>
       /\ Fragment(Asked) # NoFragment /\ IsMarkdown(Target.parts)
       /\ \E t \in trees : Stat(t, Target.parts).kind # "absent"

True(v) ==
  CASE v.why = "resolves" ->
         /\ \E t \in trees : Stays(t, v)
         /\ \E t \in trees : Stands(t, v)
         /\ \E t \in trees : Lands(t, v)
    [] v.why \in {"outside", "symlink"} -> \E t \in trees : ~Stays(t, v)
    [] v.why = "missing" -> \E t \in trees : ~Stands(t, v)
    [] OTHER -> \E t \in trees : ~Lands(t, v)

VerdictInv == TypeInv /\ MemoInv /\ HeldInv /\ LegacyInv /\ AskedInv /\ VerdictsAreTrue

\* The selectors that give the permission match what they spell.
LEMMA PermissionIsRight ==
  ASSUME TypeInv, pc = "sources", NEW path \in Spelled
  PROVE  (\E e \in ToSet(config.legacy.entries) : selector_matches_path(e, path)) <=> MayUseMarkers(path)
<1>1. config \in Configs /\ Valid(config) /\ (~config.legacy.declared => config.legacy.entries = <<>>)
  BY DEF TypeInv, ConfigInv, Settled
<1>2. CASE ~config.legacy.declared
  BY <1>1, <1>2 DEF ToSet, MayUseMarkers
<1>3. CASE config.legacy.declared
  <2>1. config.legacy.entries \in Seq(Selector)
    BY <1>1, <1>3, SettledSelectors
  <2>2. \A k \in DOMAIN config.legacy.entries :
          selector_matches_path(config.legacy.entries[k], path) <=> Aligned(config.legacy.entries[k], path)
    BY <2>1, MatcherIsRight
  <2> QED BY <1>3, <2>2 DEF ToSet, MayUseMarkers
<1> QED BY <1>2, <1>3

\* An answer from the memo is what the tree that it was read from offers.
LEMMA Answered ==
  ASSUME NEW known, NEW x \in DOMAIN known, NEW text, text.decodes, known[x] = _target_headings(text),
         NEW source, Permitted(source), NEW fragment
  PROVE  /\ Answer(fragment, x, known, source) = "resolves" <=> Offers(text, fragment, MayUseMarkers(source))
         /\ Answer(fragment, x, known, source) \in {"resolves", "no heading"}
<1>1. Answer(fragment, x, known, source) = _fragment_message(fragment, known[x], source)
  BY DEF Answer
<1>2. known[x].github_ids = text.headings
  BY DEF _target_headings, full_heading_inventory
<1>3. known[x].markers = IF legacy = {} THEN {} ELSE {m.name : m \in {n \in text.markers : n.rendered /\ n.addressable}}
  BY DEF _target_headings, addressable_explicit_markers
<1>4. Answer(fragment, x, known, source) = "resolves" <=>
        fragment \in text.headings \/ (source \in legacy /\ fragment \in known[x].markers)
  BY <1>1, <1>2 DEF _fragment_message
<1>5. source \in legacy => (fragment \in known[x].markers <=>
                              \E m \in text.markers : m.name = fragment /\ m.rendered /\ m.addressable)
  BY <1>3
<1>6. Answer(fragment, x, known, source) \in {"resolves", "no heading"}
  BY <1>1 DEF _fragment_message
<1>7. Answer(fragment, x, known, source) = "resolves" <=> Offers(text, fragment, MayUseMarkers(source))
  BY <1>4, <1>5 DEF Offers, Permitted
<1> QED BY <1>6, <1>7

\* What was read is in the memo, and everything there answers for some tree.
LEMMA ReadAnswers ==
  ASSUME \A x \in DOMAIN memo : Answers(x), NEW target, NEW t \in trees, IsFile(t, target),
         NEW text, text = Text(t, target), memo' = Read(target, text), trees' = trees, legacy' = legacy
  PROVE  /\ (\A x \in DOMAIN memo : Answers(x))'
         /\ text.decodes => target \in DOMAIN memo'
<1>1. CASE target \in DOMAIN memo \/ ~text.decodes
  <2>1. memo' = memo
    BY <1>1 DEF Read
  <2> QED BY <1>1, <2>1 DEF Answers, _target_headings
<1>2. CASE target \notin DOMAIN memo /\ text.decodes
  <2>1. memo' = [x \in DOMAIN memo \cup {target} |-> IF x = target THEN _target_headings(text) ELSE memo[x]]
    BY <1>2 DEF Read
  <2>2. ASSUME NEW x \in DOMAIN memo' PROVE Answers(x)'
    <3>1. CASE x = target
      <4>1. memo'[x] = _target_headings(Text(t, x)) /\ IsFile(t, x) /\ Text(t, x).decodes
        BY <1>2, <2>1, <3>1
      <4> QED BY <4>1 DEF Answers, _target_headings
    <3>2. CASE x # target
      <4>1. x \in DOMAIN memo /\ memo'[x] = memo[x]
        BY <2>1, <2>2, <3>2
      <4> QED BY <4>1 DEF Answers, _target_headings
    <3> QED BY <3>1, <3>2
  <2> QED BY <2>1, <2>2
<1> QED BY <1>1, <1>2

\* What was true stays so as trees are added.
LEMMA TruthStays ==
  ASSUME NEW v, True(v), trees \subseteq trees', config'.legacy = config.legacy
  PROVE  True(v)'
<1>1. \A t : /\ (Stays(t, v))' <=> Stays(t, v)
             /\ (Stands(t, v))' <=> Stands(t, v)
  BY DEF Stays, Stands, Place
<1>2. \A t : (Lands(t, v))' <=> Lands(t, v)
  BY DEF Lands, Place, MayUseMarkers
<1> QED BY <1>1, <1>2 DEF True

\* The three parts of a true verdict, and the three ways in which one that is none is true.
LEMMA TrueMeans ==
  ASSUME NEW v
  PROVE  /\ v.why = "resolves" /\ (\E t \in trees : Stays(t, v)) /\ (\E t \in trees : Stands(t, v))
            /\ (\E t \in trees : Lands(t, v)) => True(v)
         /\ v.why \in {"outside", "symlink"} /\ (\E t \in trees : ~Stays(t, v)) => True(v)
         /\ v.why = "missing" /\ (\E t \in trees : ~Stands(t, v)) => True(v)
         /\ v.why \in {"no heading", "unreadable"} /\ (\E t \in trees : ~Lands(t, v)) => True(v)
BY DEF True

\* A verdict on the link that is being looked at is about what it leads to.
LEMMA VerdictMeans ==
  ASSUME NEW why, NEW v, v = Verdict(held.path, Asked, why)
  PROVE  /\ v.path = held.path /\ v.link = Asked /\ v.why = why /\ Place(v) = Target
BY DEF Verdict, Place, Target

LEMMA Adjudged ==
  ASSUME VerdictInv, UNCHANGED <<trees, config>>, NEW why,
         verdicts' = verdicts \cup {Verdict(held.path, Asked, why)},
         Asked.scope = "relative" /\ why # "skipped" => True(Verdict(held.path, Asked, why))
  PROVE  VerdictsAreTrue'
<1>1. \A v \in Judged : True(v)
  BY DEF VerdictInv, VerdictsAreTrue, True
<1>2. PICK said : said = Verdict(held.path, Asked, why)
  OBVIOUS
<1>3. said.link = Asked /\ said.why = why
  BY <1>2, VerdictMeans
<1>4. \A v \in Judged' : v \in Judged \/ (v = said /\ Asked.scope = "relative" /\ why # "skipped")
  BY <1>2, <1>3 DEF Judged
<1>5. \A v : True(v) => True(v)'
  BY TruthStays
<1>6. \A v \in Judged' : True(v)'
  BY <1>1, <1>2, <1>4, <1>5
<1> QED BY <1>6 DEF VerdictsAreTrue, True

LEMMA MessageJudged ==
  ASSUME VerdictInv, _link_message
  PROVE  (\A x \in DOMAIN memo : Answers(x))' /\ VerdictsAreTrue' /\ AskedInv'
<1>1. /\ pc = "check" /\ held.links # <<>> /\ UNCHANGED <<trees, tree, config, legacy>>
  BY DEF _link_message, loading
<1> DEFINE fragment == Fragment(Asked)
           source == held.path
<1>2. /\ tree \in trees /\ Permitted(source) /\ \A x \in DOMAIN memo : Answers(x)
  BY <1>1 DEF VerdictInv, TypeInv, TreeInv, LegacyInv, MemoInv
<1>3. PICK t0 \in trees : IsFile(t0, source) /\ Text(t0, source) = held.text /\ held.text.decodes
  BY <1>1 DEF VerdictInv, HeldInv
<1>4. fragment = IF Asked.plain THEN NoFragment ELSE Asked.fragment
  BY DEF Fragment, _selects_plain_view
<1>5. ASSUME pc' = "check" PROVE AskedInv'
  BY <1>5 DEF AskedInv
<1>6. ASSUME UNCHANGED memo PROVE (\A x \in DOMAIN memo : Answers(x))'
  BY <1>1, <1>2, <1>6 DEF Answers, _target_headings
<1>7. CASE Said("skipped") /\ UNCHANGED memo
  <2>1. pc' = "check" /\ verdicts' = verdicts \cup {Verdict(held.path, Asked, "skipped")}
    BY <1>7 DEF Said
  <2>2. VerdictsAreTrue'
    BY <1>1, <2>1, Adjudged
  <2> QED BY <1>5, <1>6, <1>7, <2>1, <2>2
<1>8. CASE /\ Asked.path = <<>> /\ fragment # NoFragment /\ memo' = Read(source, held.text)
           /\ Said(Answer(fragment, source, memo', source))
  <2> DEFINE why == Answer(fragment, source, memo', source)
  <2>1. (\A x \in DOMAIN memo : Answers(x))' /\ source \in DOMAIN memo'
    BY <1>1, <1>2, <1>3, <1>8, ReadAnswers
  <2>2. PICK t \in trees : /\ IsFile(t, source) /\ Text(t, source).decodes
                           /\ memo'[source] = _target_headings(Text(t, source))
    BY <1>1, <2>1 DEF Answers, _target_headings
  <2>3. /\ why = "resolves" <=> Offers(Text(t, source), fragment, MayUseMarkers(source))
        /\ why \in {"resolves", "no heading"}
    BY <1>2, <2>1, <2>2, Answered
  <2>4. verdicts' = verdicts \cup {Verdict(held.path, Asked, why)} /\ pc' = "check"
    BY <1>8 DEF Said
  <2> HIDE DEF why
  <2>5. PICK v : v = Verdict(held.path, Asked, why)
    OBVIOUS
  <2>6. v.path = source /\ v.link = Asked /\ v.why = why
    BY <2>5, VerdictMeans
  <2>7. Stays(t, v) /\ Stands(t, v) /\ (Lands(t, v) <=> Offers(Text(t, source), fragment, MayUseMarkers(source)))
    BY <1>4, <1>8, <2>2, <2>6 DEF Stays, Stands, Lands
  <2>8. True(v)
    BY <2>2, <2>3, <2>6, <2>7, TrueMeans
  <2>9. VerdictsAreTrue'
    BY <1>1, <2>4, <2>5, <2>8, Adjudged
  <2> QED BY <1>5, <2>1, <2>4, <2>9
<1>9. ASSUME NEW why \in {"outside", "symlink"}, Asked.path # <<>>, Said(why), UNCHANGED memo,
             ~Target.ok \/ _escapes_by_symlink(tree, Target.parts)
      PROVE  (\A x \in DOMAIN memo : Answers(x))' /\ VerdictsAreTrue' /\ AskedInv'
  <2>1. pc' = "check" /\ verdicts' = verdicts \cup {Verdict(held.path, Asked, why)}
    BY <1>9 DEF Said
  <2>2. PICK v : v = Verdict(held.path, Asked, why)
    OBVIOUS
  <2>3. v.link = Asked /\ v.why = why /\ Place(v) = Target
    BY <2>2, VerdictMeans
  <2>4. ~Stays(tree, v)
    BY <1>9, <2>3 DEF Stays, _escapes_by_symlink
  <2>5. True(v)
    BY <1>2, <1>9, <2>3, <2>4, TrueMeans
  <2>6. VerdictsAreTrue'
    BY <1>1, <2>1, <2>2, <2>5, Adjudged
  <2> QED BY <1>5, <1>6, <1>9, <2>1, <2>6
<1>10. CASE /\ Asked.path # <<>> /\ Target.ok /\ ~_escapes_by_symlink(tree, Target.parts)
            /\ pc' = "stat" /\ UNCHANGED <<held, verdicts, memo>>
  <2>1. VerdictsAreTrue'
    <3>1. \A v \in Judged : True(v)
      BY DEF VerdictInv, VerdictsAreTrue, True
    <3>2. \A v \in Judged' : True(v)'
      BY <1>1, <1>10, <3>1, TruthStays DEF Judged
    <3> QED BY <3>2 DEF VerdictsAreTrue, True
  <2>2. Asked' = Asked /\ Target' = Target
    BY <1>10 DEF Asked, Target
  <2>3. AskedInv'
    BY <1>1, <1>2, <1>10, <2>2 DEF AskedInv, _escapes_by_symlink
  <2> QED BY <1>6, <1>10, <2>1, <2>3
<1> QED BY <1>7, <1>8, <1>9, <1>10 DEF _link_message

LEMMA StatJudged ==
  ASSUME VerdictInv, _stat_mode
  PROVE  VerdictsAreTrue' /\ AskedInv'
<1>1. pc = "stat" /\ UNCHANGED <<trees, tree, config, memo, legacy>>
  BY DEF _stat_mode, loading
<1>2. tree \in trees
  BY DEF VerdictInv, TypeInv, TreeInv
<1>3. /\ Asked.path # <<>> /\ Target.ok
      /\ \E t \in trees : Contained(Real(t, Target.parts))
  BY <1>1 DEF VerdictInv, AskedInv
<1>4. CASE Stat(tree, Target.parts).kind = "absent" /\ Said("missing")
  <2>1. pc' = "check" /\ verdicts' = verdicts \cup {Verdict(held.path, Asked, "missing")}
    BY <1>4 DEF Said
  <2>2. PICK v : v = Verdict(held.path, Asked, "missing")
    OBVIOUS
  <2>3. v.link = Asked /\ v.why = "missing" /\ Place(v) = Target
    BY <2>2, VerdictMeans
  <2>4. ~Stands(tree, v)
    BY <1>3, <1>4, <2>3 DEF Stands
  <2>5. True(v)
    BY <1>2, <2>3, <2>4, TrueMeans
  <2>6. VerdictsAreTrue'
    BY <1>1, <2>1, <2>2, <2>5, Adjudged
  <2> QED BY <2>1, <2>6 DEF AskedInv
<1>5. CASE /\ Stat(tree, Target.parts).kind # "absent" /\ Checkable(tree, Target.parts, Fragment(Asked))
           /\ pc' = "headings" /\ UNCHANGED <<held, verdicts>>
  <2>1. VerdictsAreTrue'
    <3>1. \A v \in Judged : True(v)
      BY DEF VerdictInv, VerdictsAreTrue, True
    <3>2. \A v \in Judged' : True(v)'
      BY <1>1, <1>5, <3>1, TruthStays DEF Judged
    <3> QED BY <3>2 DEF VerdictsAreTrue, True
  <2>2. Asked' = Asked /\ Target' = Target
    BY <1>5 DEF Asked, Target
  <2>3. Fragment(Asked) # NoFragment /\ IsMarkdown(Target.parts)
    BY <1>5 DEF Checkable
  <2>4. AskedInv'
    BY <1>1, <1>2, <1>3, <1>5, <2>2, <2>3 DEF AskedInv
  <2> QED BY <2>1, <2>4
<1>6. CASE /\ Stat(tree, Target.parts).kind # "absent" /\ ~Checkable(tree, Target.parts, Fragment(Asked))
           /\ Said("resolves")
  <2>1. pc' = "check" /\ verdicts' = verdicts \cup {Verdict(held.path, Asked, "resolves")}
    BY <1>6 DEF Said
  <2>2. PICK v : v = Verdict(held.path, Asked, "resolves")
    OBVIOUS
  <2>3. v.link = Asked /\ v.why = "resolves" /\ Place(v) = Target
    BY <2>2, VerdictMeans
  <2>4. Stands(tree, v) /\ \E t \in trees : Stays(t, v)
    BY <1>3, <1>6, <2>3 DEF Stands, Stays
  <2>5. Lands(tree, v)
    BY <1>3, <1>6, <2>3 DEF Lands, Checkable, Fragment, _selects_plain_view
  <2>6. True(v)
    BY <1>2, <2>3, <2>4, <2>5, TrueMeans
  <2>7. VerdictsAreTrue'
    BY <1>1, <2>1, <2>2, <2>6, Adjudged
  <2> QED BY <2>1, <2>7 DEF AskedInv
<1>7. \/ Stat(tree, Target.parts).kind = "absent" /\ Said("missing")
      \/ /\ Stat(tree, Target.parts).kind # "absent" /\ Checkable(tree, Target.parts, Fragment(Asked))
         /\ pc' = "headings" /\ UNCHANGED <<held, verdicts>>
      \/ /\ Stat(tree, Target.parts).kind # "absent" /\ ~Checkable(tree, Target.parts, Fragment(Asked))
         /\ Said("resolves")
  BY DEF _stat_mode, Checkable, IsFile
<1> QED BY <1>4, <1>5, <1>6, <1>7

LEMMA AskJudged ==
  ASSUME VerdictInv, AskTarget
  PROVE  (\A x \in DOMAIN memo : Answers(x))' /\ VerdictsAreTrue' /\ AskedInv'
<1> DEFINE fragment == Fragment(Asked)
           source == held.path
           place == Target.parts
           why == Answer(fragment, place, memo', source)
<1>1. pc = "headings" /\ UNCHANGED <<trees, tree, config, legacy>>
  BY DEF AskTarget, loading
<1>2. held.links # <<>>
  BY <1>1 DEF VerdictInv, TypeInv, LinkInv
<1>3. /\ tree \in trees /\ Permitted(source) /\ \A x \in DOMAIN memo : Answers(x)
  BY <1>2 DEF VerdictInv, TypeInv, TreeInv, LegacyInv, MemoInv
<1>4. /\ Asked.path # <<>> /\ Target.ok /\ fragment # NoFragment /\ IsMarkdown(place)
      /\ \E t \in trees : Contained(Real(t, place))
      /\ \E t \in trees : Stat(t, place).kind # "absent"
  BY <1>1 DEF VerdictInv, AskedInv
<1>5. CASE pc' = "refused" /\ UNCHANGED <<held, memo, verdicts>>
  <2>1. VerdictsAreTrue'
    <3>1. \A v \in Judged : True(v)
      BY DEF VerdictInv, VerdictsAreTrue, True
    <3>2. \A v \in Judged' : True(v)'
      BY <1>1, <1>5, <3>1, TruthStays DEF Judged
    <3> QED BY <3>2 DEF VerdictsAreTrue, True
  <2>2. (\A x \in DOMAIN memo : Answers(x))'
    BY <1>1, <1>3, <1>5 DEF Answers, _target_headings
  <2> QED BY <1>5, <2>1, <2>2 DEF AskedInv
<1>6. CASE /\ place \in DOMAIN memo \/ IsFile(tree, place)
           /\ memo' = IF place \in DOMAIN memo THEN memo ELSE Read(place, Text(tree, place))
           /\ Said(why)
  <2>1. pc' = "check" /\ verdicts' = verdicts \cup {Verdict(held.path, Asked, why)}
    BY <1>6 DEF Said
  <2>2. /\ (\A x \in DOMAIN memo : Answers(x))'
        /\ place \in DOMAIN memo' \/ (IsFile(tree, place) /\ ~Text(tree, place).decodes)
    <3> HIDE DEF place
    <3>1. CASE place \in DOMAIN memo
      BY <1>1, <1>3, <1>6, <3>1 DEF Answers, _target_headings
    <3>2. CASE place \notin DOMAIN memo
      BY <1>1, <1>3, <1>6, <3>2, ReadAnswers
    <3> QED BY <3>1, <3>2
  <2> HIDE DEF why
  <2>3. PICK v : v = Verdict(held.path, Asked, why)
    OBVIOUS
  <2>4. v.path = source /\ v.link = Asked /\ v.why = why /\ Place(v) = Target
    BY <2>3, VerdictMeans
  <2>5. /\ \E t \in trees : Stays(t, v)
        /\ \E t \in trees : Stands(t, v)
    BY <1>4, <2>4 DEF Stays, Stands
  <2>6. \A t : IsFile(t, place) => (Lands(t, v) <=> Offers(Text(t, place), fragment, MayUseMarkers(source)))
    BY <1>4, <2>4 DEF Lands, Fragment, _selects_plain_view
  <2>7. True(v)
    <3>1. CASE place \notin DOMAIN memo'
      <4>1. why = "unreadable"
        BY <3>1 DEF Answer, why
      <4>2. ~Lands(tree, v)
        BY <2>2, <2>6, <3>1 DEF Offers
      <4> QED BY <1>3, <2>4, <4>1, <4>2, TrueMeans
    <3>2. CASE place \in DOMAIN memo'
      <4>1. PICK t \in trees : /\ IsFile(t, place) /\ Text(t, place).decodes
                               /\ memo'[place] = _target_headings(Text(t, place))
        BY <1>1, <2>2, <3>2 DEF Answers, _target_headings
      <4>2. /\ why = "resolves" <=> Offers(Text(t, place), fragment, MayUseMarkers(source))
            /\ why \in {"resolves", "no heading"}
        BY <1>3, <3>2, <4>1, Answered DEF why
      <4>3. Lands(t, v) <=> why = "resolves"
        BY <2>6, <4>1, <4>2
      <4> QED BY <2>4, <2>5, <4>1, <4>2, <4>3, TrueMeans
    <3> QED BY <3>1, <3>2
  <2>8. VerdictsAreTrue'
    BY <1>1, <2>1, <2>3, <2>7, Adjudged
  <2> QED BY <2>1, <2>2, <2>8 DEF AskedInv
<1> QED BY <1>5, <1>6 DEF AskTarget

LEMMA VerdictStep ==
  ASSUME VerdictInv, [Next]_vars
  PROVE  VerdictInv'
<1>1. TypeInv' /\ TypeInv
  BY TypedStep DEF VerdictInv
<1>2. trees \subseteq trees'
  BY <1>1, TreeSteps DEF TypeInv
<1>3. ASSUME config'.legacy = config.legacy \/ verdicts = {}, verdicts' = verdicts
      PROVE  VerdictsAreTrue'
  <2>1. CASE verdicts = {}
    BY <1>3, <2>1 DEF VerdictsAreTrue, Judged
  <2>2. CASE config'.legacy = config.legacy
    <3>1. \A v \in Judged : True(v)
      BY DEF VerdictInv, VerdictsAreTrue, True
    <3>2. \A v \in Judged' : True(v)'
      BY <1>2, <1>3, <2>2, <3>1, TruthStays DEF Judged
    <3> QED BY <3>2 DEF VerdictsAreTrue, True
  <2> QED BY <1>3, <2>1, <2>2
<1>4. ASSUME memo' = memo, legacy' = legacy \/ DOMAIN memo = {}
      PROVE  (\A x \in DOMAIN memo : Answers(x))'
  BY <1>2, <1>4 DEF VerdictInv, MemoInv, Answers, _target_headings
<1>5. ASSUME held' = held PROVE HeldInv'
  BY <1>2, <1>5 DEF VerdictInv, HeldInv
<1>6. ASSUME UNCHANGED <<memo, held, verdicts, legacy, sources, config>>,
             \/ pc' = pc \/ pc' = "refused"
             \/ (pc' \notin Checking /\ pc \notin Checking /\ pc # "refused" /\ pc # "reported")
             \/ pc' = "reported"
      PROVE  VerdictInv'
  <2>1. MemoInv'
    BY <1>1, <1>4, <1>6 DEF MemoInv, VerdictInv, LoadPhases, LinkPhases, Checking, TypeInv, PhaseInv
  <2>2. LegacyInv'
    BY <1>6 DEF LegacyInv, VerdictInv, Permitted, MayUseMarkers, Checking
  <2>3. Asked' = Asked /\ Target' = Target
    BY <1>6 DEF Asked, Target
  <2>4. AskedInv'
    BY <1>2, <1>6, <2>3 DEF AskedInv, VerdictInv, Checking
  <2> QED BY <1>1, <1>3, <1>5, <1>6, <2>1, <2>2, <2>4 DEF VerdictInv
<1>7. ASSUME NEW next \in {"manifests", "links"}, load_config(next), UNCHANGED links
      PROVE  VerdictInv'
  <2>1. /\ pc = "config" /\ pc' \in {"refused", next}
        /\ config'.legacy = config.legacy
        /\ UNCHANGED <<memo, held, verdicts, legacy, sources>>
    BY <1>1, <1>7 DEF load_config, links, TypeInv, ConfigInv, Configs
  <2>2. MemoInv'
    BY <1>4, <2>1 DEF MemoInv, VerdictInv, LoadPhases
  <2>3. LegacyInv'
    BY <2>1 DEF LegacyInv, MemoInv, VerdictInv, Permitted, MayUseMarkers, Checking
  <2>4. AskedInv'
    BY <2>1 DEF AskedInv
  <2> QED BY <1>1, <1>3, <1>5, <2>1, <2>2, <2>3, <2>4 DEF VerdictInv
<1>8. CASE Load
  <2>1. LoadStep /\ UNCHANGED links /\ walk.strict
    BY <1>8 DEF Load
  <2>2. ASSUME CoverageWalk PROVE VerdictInv'
    <3>1. pc = "walk" /\ pc' \in {"walk", "refused", "cover"} /\ UNCHANGED config
      BY <1>1, <2>2, WalkLeaves DEF CoverageWalk, TypeInv
    <3> QED BY <1>6, <2>1, <3>1 DEF links, Checking
  <2>3. ASSUME _assemble PROVE VerdictInv'
    <3>1. pc = "assemble" /\ pc' \in {"walk", "refused", "loaded"} /\ UNCHANGED config
      BY <2>3 DEF _assemble, select_paths
    <3> QED BY <1>6, <2>1, <3>1 DEF links, Checking
  <2>4. ASSUME \/ build_registration_index \/ Registered \/ Discover \/ Discovered
               \/ Acquire \/ AcquireRefused \/ Judge \/ Inspect \/ enforce_coverage
        PROVE  VerdictInv'
    <3>1. UNCHANGED config /\ pc \in LoadPhases /\ pc' \in LoadPhases \cup {"refused"}
      BY <2>4 DEF build_registration_index, Registered, Discover, Discovered,
           Acquire, AcquireRefused, Judge, Inspect, enforce_coverage, LoadPhases
    <3> QED BY <1>6, <2>1, <3>1 DEF links, LoadPhases, Checking
  <2> QED BY <1>7, <2>1, <2>2, <2>3, <2>4 DEF LoadStep
<1>9. CASE CheckLinks
  <2>1. ASSUME _require_link_sources \/ Selected \/ SourceWalk \/ Report PROVE VerdictInv'
    <3>1. /\ UNCHANGED config /\ UNCHANGED links
          /\ \/ pc \in {"links", "judge", "walk"} /\ pc' \in {"refused", "walk", "sources", "judge"}
             \/ pc = "check" /\ pc' = "reported"
      BY <1>1, <2>1, WalkLeaves DEF _require_link_sources, Selected, SourceWalk, Report, loading, select_paths, TypeInv
    <3> QED BY <1>6, <3>1 DEF links, Checking
  <2>2. ASSUME select_link_sources PROVE VerdictInv'
    <3>1. /\ pc = "sources" /\ pc' \in {"sources", "refused"} /\ UNCHANGED <<config, memo, held, verdicts, legacy>>
      BY <2>2 DEF select_link_sources, loading
    <3>2. MemoInv' /\ LegacyInv' /\ AskedInv'
      BY <1>4, <3>1 DEF MemoInv, LegacyInv, AskedInv, VerdictInv, LoadPhases, Checking
    <3> QED BY <1>1, <1>3, <1>5, <3>1, <3>2 DEF VerdictInv
  <2>3. ASSUME select_legacy_marker_sources PROVE VerdictInv'
    <3>1. /\ pc = "sources" /\ UNCHANGED <<config, memo, held, verdicts, sources>>
          /\ \/ pc' = "refused"
             \/ /\ pc' = "check"
                /\ legacy' = UNION {{p \in {sources[k].path : k \in DOMAIN sources} : selector_matches_path(e, p)} :
                                      e \in ToSet(config.legacy.entries)}
      BY <2>3 DEF select_legacy_marker_sources, loading
    <3>2. MemoInv' /\ held.links = <<>>
      BY <1>4, <3>1 DEF MemoInv, VerdictInv, LoadPhases
    <3>3. ASSUME pc' = "check", NEW k \in DOMAIN sources PROVE Permitted(sources[k].path)'
      <4> DEFINE path == sources[k].path
      <4>1. sources[k] \in SourceType
        BY <1>1 DEF TypeInv, LinkInv
      <4>2. path \in Spelled
        BY <4>1 DEF SourceType
      <4>3. path \in legacy' <=> \E e \in ToSet(config.legacy.entries) : selector_matches_path(e, path)
        BY <3>1, <3>3
      <4>4. path \in legacy' <=> MayUseMarkers(path)
        <5> HIDE DEF path
        <5> QED BY <1>1, <3>1, <4>2, <4>3, PermissionIsRight
      <4> QED BY <3>1, <4>4 DEF Permitted, MayUseMarkers
    <3>4. LegacyInv' /\ AskedInv'
      BY <3>1, <3>2, <3>3 DEF LegacyInv, AskedInv, Checking
    <3> QED BY <1>1, <1>3, <1>5, <3>1, <3>2, <3>4 DEF VerdictInv
  <2>4. ASSUME check_links \/ ReadSource PROVE VerdictInv'
    <3> DEFINE path == Head(sources).path
    <3>1. /\ pc \in {"check", "open"} /\ pc' \in {"check", "open", "refused"} /\ UNCHANGED <<tree, trees, config, memo,
               legacy>>
          /\ held.links = <<>> /\ sources # <<>>
          /\ \/ UNCHANGED <<held, sources, verdicts>>
             \/ /\ sources' = Tail(sources)
                /\ \E why : verdicts' = verdicts \cup {Verdict(path, NoLink, why)}
                /\ \/ held' = NothingHeld
                   \/ /\ held' = [path |-> path, links |-> Text(tree, path).links, text |-> Text(tree, path)]
                      /\ IsFile(tree, path) /\ Text(tree, path).decodes
      BY <1>1, <2>4, SourceMoves DEF loading
    <3>2. MemoInv'
      BY <1>4, <3>1 DEF MemoInv, VerdictInv, LoadPhases
    <3>3. HeldInv'
      <4>1. tree \in trees
        BY <1>1 DEF TypeInv, TreeInv
      <4> HIDE DEF path
      <4> QED BY <1>5, <3>1, <4>1 DEF HeldInv, NothingHeld
    <3>4. LegacyInv'
      <4>1. sources \in Seq(SourceType)
        BY <1>1 DEF TypeInv, LinkInv
      <4>2. /\ \A k \in DOMAIN Tail(sources) : \E l \in DOMAIN sources : Tail(sources)[k] = sources[l]
            /\ \E l \in DOMAIN sources : Head(sources) = sources[l]
        BY <3>1, <4>1
      <4>3. \A k \in DOMAIN sources : Permitted(sources[k].path)
        BY <3>1 DEF LegacyInv, VerdictInv, Checking
      <4>4. Permitted(path) /\ \A k \in DOMAIN Tail(sources) : Permitted(Tail(sources)[k].path)
        BY <4>2, <4>3
      <4>5. \A p : Permitted(p)' <=> Permitted(p)
        BY <3>1 DEF Permitted, MayUseMarkers
      <4> HIDE DEF path
      <4>6. held'.links # <<>> => held'.path = path \/ held' = held
        BY <3>1 DEF NothingHeld
      <4> QED BY <3>1, <4>3, <4>4, <4>5, <4>6 DEF LegacyInv
    <3>5. VerdictsAreTrue'
      <4>1. CASE verdicts' = verdicts
        BY <1>3, <3>1, <4>1
      <4>2. ASSUME NEW why, verdicts' = verdicts \cup {Verdict(path, NoLink, why)}
            PROVE  VerdictsAreTrue'
        <5>1. Verdict(path, NoLink, why).link.scope # "relative"
          BY DEF Verdict, NoLink
        <5> HIDE DEF path
        <5>2. \A v \in Judged' : v \in Judged
          BY <4>2, <5>1 DEF Judged
        <5>3. \A v \in Judged : True(v)
          BY DEF VerdictInv, VerdictsAreTrue, True
        <5>4. \A v \in Judged' : True(v)'
          BY <1>2, <3>1, <5>2, <5>3, TruthStays
        <5> QED BY <5>4 DEF VerdictsAreTrue, True
      <4> QED BY <3>1, <4>1, <4>2
    <3>6. AskedInv'
      BY <3>1 DEF AskedInv
    <3> QED BY <1>1, <3>2, <3>3, <3>4, <3>5, <3>6 DEF VerdictInv
  <2>5. ASSUME _link_message \/ _stat_mode \/ AskTarget PROVE VerdictInv'
    <3>1. /\ pc \in Checking /\ UNCHANGED <<trees, config, legacy, sources>> /\ held.links # <<>>
          /\ pc' \in {"check", "stat", "headings", "refused"}
          /\ held' = held \/ held' = [held EXCEPT !.links = Tail(@)]
      BY <1>1, <2>5, LinkMoves DEF loading
    <3>2. DOMAIN held = {"path", "links", "text"}
      BY <1>1, <3>1 DEF TypeInv, LinkInv
    <3>3. held'.path = held.path /\ held'.text = held.text
      BY <3>1, <3>2
    <3>4. HeldInv'
      BY <3>1, <3>3 DEF HeldInv, VerdictInv
    <3>5. LegacyInv'
      BY <3>1, <3>3 DEF LegacyInv, VerdictInv, Permitted, MayUseMarkers, Checking
    <3>6. (\A x \in DOMAIN memo : Answers(x))' /\ VerdictsAreTrue' /\ AskedInv'
      <4>1. CASE _stat_mode
        <5>1. memo' = memo
          BY <4>1 DEF _stat_mode
        <5> QED BY <1>4, <3>1, <4>1, <5>1, StatJudged
      <4> QED BY <2>5, <4>1, MessageJudged, AskJudged
    <3>7. MemoInv'
      BY <3>1, <3>6 DEF MemoInv, LoadPhases
    <3> QED BY <1>1, <3>4, <3>5, <3>6, <3>7 DEF VerdictInv
  <2> QED BY <1>7, <1>9, <2>1, <2>2, <2>3, <2>4, <2>5 DEF CheckLinks, LinksStep
<1>10. CASE Edit \/ UNCHANGED vars
  <2>1. UNCHANGED <<pc, memo, held, verdicts, legacy, sources, config>>
    BY <1>10 DEF Edit, vars, loading, links
  <2> QED BY <1>6, <2>1
<1> QED BY <1>8, <1>9, <1>10 DEF Next

\* Of a link that the gate lets pass, the target is in the project at one moment of the run,
\* exists at one and offers the fragment at one, with its own document's permission; what a
\* link is reported for was so at one.
THEOREM LinkVerdicts == Spec => []VerdictsAreTrue
<1>1. Init => VerdictInv
  <2> SUFFICES ASSUME Init PROVE VerdictInv
    OBVIOUS
  <2>1. verdicts = {} /\ held = NothingHeld /\ DOMAIN memo = {} /\ sources = <<>>
    BY DEF Init
  <2>2. MemoInv /\ HeldInv /\ LegacyInv /\ VerdictsAreTrue
    BY <2>1 DEF MemoInv, HeldInv, LegacyInv, VerdictsAreTrue, Judged, NothingHeld
  <2>3. AskedInv
    BY DEF Init, AskedInv
  <2> QED BY <2>2, <2>3, InitTyped DEF VerdictInv
<1>2. VerdictInv /\ [Next]_vars => VerdictInv'
  BY VerdictStep
<1>3. VerdictInv => VerdictsAreTrue
  BY DEF VerdictInv
<1> QED BY <1>1, <1>2, <1>3, PTL DEF Spec

-----------------------------------------------------------------------------
(* Who owns a document.  Every identity was read at some tree of the run and left    *)
(* its node and its warnings there; no identity still to be read has a node, so one  *)
(* file never has two; and a document under a root that no link leads to has its     *)
(* identity as soon as the root was walked.                                          *)

Seen(i, t) == parse_document(Text(t, ReadAt(i)).head)

Accepted(i, t) ==
  /\ IsFile(t, ReadAt(i)) /\ Text(t, ReadAt(i)).decodes
  /\ ~Failed(Seen(i, t)) /\ ~Conflict(i.target, Seen(i, t))

Enrolled(i) ==
  \E t \in trees :
    /\ Accepted(i, t) /\ NodeOf(i, Seen(i, t)) \subseteq nodes
    /\ RecordsOf(i.target) = {} => _report_load_diagnostics(i.path, Seen(i, t)) \subseteq warned

Loading == walk.strict /\ pc \in {"discover", "assemble", "walk", "cover", "inspect", "loaded"}
Assembled == walk.strict /\ pc \in {"walk", "cover", "inspect", "loaded"}

\* A root whose walk finds the document.
Reaches(root, path) == IsPrefix(root, path) /\ ~_ignored(path, root, config.ignored)

IdentityInv ==
  /\ pc \in {"config", "manifests", "discover"} => nodes = {}
  /\ Loading =>
       /\ \A k \in DOMAIN records : \E i \in identities : i.target = records[k].target /\ i.path = records[k].path
       /\ \A i \in identities : RecordsOf(i.target) = {} =>
            \E t \in trees : At(t, i.path).kind # "absent" /\ Real(t, i.path) = i.target
       /\ \A p \in Spelled : (\A t \in trees : Standing(t, p)) =>
            \/ \E i \in identities : i.target = p
            \/ pc = "discover" /\ \E root \in Members(todo) : Reaches(root, p)

NodeInv ==
  /\ \A n \in nodes : Contained(n.target)
  /\ pc = "assemble" =>
       /\ Members(todo) \subseteq identities /\ Distinct(todo)
       /\ \A i \in identities : i \in Members(todo) \/ Enrolled(i)
       /\ \A i \in Members(todo), n \in nodes : n.target # i.target
  /\ Assembled =>
       /\ \A i \in identities : Enrolled(i)
       /\ \A m, n \in nodes : m # n => m.id # n.id
  /\ pc = "assemble" \/ Assembled =>
       /\ \A n \in nodes : \E i \in identities, t \in trees : Accepted(i, t) /\ n \in NodeOf(i, Seen(i, t))
       /\ \A m, n \in nodes : m.target = n.target => m = n

LoadInv == TypeInv /\ IdentityInv /\ NodeInv

\* What can come of a head that is read without an error.
LEMMA Outcomes ==
  ASSUME NEW head \in Heads, ~Failed(parse_document(head))
  PROVE  LET outcome == parse_document(head)
         IN  \/ head.line1 = "prose" /\ outcome = IF head.below = "bare" THEN Misplaced ELSE Untracked
             \/ head.line1 = "opener" /\ outcome = Tracked(head.node)
             \/ /\ head.line1 = "fence"
                /\ \E meta : /\ outcome = Classified(meta, head, "fence") /\ ~Failed(meta)
                             /\ \/ head.yaml = "scalar" /\ meta = Untracked
                                \/ head.yaml = "mapping" /\ head.keys \cap {"id", "wires"} = {} /\ meta = IdLess
                                \/ meta = Tracked(head.node)
<1> DEFINE outcome == parse_document(head)
<1>1. \A error \in {"FrontmatterError", "UnreadableDocError"} : Failed(Fails(error))
  BY DEF Failed, Fails
<1>2. \A meta, kind : Failed(meta) => Classified(meta, head, kind) = meta
  BY DEF Classified
<1>3. CASE head.line1 = "prose"
  <2>1. outcome = IF head.below = "bare" THEN Misplaced ELSE Untracked
    BY <1>3 DEF parse_document, split_frontmatter_parts, detect_misplaced_envelope
  <2> QED BY <1>3, <2>1
<1>4. CASE head.line1 = "near miss"
  <2>1. outcome = Fails("FrontmatterError")
    BY <1>4 DEF parse_document, split_frontmatter_parts
  <2> QED BY <1>1, <2>1
<1>5. CASE head.line1 \in {"fence", "opener"}
  <2>1. split_frontmatter_parts(head) \in {"FrontmatterError", "UnreadableDocError", head.line1}
    BY <1>5 DEF split_frontmatter_parts
  <2>2. CASE split_frontmatter_parts(head) # head.line1
    <3>1. split_frontmatter_parts(head) \in {"FrontmatterError", "UnreadableDocError"}
      BY <2>1, <2>2
    <3>2. outcome = Fails(split_frontmatter_parts(head))
      BY <3>1 DEF parse_document
    <3> QED BY <1>1, <3>1, <3>2
  <2>3. CASE split_frontmatter_parts(head) = head.line1
    <3> DEFINE meta == parse_meta(head, head.line1)
    <3>1. \/ outcome = Fails("FrontmatterError")
          \/ outcome = Classified(meta, head, head.line1)
      BY <1>5, <2>3 DEF parse_document
    <3>2. outcome = Classified(meta, head, head.line1) /\ ~Failed(meta)
      <4> HIDE DEF meta
      <4> QED BY <1>1, <1>2, <3>1
    <3>3. head.yaml \in {"broken", "scalar", "mapping"}
      BY DEF Heads
    <3>4. /\ head.line1 = "opener" => meta = Tracked(head.node)
          /\ head.line1 = "fence" =>
               \/ head.yaml = "scalar" /\ meta = Untracked
               \/ head.yaml = "mapping" /\ head.keys \cap {"id", "wires"} = {} /\ meta = IdLess
               \/ meta = Tracked(head.node)
      <4>1. head.yaml # "broken"
        BY <1>1, <3>2 DEF parse_meta
      <4>2. CASE head.yaml = "scalar"
        <5>1. meta = IF head.line1 = "opener" THEN Fails("FrontmatterError") ELSE Untracked
          BY <4>2 DEF parse_meta
        <5> HIDE DEF meta
        <5> QED BY <1>1, <1>5, <3>2, <4>2, <5>1
      <4>3. CASE head.yaml = "mapping" /\ "id" \notin head.keys
        <5>1. meta = IF head.line1 = "opener" THEN Fails("FrontmatterError")
                     ELSE IF "wires" \in head.keys THEN Fails("FrontmatterError") ELSE IdLess
          BY <4>3 DEF parse_meta, _id_less
        <5> HIDE DEF meta
        <5> QED BY <1>1, <1>5, <3>2, <4>3, <5>1
      <4>4. CASE head.yaml = "mapping" /\ "id" \in head.keys
        <5>1. meta = IF head.valid THEN Tracked(head.node) ELSE Fails("FrontmatterError")
          BY <4>4 DEF parse_meta
        <5> HIDE DEF meta
        <5> QED BY <1>1, <3>2, <5>1
      <4> QED BY <3>3, <4>1, <4>2, <4>3, <4>4
    <3> HIDE DEF meta
    <3>5. CASE head.line1 = "opener"
      <4>1. Classified(meta, head, "opener") = meta
        BY DEF Classified
      <4> QED BY <3>2, <3>4, <3>5, <4>1
    <3>6. CASE head.line1 = "fence"
      BY <3>2, <3>4, <3>6
    <3> QED BY <1>5, <3>5, <3>6
  <2> QED BY <2>2, <2>3
<1> QED BY <1>3, <1>4, <1>5 DEF Heads

\* A head that claims nothing for its document does not declare that it belongs to a lattice.
LEMMA UnclaimedIsUndeclared ==
  ASSUME NEW head \in Heads, ~Failed(parse_document(head)), ~Claimed(parse_document(head))
  PROVE  ~Declares(head)
<1> DEFINE outcome == parse_document(head)
<1>1. head.node # NoNode
  BY DEF Heads
<1>2. CASE head.line1 = "prose" /\ outcome = IF head.below = "bare" THEN Misplaced ELSE Untracked
  BY <1>2 DEF Claimed, Misplaced, Declares
<1>3. CASE head.line1 = "opener" /\ outcome = Tracked(head.node)
  BY <1>3 DEF Claimed, Tracked
<1>4. CASE head.line1 = "fence"
  <2>1. PICK meta : /\ outcome = Classified(meta, head, "fence") /\ ~Failed(meta)
                    /\ \/ head.yaml = "scalar" /\ meta = Untracked
                       \/ head.yaml = "mapping" /\ head.keys \cap {"id", "wires"} = {} /\ meta = IdLess
                       \/ meta = Tracked(head.node)
    BY <1>4, Outcomes
  <2>2. CASE meta = Tracked(head.node)
    <3>1. outcome = meta \/ outcome = [meta EXCEPT !.shadowed = TRUE]
      BY <1>1, <2>1, <2>2 DEF Classified, Tracked
    <3> QED BY <2>2, <3>1 DEF Claimed, Tracked
  <2>3. CASE meta \in {Untracked, IdLess}
    <3>1. head.below = "bare" => outcome = Misplaced
      BY <2>1, <2>3 DEF Classified, detect_misplaced_envelope, Untracked, IdLess
    <3>2. head.below # "bare"
      BY <3>1 DEF Claimed, Misplaced
    <3>3. meta # Tracked(head.node)
      BY <2>3 DEF Untracked, IdLess, Tracked
    <3> QED BY <1>4, <2>1, <3>2, <3>3 DEF Declares
  <2> QED BY <2>1, <2>2, <2>3
<1> QED BY <1>2, <1>3, <1>4, Outcomes

\* A head that declares something names a node or is warned of; an envelope below, always.
LEMMA DeclaredIsSaid ==
  ASSUME NEW head \in Heads, NEW path, ~Failed(parse_document(head))
  PROVE  LET outcome == parse_document(head)
         IN  /\ Declares(head) => outcome.node # NoNode \/ _report_load_diagnostics(path, outcome) # {}
             /\ DeclaresBelow(head) => _report_load_diagnostics(path, outcome) # {}
<1> DEFINE outcome == parse_document(head)
           Warned == _report_load_diagnostics(path, outcome) # {}
<1>1. head.node # NoNode
  BY DEF Heads
<1>2. outcome = Misplaced => Warned
  <2>1. outcome = Misplaced => <<"misplaced-envelope", path>> \in _report_load_diagnostics(path, outcome)
    BY DEF _report_load_diagnostics, Misplaced
  <2> QED BY <2>1
<1>3. CASE head.line1 = "prose" /\ outcome = IF head.below = "bare" THEN Misplaced ELSE Untracked
  <2> HIDE DEF outcome, Warned
  <2>1. Declares(head) \/ DeclaresBelow(head) => Warned
    BY <1>2, <1>3 DEF Declares, DeclaresBelow
  <2> QED BY <2>1 DEF Warned, outcome
<1>4. CASE head.line1 = "opener" /\ outcome = Tracked(head.node)
  BY <1>1, <1>4 DEF Tracked, DeclaresBelow
<1>5. CASE head.line1 = "fence"
  <2>1. PICK meta : /\ outcome = Classified(meta, head, "fence") /\ ~Failed(meta)
                    /\ \/ head.yaml = "scalar" /\ meta = Untracked
                       \/ head.yaml = "mapping" /\ head.keys \cap {"id", "wires"} = {} /\ meta = IdLess
                       \/ meta = Tracked(head.node)
    BY <1>5, Outcomes
  <2>2. CASE meta = Tracked(head.node)
    <3>1. IF head.below = "bare" THEN outcome = [meta EXCEPT !.shadowed = TRUE] ELSE outcome = meta
      BY <1>1, <2>1, <2>2 DEF Classified, Tracked, detect_misplaced_envelope
    <3>2. outcome.node = head.node
      BY <2>2, <3>1 DEF Tracked
    <3>3. head.below = "bare" => Warned
      <4>1. head.below = "bare" => outcome.shadowed
        BY <2>2, <3>1 DEF Tracked
      <4> QED BY <4>1 DEF _report_load_diagnostics
    <3> HIDE DEF Warned
    <3> QED BY <1>1, <3>2, <3>3 DEF Warned, DeclaresBelow
  <2>3. CASE meta \in {Untracked, IdLess}
    <3>1. head.below = "bare" => outcome = Misplaced
      BY <2>1, <2>3 DEF Classified, detect_misplaced_envelope, Untracked, IdLess
    <3>2. meta # Tracked(head.node)
      BY <2>3 DEF Untracked, IdLess, Tracked
    <3> HIDE DEF outcome, Warned
    <3>3. head.below # "bare" => ~Declares(head)
      BY <1>5, <2>1, <3>2 DEF Declares
    <3> QED BY <1>2, <3>1, <3>3 DEF DeclaresBelow, Warned, outcome
  <2> QED BY <2>1, <2>2, <2>3
<1> QED BY <1>3, <1>4, <1>5, Outcomes

LEMMA OneRecord ==
  ASSUME EnrollInv, NEW target, NEW r \in RecordsOf(target)
  PROVE  /\ \E k \in DOMAIN records : r = records[k] /\ records[k].target = target
         /\ \A s \in RecordsOf(target) : s = r
<1>1. \A s \in RecordsOf(target) : \E k \in DOMAIN records : s = records[k] /\ records[k].target = target
  BY DEF RecordsOf
<1>2. OwnedOnce(records)
  BY DEF EnrollInv
<1>3. \A k, l \in DOMAIN records : records[k].target = records[l].target => k = l
  BY <1>2 DEF OwnedOnce
<1>4. ASSUME NEW s \in RecordsOf(target) PROVE s = r
  <2>1. PICK k \in DOMAIN records : s = records[k] /\ records[k].target = target
    BY <1>1
  <2>2. PICK l \in DOMAIN records : r = records[l] /\ records[l].target = target
    BY <1>1
  <2> QED BY <1>3, <2>1, <2>2
<1> QED BY <1>1, <1>4

\* An identity has one node at most, of its path and its target.
LEMMA NodeFacts ==
  ASSUME EnrollInv, NEW i, NEW outcome
  PROVE  /\ \A n \in NodeOf(i, outcome) : /\ n.target = i.target /\ n.path = i.path
                                         /\ n.registered = (RecordsOf(i.target) # {})
         /\ \A m, n \in NodeOf(i, outcome) : m = n
         /\ \A r \in RecordsOf(i.target) : \E n \in NodeOf(i, outcome) : n.id = r.id /\ n.registered
         /\ RecordsOf(i.target) = {} => (NodeOf(i, outcome) = {} <=> outcome.node = NoNode)
<1> DEFINE node(id, registered) == [path |-> i.path, target |-> i.target, id |-> id, registered |-> registered]
<1>1. CASE RecordsOf(i.target) # {}
  <2>1. NodeOf(i, outcome) = {node(r.id, TRUE) : r \in RecordsOf(i.target)}
    BY <1>1 DEF NodeOf
  <2>2. \A r, s \in RecordsOf(i.target) : r = s
    BY OneRecord
  <2>3. ASSUME NEW m \in NodeOf(i, outcome), NEW n \in NodeOf(i, outcome) PROVE m = n
    <3>1. PICK r \in RecordsOf(i.target) : m = node(r.id, TRUE)
      BY <2>1, <2>3
    <3>2. PICK s \in RecordsOf(i.target) : n = node(s.id, TRUE)
      BY <2>1, <2>3
    <3> HIDE DEF node
    <3> QED BY <2>2, <3>1, <3>2
  <2>4. \A n \in NodeOf(i, outcome) : n.target = i.target /\ n.path = i.path /\ n.registered = TRUE
    BY <2>1
  <2>5. \A n \in NodeOf(i, outcome) : n.registered = (RecordsOf(i.target) # {})
    BY <1>1, <2>4
  <2>6. \A r \in RecordsOf(i.target) : \E n \in NodeOf(i, outcome) : n.id = r.id /\ n.registered
    <3> TAKE r \in RecordsOf(i.target)
    <3>1. node(r.id, TRUE) \in NodeOf(i, outcome)
      BY <2>1
    <3>2. node(r.id, TRUE).id = r.id /\ node(r.id, TRUE).registered
      OBVIOUS
    <3> HIDE DEF node
    <3> QED BY <3>1, <3>2
  <2> QED BY <1>1, <2>3, <2>4, <2>5, <2>6
<1>2. CASE RecordsOf(i.target) = {}
  <2>1. NodeOf(i, outcome) = IF outcome.node # NoNode THEN {node(outcome.node, FALSE)} ELSE {}
    BY <1>2 DEF NodeOf
  <2>2. \A n \in NodeOf(i, outcome) : n = node(outcome.node, FALSE) /\ outcome.node # NoNode
    BY <2>1
  <2>3. \A n \in NodeOf(i, outcome) : n.target = i.target /\ n.path = i.path /\ n.registered = FALSE
    BY <2>2
  <2>4. \A n \in NodeOf(i, outcome) : n.registered = (RecordsOf(i.target) # {})
    BY <1>2, <2>3
  <2>5. NodeOf(i, outcome) = {} <=> outcome.node = NoNode
    BY <2>1
  <2> HIDE DEF node
  <2> QED BY <1>2, <2>2, <2>3, <2>4, <2>5
<1> QED BY <1>1, <1>2

\* What was read stays so as trees, nodes and warnings are added.
LEMMA EnrolledStays ==
  ASSUME trees \subseteq trees', records' = records, manifests' = manifests
  PROVE  /\ \A i, t : (Accepted(i, t))' <=> Accepted(i, t)
         /\ \A i, t : (NodeOf(i, Seen(i, t)))' = NodeOf(i, Seen(i, t))
         /\ \A i : (RecordsOf(i.target))' = RecordsOf(i.target)
         /\ \A i : Enrolled(i) /\ nodes \subseteq nodes' /\ warned \subseteq warned' => (Enrolled(i))'
<1>1. \A target : (RecordsOf(target))' = RecordsOf(target)
  BY DEF RecordsOf
<1>2. \A i : (ReadAt(i))' = ReadAt(i)
  BY <1>1 DEF ReadAt
<1>3. \A i, t : (Seen(i, t))' = Seen(i, t)
  BY <1>2 DEF Seen
<1>4. \A target, outcome : (Conflict(target, outcome))' <=> Conflict(target, outcome)
  BY <1>1 DEF Conflict, IsManifest
<1>5. \A i, t : (Accepted(i, t))' <=> Accepted(i, t)
  BY <1>2, <1>3, <1>4 DEF Accepted
<1>6. \A i, t : (NodeOf(i, Seen(i, t)))' = NodeOf(i, Seen(i, t))
  BY <1>1, <1>3 DEF NodeOf
<1>7. ASSUME NEW i, Enrolled(i), nodes \subseteq nodes', warned \subseteq warned' PROVE (Enrolled(i))'
  <2>1. PICK t \in trees : /\ Accepted(i, t) /\ NodeOf(i, Seen(i, t)) \subseteq nodes
                           /\ RecordsOf(i.target) = {} => _report_load_diagnostics(i.path, Seen(i, t)) \subseteq warned
    BY <1>7 DEF Enrolled
  <2>2. /\ (Accepted(i, t))' /\ (NodeOf(i, Seen(i, t)) \subseteq nodes)'
        /\ (RecordsOf(i.target) = {} => _report_load_diagnostics(i.path, Seen(i, t)) \subseteq warned)'
    BY <1>1, <1>3, <1>5, <1>6, <1>7, <2>1
  <2> QED BY <2>1, <2>2 DEF Enrolled
<1> QED BY <1>1, <1>5, <1>6, <1>7

\* What no step but those of enrollment touches.
Enrollments == <<config, manifests, records, identities, nodes, warned>>

LEMMA QuietStep ==
  ASSUME LoadInv, TypeInv', trees \subseteq trees', UNCHANGED Enrollments,
         pc' \in {"config", "manifests"} => pc' = pc,
         pc' \in {"discover", "assemble"} => pc' = pc /\ todo' = todo,
         Loading' => Loading, Assembled' => Assembled
  PROVE  LoadInv'
<1>1. UNCHANGED <<config, manifests, records, identities, nodes, warned>>
  BY DEF Enrollments
<1>2. /\ \A i, t : (Accepted(i, t))' <=> Accepted(i, t)
      /\ \A i, t : (NodeOf(i, Seen(i, t)))' = NodeOf(i, Seen(i, t))
      /\ \A i : (RecordsOf(i.target))' = RecordsOf(i.target)
      /\ \A i : Enrolled(i) => (Enrolled(i))'
  BY <1>1, EnrolledStays
<1>3. \A t, p : (Standing(t, p))' <=> Standing(t, p)
  BY <1>1 DEF Standing
<1>4. \A root, p : (Reaches(root, p))' <=> Reaches(root, p)
  BY <1>1 DEF Reaches
<1>5. IdentityInv'
  <2>1. pc' \in {"config", "manifests", "discover"} => nodes' = {}
    BY <1>1 DEF LoadInv, IdentityInv
  <2>2. ASSUME Loading'
        PROVE  /\ \A k \in DOMAIN records' : \E i \in identities' : i.target = records'[k].target /\ i.path = records'[k].path
               /\ \A i \in identities' : (RecordsOf(i.target))' = {} =>
                    \E t \in trees' : At(t, i.path).kind # "absent" /\ Real(t, i.path) = i.target
               /\ \A p \in Spelled : (\A t \in trees' : (Standing(t, p))') =>
                    \/ \E i \in identities' : i.target = p
                    \/ pc' = "discover" /\ \E root \in Members(todo') : (Reaches(root, p))'
    <3>1. Loading
      BY <2>2
    <3>2. \A k \in DOMAIN records' : \E i \in identities' : i.target = records'[k].target /\ i.path = records'[k].path
      BY <1>1, <3>1 DEF LoadInv, IdentityInv
    <3>3. \A i \in identities' : (RecordsOf(i.target))' = {} =>
            \E t \in trees' : At(t, i.path).kind # "absent" /\ Real(t, i.path) = i.target
      BY <1>1, <1>2, <3>1 DEF LoadInv, IdentityInv
    <3>4. ASSUME NEW p \in Spelled, \A t \in trees' : (Standing(t, p))'
          PROVE  \/ \E i \in identities' : i.target = p
                 \/ pc' = "discover" /\ \E root \in Members(todo') : (Reaches(root, p))'
      <4>1. \A t \in trees : Standing(t, p)
        BY <1>3, <3>4
      <4>2. \/ \E i \in identities : i.target = p
            \/ pc = "discover" /\ \E root \in Members(todo) : Reaches(root, p)
        BY <3>1, <4>1 DEF LoadInv, IdentityInv
      <4>3. CASE \E i \in identities : i.target = p
        BY <1>1, <4>3
      <4>4. CASE pc = "discover" /\ \E root \in Members(todo) : Reaches(root, p)
        <5>1. CASE pc' = "discover"
          BY <1>4, <4>4, <5>1
        <5>2. CASE pc' # "discover"
          <6>1. Loading' /\ pc = "discover"
            BY <2>2, <4>4
          <6>2. Assembled'
            BY <2>2, <5>2, <6>1 DEF Loading, Assembled
          <6> QED BY <6>1, <6>2 DEF Assembled
        <5> QED BY <5>1, <5>2
      <4> QED BY <4>2, <4>3, <4>4
    <3> QED BY <3>2, <3>3, <3>4
  <2> QED BY <2>1, <2>2 DEF IdentityInv
<1>6. NodeInv'
  <2>1. \A n \in nodes' : Contained(n.target)
    BY <1>1 DEF LoadInv, NodeInv
  <2>2. ASSUME pc' = "assemble"
        PROVE  /\ Members(todo') \subseteq identities' /\ Distinct(todo')
               /\ \A i \in identities' : i \in Members(todo') \/ (Enrolled(i))'
               /\ \A i \in Members(todo'), n \in nodes' : n.target # i.target
    BY <1>1, <1>2, <2>2 DEF LoadInv, NodeInv
  <2>3. ASSUME Assembled'
        PROVE  /\ \A i \in identities' : (Enrolled(i))'
               /\ \A m, n \in nodes' : m # n => m.id # n.id
    BY <1>1, <1>2, <2>3 DEF LoadInv, NodeInv
  <2>4. ASSUME pc' = "assemble" \/ Assembled'
        PROVE  /\ \A n \in nodes' : \E i \in identities', t \in trees' : (Accepted(i, t))' /\ n \in (NodeOf(i, Seen(i,
                    t)))'
               /\ \A m, n \in nodes' : m.target = n.target => m = n
    BY <1>1, <1>2, <2>4 DEF LoadInv, NodeInv
  <2> QED BY <2>1, <2>2, <2>3, <2>4 DEF NodeInv
<1> QED BY <1>5, <1>6 DEF LoadInv

LEMMA LoadConfigEnrolls ==
  ASSUME LoadInv, TypeInv', NEW next \in {"manifests", "links"}, load_config(next)
  PROVE  LoadInv'
<1>1. /\ pc = "config" /\ pc' \in {"refused", "manifests", "links"} /\ UNCHANGED <<identities, nodes>>
  BY DEF load_config
<1>2. nodes' = {}
  BY <1>1 DEF LoadInv, IdentityInv
<1> QED BY <1>1, <1>2 DEF LoadInv, IdentityInv, NodeInv, Loading, Assembled

LEMMA BuildEnrolls ==
  ASSUME LoadInv, TypeInv', build_registration_index
  PROVE  LoadInv'
<1>1. /\ pc = "manifests" /\ pc' \in {"refused", "manifests"} /\ UNCHANGED <<identities, nodes>>
  BY DEF build_registration_index
<1>2. nodes' = {}
  BY <1>1 DEF LoadInv, IdentityInv
<1> QED BY <1>1, <1>2 DEF LoadInv, IdentityInv, NodeInv, Loading, Assembled

LEMMA RegisteredEnrolls ==
  ASSUME LoadInv, TypeInv', Registered, UNCHANGED links
  PROVE  LoadInv'
<1>1. /\ pc = "manifests" /\ pc' = "discover" /\ UNCHANGED <<trees, walk, config, records, nodes>>
      /\ todo' = config.roots
      /\ identities' = {[target |-> records[i].target, path |-> records[i].path] : i \in DOMAIN records}
  BY DEF Registered
<1>2. nodes' = {}
  BY <1>1 DEF LoadInv, IdentityInv
<1>3. \A k \in DOMAIN records' : \E i \in identities' : i.target = records'[k].target /\ i.path = records'[k].path
  <2> TAKE k \in DOMAIN records'
  <2>1. [target |-> records[k].target, path |-> records[k].path] \in identities'
    BY <1>1
  <2> QED BY <1>1, <2>1
<1>4. \A i \in identities' : (RecordsOf(i.target))' # {}
  <2> TAKE i \in identities'
  <2>1. PICK k \in DOMAIN records : i.target = records[k].target
    BY <1>1
  <2>2. records[k] \in (RecordsOf(i.target))'
    BY <1>1, <2>1 DEF RecordsOf
  <2> QED BY <2>2
<1>5. ASSUME NEW p \in Spelled, \A t \in trees' : (Standing(t, p))'
      PROVE  \E root \in Members(todo') : (Reaches(root, p))'
  <2>1. tree' \in trees'
    BY DEF TypeInv, TreeInv
  <2>2. (Standing(tree, p))'
    BY <1>5, <2>1
  <2>3. PICK k \in DOMAIN config'.roots : IsPrefix(config'.roots[k], p) /\ ~_ignored(p, config'.roots[k], config'.ignored)
    BY <2>2 DEF Standing
  <2>4. config.roots \in Seq(Paths)
    BY ConfigShape DEF LoadInv, TypeInv, ConfigInv
  <2>5. config'.roots[k] \in Members(todo') /\ (Reaches(config.roots[k], p))'
    BY <1>1, <2>3, <2>4 DEF Members, Reaches
  <2> QED BY <1>1, <2>5
<1>6. IdentityInv'
  BY <1>1, <1>2, <1>3, <1>4, <1>5 DEF IdentityInv
<1>7. NodeInv'
  BY <1>1, <1>2 DEF NodeInv, Assembled
<1> QED BY <1>6, <1>7 DEF LoadInv

\* The walk of a root finds a document under it that no link leads to.
LEMMA ReachedIsFound ==
  ASSUME TypeInv, NEW root \in Paths, NEW p \in Spelled, Standing(tree, p), Reaches(root, p)
  PROVE  \E c \in discover_doc_candidates(tree, root, config.ignored) : c.target = p
<1>1. Tree(tree)
  BY DEF TypeInv, TreeInv
<1>2. /\ At(tree, p).kind = "file" /\ IsMarkdown(p) /\ Contained(p) /\ IsPrefix(root, p)
      /\ ~_ignored(p, root, config.ignored)
  BY DEF Standing, Reaches
<1>3. \A n \in 0 .. Len(p) - 1 : At(tree, Up(p, n)).kind = "dir"
  BY <1>1, <1>2, DirsAbove DEF Tree, Spelled
<1>4. Real(tree, p) = p
  BY <1>1, <1>2, <1>3, RealThroughDirs DEF Tree, Through
<1>5. p \in Walked(tree, root)
  <2>1. Len(root) \in 0 .. Len(p) /\ root = Up(p, Len(root))
    <3>1. Len(root) \in Nat /\ Len(p) \in Nat /\ Len(root) <= Len(p)
      BY <1>2 DEF Paths, Spelled, IsPrefix
    <3>2. \A k \in 1 .. Len(root) : root[k] = p[k]
      BY <1>2, <3>1 DEF Paths, Spelled, IsPrefix
    <3>3. Len(root) \in 0 .. Len(p)
      BY <3>1
    <3>4. Up(p, Len(root)) \in Paths /\ Len(Up(p, Len(root))) = Len(root)
          /\ \A k \in 1 .. Len(root) : Up(p, Len(root))[k] = p[k]
      BY <3>3, UpFacts DEF Spelled
    <3>5. root = Up(p, Len(root))
      BY <3>2, <3>4 DEF Paths
    <3> QED BY <3>3, <3>5
  <2>2. CASE Len(root) = Len(p)
    <3>1. root = p
      BY <2>1, <2>2, UpSteps DEF Spelled
    <3> QED BY <1>2, <3>1 DEF Walked
  <2>3. CASE Len(root) < Len(p)
    <3>1. At(tree, root).kind = "dir"
      <4>1. Len(root) \in 0 .. Len(p) - 1
        BY <2>1, <2>3 DEF Spelled, Paths
      <4> QED BY <1>3, <2>1, <4>1
    <3>2. p \in DOMAIN tree
      BY <1>2 DEF At, Absent, Dir, Spelled
    <3>3. Head(p) # Outside
      BY <1>2 DEF Contained, Spelled
    <3>4. IsStrictPrefix(root, p)
      BY <1>2, <2>3 DEF IsStrictPrefix
    <3> QED BY <1>2, <3>1, <3>2, <3>3, <3>4 DEF Walked
  <2> QED BY <2>1, <2>2, <2>3 DEF Spelled, Paths
<1>6. p \in Found(tree, root, config.ignored)
  BY <1>2, <1>4, <1>5 DEF Found, IsFile, Stat
<1>7. \E c \in discover_doc_candidates(tree, root, config.ignored) : c.target = Real(tree, p)
  BY <1>1, <1>2, <1>4, <1>6, DiscoverFacts
<1> QED BY <1>4, <1>7

LEMMA DiscoverEnrolls ==
  ASSUME LoadInv, TypeInv', Discover, UNCHANGED links
  PROVE  LoadInv'
<1> DEFINE root == Head(todo)
           found == discover_doc_candidates(tree, root, config.ignored)
           fresh == {c \in found : c.target \notin {i.target : i \in identities}}
<1>1. /\ pc = "discover" /\ todo # <<>> /\ pc' = pc /\ todo' = Tail(todo)
      /\ UNCHANGED <<tree, trees, walk, config, manifests, records, nodes>>
      /\ identities' = identities \cup fresh
  BY DEF Discover
<1>2. todo \in Seq(Paths) /\ Loading /\ TypeInv
  BY <1>1 DEF LoadInv, TypeInv, TodoInv, PhaseInv, LoadPhases, Loading
<1>3. root \in Paths /\ Members(todo) = {root} \cup Members(Tail(todo))
  BY <1>1, <1>2, TailMembers
<1>4. tree \in trees /\ Tree(tree)
  BY <1>2 DEF TypeInv, TreeInv
<1>5. \A c \in found : /\ c \in Identity
                       /\ c.path \in Found(tree, root, config.ignored) /\ Real(tree, c.path) = c.target
  BY <1>3, <1>4, DiscoverFacts
<1>6. \A c \in found : At(tree, c.path).kind # "absent"
  BY <1>3, <1>4, <1>5, WalkedFacts
<1>7. \A p \in Spelled : Standing(tree, p) /\ Reaches(root, p) => \E c \in found : c.target = p
  BY <1>2, <1>3, ReachedIsFound
<1> HIDE DEF found, root
<1>8. \A t, p : (Standing(t, p))' <=> Standing(t, p)
  BY <1>1 DEF Standing
<1>9. \A r, p : (Reaches(r, p))' <=> Reaches(r, p)
  BY <1>1 DEF Reaches
<1>10. \A target : (RecordsOf(target))' = RecordsOf(target)
  BY <1>1 DEF RecordsOf
<1>11. nodes' = {}
  BY <1>1 DEF LoadInv, IdentityInv
<1>12. \A k \in DOMAIN records' : \E i \in identities' : i.target = records'[k].target /\ i.path = records'[k].path
  BY <1>1, <1>2 DEF LoadInv, IdentityInv
<1>13. \A i \in identities' : (RecordsOf(i.target))' = {} =>
         \E t \in trees' : At(t, i.path).kind # "absent" /\ Real(t, i.path) = i.target
  <2> TAKE i \in identities'
  <2>1. CASE i \in identities
    BY <1>1, <1>2, <1>10, <2>1 DEF LoadInv, IdentityInv
  <2>2. CASE i \in found
    BY <1>1, <1>4, <1>5, <1>6, <2>2
  <2> QED BY <1>1, <2>1, <2>2
<1>14. ASSUME NEW p \in Spelled, \A t \in trees' : (Standing(t, p))'
       PROVE  \/ \E i \in identities' : i.target = p
              \/ pc' = "discover" /\ \E r \in Members(todo') : (Reaches(r, p))'
  <2>1. \A t \in trees : Standing(t, p)
    BY <1>1, <1>8, <1>14
  <2>2. \/ \E i \in identities : i.target = p
        \/ \E r \in Members(todo) : Reaches(r, p)
    BY <1>2, <2>1 DEF LoadInv, IdentityInv
  <2>3. CASE \E i \in identities : i.target = p
    BY <1>1, <2>3
  <2>4. CASE Reaches(root, p)
    <3>1. PICK c \in found : c.target = p
      BY <1>4, <1>7, <2>1, <2>4
    <3>2. CASE c.target \in {i.target : i \in identities}
      BY <1>1, <3>1, <3>2
    <3>3. CASE c.target \notin {i.target : i \in identities}
      BY <1>1, <3>1, <3>3
    <3> QED BY <3>2, <3>3
  <2>5. CASE \E r \in Members(Tail(todo)) : Reaches(r, p)
    BY <1>1, <1>9, <2>5
  <2> QED BY <1>3, <2>2, <2>3, <2>4, <2>5
<1>15. IdentityInv'
  BY <1>11, <1>12, <1>13, <1>14 DEF IdentityInv
<1>16. NodeInv'
  BY <1>1, <1>11 DEF NodeInv, Assembled
<1> QED BY <1>15, <1>16 DEF LoadInv

LEMMA DiscoveredEnrolls ==
  ASSUME LoadInv, TypeInv', Discovered, UNCHANGED links
  PROVE  LoadInv'
<1>1. /\ pc = "discover" /\ todo = <<>> /\ pc' = "assemble"
      /\ UNCHANGED <<tree, trees, walk, config, manifests, records, identities, nodes>>
      /\ LET paths == Sorted({i.path : i \in identities})
         IN  todo' = Joined([k \in DOMAIN paths |-> SetToSeq({i \in identities : i.path = paths[k]})])
  BY DEF Discovered
<1>2. identities \in SUBSET Identity /\ IsFiniteSet(identities)
  BY DEF LoadInv, TypeInv, EnrollInv
<1>3. Members(todo') = identities /\ Distinct(todo')
  BY <1>1, <1>2, ListedMembers
<1>4. Loading
  BY <1>1 DEF LoadInv, TypeInv, PhaseInv, LoadPhases, Loading
<1>5. \A t, p : (Standing(t, p))' <=> Standing(t, p)
  BY <1>1 DEF Standing
<1>6. \A target : (RecordsOf(target))' = RecordsOf(target)
  BY <1>1 DEF RecordsOf
<1>7. nodes' = {} /\ Members(todo) = {}
  BY <1>1 DEF LoadInv, IdentityInv, Members
<1>8. IdentityInv'
  <2>1. \A p \in Spelled : (\A t \in trees' : (Standing(t, p))') => \E i \in identities' : i.target = p
    BY <1>1, <1>4, <1>5, <1>7 DEF LoadInv, IdentityInv
  <2>2. \A k \in DOMAIN records' : \E i \in identities' : i.target = records'[k].target /\ i.path = records'[k].path
    BY <1>1, <1>4 DEF LoadInv, IdentityInv
  <2>3. \A i \in identities' : (RecordsOf(i.target))' = {} =>
          \E t \in trees' : At(t, i.path).kind # "absent" /\ Real(t, i.path) = i.target
    BY <1>1, <1>4, <1>6 DEF LoadInv, IdentityInv
  <2> QED BY <1>7, <2>1, <2>2, <2>3 DEF IdentityInv
<1>9. NodeInv'
  BY <1>1, <1>3, <1>7 DEF NodeInv, Assembled
<1> QED BY <1>8, <1>9 DEF LoadInv

LEMMA AcquireEnrolls ==
  ASSUME LoadInv, TypeInv', Acquire, UNCHANGED links
  PROVE  LoadInv'
<1>0. PICK i : i = Head(todo)
  OBVIOUS
<1>1. /\ pc = "assemble" /\ todo # <<>> /\ pc' = pc /\ todo' = Tail(todo) /\ Acquirable(i)
      /\ UNCHANGED <<tree, trees, walk, config, manifests, records, identities>>
      /\ nodes' = nodes \cup NodeOf(i, Facts(i))
      /\ warned' = warned \cup (IF RecordsOf(i.target) = {} THEN _report_load_diagnostics(i.path, Facts(i)) ELSE {})
  BY <1>0 DEF Acquire
<1>2. todo \in Seq(Identity) /\ Loading /\ TypeInv /\ EnrollInv /\ tree \in trees
  BY <1>1 DEF LoadInv, TypeInv, TodoInv, PhaseInv, LoadPhases, Loading, TreeInv
<1>3. /\ Members(todo) \subseteq identities /\ Distinct(todo)
      /\ \A j \in identities : j \in Members(todo) \/ Enrolled(j)
      /\ \A j \in Members(todo), n \in nodes : n.target # j.target
      /\ \A n \in nodes : \E j \in identities, t \in trees : Accepted(j, t) /\ n \in NodeOf(j, Seen(j, t))
      /\ \A m, n \in nodes : m.target = n.target => m = n
      /\ \A n \in nodes : Contained(n.target)
  BY <1>1 DEF LoadInv, NodeInv
<1>4. i \in Members(todo) /\ Members(todo) = {i} \cup Members(Tail(todo)) /\ Distinct(Tail(todo)) /\ i \notin Members(Tail(todo))
  BY <1>0, <1>1, <1>2, <1>3, TailMembers
<1>5. Facts(i) = Seen(i, tree) /\ Accepted(i, tree)
  BY <1>1 DEF Facts, Seen, Accepted, Acquirable
<1>6. /\ \A n \in NodeOf(i, Seen(i, tree)) : n.target = i.target
      /\ \A m, n \in NodeOf(i, Seen(i, tree)) : m = n
  BY <1>2, NodeFacts
<1>7. /\ \A j, t : (Accepted(j, t))' <=> Accepted(j, t)
      /\ \A j, t : (NodeOf(j, Seen(j, t)))' = NodeOf(j, Seen(j, t))
      /\ \A j : (RecordsOf(j.target))' = RecordsOf(j.target)
      /\ \A j : Enrolled(j) => (Enrolled(j))'
  BY <1>1, EnrolledStays
<1>8. IdentityInv'
  <2>1. \A t, p : (Standing(t, p))' <=> Standing(t, p)
    BY <1>1 DEF Standing
  <2>2. \A p \in Spelled : (\A t \in trees' : (Standing(t, p))') => \E j \in identities' : j.target = p
    BY <1>1, <1>2, <2>1 DEF LoadInv, IdentityInv
  <2>3. \A k \in DOMAIN records' : \E j \in identities' : j.target = records'[k].target /\ j.path = records'[k].path
    BY <1>1, <1>2 DEF LoadInv, IdentityInv
  <2>4. \A j \in identities' : (RecordsOf(j.target))' = {} =>
          \E t \in trees' : At(t, j.path).kind # "absent" /\ Real(t, j.path) = j.target
    BY <1>1, <1>2, <1>7 DEF LoadInv, IdentityInv
  <2> QED BY <1>1, <2>2, <2>3, <2>4 DEF IdentityInv
<1>9. (Enrolled(i))'
  <2>1. (Accepted(i, tree))' /\ (NodeOf(i, Seen(i, tree)) \subseteq nodes)'
    BY <1>1, <1>5, <1>7
  <2>2. (RecordsOf(i.target) = {} => _report_load_diagnostics(i.path, Seen(i, tree)) \subseteq warned)'
    BY <1>1, <1>5, <1>7 DEF Seen, ReadAt, RecordsOf
  <2> QED BY <1>1, <1>2, <2>1, <2>2 DEF Enrolled
<1>10. i \in identities /\ Contained(i.target) /\ \A j \in identities : j.target = i.target => j = i
  BY <1>2, <1>3, <1>4 DEF EnrollInv
<1>11. \A n \in nodes' : n \in nodes \/ (n \in NodeOf(i, Seen(i, tree)) /\ n.target = i.target)
  BY <1>1, <1>5, <1>6
<1>12. \A n \in nodes' : Contained(n.target)
  BY <1>3, <1>10, <1>11
<1>13. Members(todo') \subseteq identities' /\ Distinct(todo')
  BY <1>1, <1>3, <1>4
<1>14. \A j \in identities' : j \in Members(todo') \/ (Enrolled(j))'
  BY <1>1, <1>3, <1>4, <1>7, <1>9
<1>15. \A j \in Members(todo'), n \in nodes' : n.target # j.target
  BY <1>1, <1>3, <1>4, <1>10, <1>11
<1>16. \A n \in nodes' : \E j \in identities', t \in trees' : (Accepted(j, t))' /\ n \in (NodeOf(j, Seen(j, t)))'
  <2> TAKE n \in nodes'
  <2>1. CASE n \in nodes
    BY <1>1, <1>3, <1>7, <2>1
  <2>2. CASE n \in NodeOf(i, Seen(i, tree))
    BY <1>1, <1>2, <1>5, <1>7, <1>10, <2>2
  <2> QED BY <1>11, <2>1, <2>2
<1>17. \A m, n \in nodes' : m.target = n.target => m = n
  BY <1>3, <1>4, <1>6, <1>11
<1>18. NodeInv'
  BY <1>1, <1>12, <1>13, <1>14, <1>15, <1>16, <1>17 DEF NodeInv, Assembled
<1> QED BY <1>8, <1>18 DEF LoadInv

LEMMA AssembledEnrolls ==
  ASSUME LoadInv, TypeInv', _assemble, UNCHANGED links
  PROVE  LoadInv'
<1>1. /\ pc = "assemble" /\ todo = <<>> /\ pc' \in {"refused", "loaded", "walk"}
      /\ UNCHANGED <<tree, trees, config, manifests, records, identities, nodes, warned>>
      /\ pc' # "refused" => \A m, n \in nodes : m # n => m.id # n.id
  BY DEF _assemble, select_paths
<1>2. Loading /\ TypeInv /\ Members(todo) = {}
  BY <1>1 DEF LoadInv, TypeInv, PhaseInv, LoadPhases, Loading, Members
<1>3. /\ \A j \in identities : Enrolled(j)
      /\ \A n \in nodes : \E j \in identities, t \in trees : Accepted(j, t) /\ n \in NodeOf(j, Seen(j, t))
      /\ \A m, n \in nodes : m.target = n.target => m = n
      /\ \A n \in nodes : Contained(n.target)
  BY <1>1, <1>2 DEF LoadInv, NodeInv
<1>4. /\ \A j, t : (Accepted(j, t))' <=> Accepted(j, t)
      /\ \A j, t : (NodeOf(j, Seen(j, t)))' = NodeOf(j, Seen(j, t))
      /\ \A j : (RecordsOf(j.target))' = RecordsOf(j.target)
      /\ \A j : Enrolled(j) => (Enrolled(j))'
  BY <1>1, EnrolledStays
<1>5. IdentityInv'
  <2>1. \A t, p : (Standing(t, p))' <=> Standing(t, p)
    BY <1>1 DEF Standing
  <2>2. \A p \in Spelled : (\A t \in trees' : (Standing(t, p))') => \E j \in identities' : j.target = p
    BY <1>1, <1>2, <2>1 DEF LoadInv, IdentityInv
  <2>3. \A k \in DOMAIN records' : \E j \in identities' : j.target = records'[k].target /\ j.path = records'[k].path
    BY <1>1, <1>2 DEF LoadInv, IdentityInv
  <2>4. \A j \in identities' : (RecordsOf(j.target))' = {} =>
          \E t \in trees' : At(t, j.path).kind # "absent" /\ Real(t, j.path) = j.target
    BY <1>1, <1>2, <1>4 DEF LoadInv, IdentityInv
  <2> QED BY <1>1, <2>2, <2>3, <2>4 DEF IdentityInv
<1>6. NodeInv'
  <2>1. \A n \in nodes' : Contained(n.target)
    BY <1>1, <1>3
  <2>2. \A j \in identities' : (Enrolled(j))'
    BY <1>1, <1>3, <1>4
  <2>3. \A n \in nodes' : \E j \in identities', t \in trees' : (Accepted(j, t))' /\ n \in (NodeOf(j, Seen(j, t)))'
    BY <1>1, <1>3, <1>4
  <2>4. \A m, n \in nodes' : m.target = n.target => m = n
    BY <1>1, <1>3
  <2> QED BY <1>1, <2>1, <2>2, <2>3, <2>4 DEF NodeInv, Assembled
<1> QED BY <1>5, <1>6 DEF LoadInv

LEMMA LoadInvStep ==
  ASSUME LoadInv, [Next]_vars
  PROVE  LoadInv'
<1>1. TypeInv /\ TypeInv'
  BY TypedStep DEF LoadInv
<1>2. trees \subseteq trees'
  BY <1>1, TreeSteps DEF TypeInv
<1>3. CASE Load
  <2>1. LoadStep /\ UNCHANGED links /\ walk.strict
    BY <1>3 DEF Load
  <2>2. ASSUME CoverageWalk PROVE LoadInv'
    <3>1. pc = "walk" /\ pc' \in {"walk", "refused", "cover"} /\ UNCHANGED Enrollments
      BY <1>1, <2>2, WalkLeaves DEF CoverageWalk, TypeInv, Enrollments
    <3>2. Loading /\ Assembled
      BY <2>1, <3>1 DEF Loading, Assembled
    <3> QED BY <1>1, <1>2, <3>1, <3>2, QuietStep
  <2>3. ASSUME AcquireRefused \/ Judge \/ Inspect \/ enforce_coverage PROVE LoadInv'
    <3>1. /\ UNCHANGED Enrollments /\ UNCHANGED walk /\ pc \in {"assemble", "cover", "inspect"}
          /\ pc' \in {"refused", "inspect", "loaded"} /\ (pc = "assemble" => pc' = "refused")
      BY <2>3 DEF AcquireRefused, Judge, Inspect, enforce_coverage, Enrollments
    <3>2. (Loading' => Loading) /\ (Assembled' => Assembled)
      BY <3>1 DEF Loading, Assembled
    <3> QED BY <1>1, <1>2, <3>1, <3>2, QuietStep
  <2>4. ASSUME load_config("manifests") PROVE LoadInv'
    BY <1>1, <2>4, LoadConfigEnrolls
  <2> QED BY <1>1, <2>1, <2>2, <2>3, <2>4, BuildEnrolls, RegisteredEnrolls, DiscoverEnrolls, DiscoveredEnrolls,
             AcquireEnrolls, AssembledEnrolls DEF LoadStep
<1>4. CASE CheckLinks
  <2>1. LinksStep /\ ~walk.strict
    BY <1>4 DEF CheckLinks
  <2>2. ASSUME load_config("links") PROVE LoadInv'
    BY <1>1, <2>2, LoadConfigEnrolls
  <2>3. ASSUME ~load_config("links") PROVE LoadInv'
    <3>1. UNCHANGED Enrollments /\ pc' \notin {"config", "manifests", "discover", "assemble"}
      BY <1>1, <2>1, <2>3, WalkLeaves DEF LinksStep, _require_link_sources, select_paths, SourceWalk, Selected,
           select_link_sources,
           select_legacy_marker_sources, _link_message, _stat_mode, AskTarget, Said, check_links, ReadSource, Report,
           loading, Enrollments, TypeInv
    <3>2. ~walk'.strict
      <4>1. CASE _require_link_sources
        BY <4>1 DEF _require_link_sources, select_paths, NoWalk
      <4>2. CASE SourceWalk
        BY <1>1, <2>1, <4>2, WalkLeaves DEF SourceWalk, TypeInv
      <4>3. CASE walk' = walk
        BY <2>1, <4>3
      <4>4. ASSUME \/ Selected \/ select_link_sources \/ select_legacy_marker_sources
                      \/ _link_message \/ _stat_mode \/ AskTarget \/ check_links \/ ReadSource \/ Report
            PROVE  walk' = walk
        BY <4>4 DEF Selected, select_link_sources, select_legacy_marker_sources, _link_message, _stat_mode, AskTarget,
             Said, check_links, ReadSource, Report
      <4> QED BY <2>1, <2>3, <4>1, <4>2, <4>3, <4>4 DEF LinksStep
    <3>3. ~Loading' /\ ~Assembled'
      BY <3>2 DEF Loading, Assembled
    <3> QED BY <1>1, <1>2, <3>1, <3>3, QuietStep
  <2> QED BY <2>2, <2>3
<1>5. CASE Edit \/ UNCHANGED vars
  <2>1. UNCHANGED <<pc, todo, walk>> /\ UNCHANGED Enrollments
    BY <1>5 DEF Edit, vars, loading, Enrollments
  <2>2. (Loading' <=> Loading) /\ (Assembled' <=> Assembled)
    BY <2>1 DEF Loading, Assembled
  <2> QED BY <1>1, <1>2, <2>1, <2>2, QuietStep
<1> QED BY <1>3, <1>4, <1>5 DEF Next

LEMMA LoadedIsOwned ==
  ASSUME LoadInv
  PROVE  OneOwner
<1>1. TypeOK
  <2>1. WellFormed(tree) /\ tree \in trees
    BY DEF LoadInv, TypeInv, TreeInv, Tree
  <2> QED BY <2>1 DEF TypeOK, LoadInv, TypeInv, PhaseInv, LoadPhases, LinkPhases, Checking, WalkInv, NodeInv
<1>2. ASSUME pc = "loaded"
      PROVE  /\ \A k \in DOMAIN records :
                  /\ \E n \in nodes : n.registered /\ n.id = records[k].id /\ n.path = records[k].path
                  /\ \A n \in nodes : n.target = records[k].target => n.registered
                  /\ \E t \in trees : IsFile(t, records[k].target) /\ ~Declares(Text(t, records[k].target).head)
             /\ \A m \in manifests, n \in nodes : n.target # m.place
             /\ \A m, n \in nodes : m # n => m.id # n.id /\ m.target # n.target
  <2>1. Assembled /\ Loading /\ EnrollInv /\ TreeInv
    BY <1>2 DEF LoadInv, TypeInv, PhaseInv, LoadPhases, Assembled, Loading
  <2>2. /\ \A n \in nodes : \E i \in identities, t \in trees : Accepted(i, t) /\ n \in NodeOf(i, Seen(i, t))
        /\ \A m, n \in nodes : m.target = n.target => m = n
        /\ \A m, n \in nodes : m # n => m.id # n.id
        /\ \A i \in identities : Enrolled(i)
    BY <2>1 DEF LoadInv, NodeInv
  <2>3. ASSUME NEW k \in DOMAIN records
        PROVE  /\ \E n \in nodes : n.registered /\ n.id = records[k].id /\ n.path = records[k].path
               /\ \A n \in nodes : n.target = records[k].target => n.registered
               /\ \E t \in trees : IsFile(t, records[k].target) /\ ~Declares(Text(t, records[k].target).head)
    <3>1. PICK i \in identities : i.target = records[k].target /\ i.path = records[k].path
      BY <2>1 DEF LoadInv, IdentityInv
    <3>2. PICK t \in trees : Accepted(i, t) /\ NodeOf(i, Seen(i, t)) \subseteq nodes
      BY <2>2 DEF Enrolled
    <3>3. records[k] \in RecordsOf(i.target)
      BY <3>1 DEF RecordsOf
    <3>4. \E n \in nodes : n.registered /\ n.id = records[k].id /\ n.path = records[k].path
      <4>1. PICK n \in NodeOf(i, Seen(i, t)) : n.id = records[k].id /\ n.registered
        BY <2>1, <3>3, NodeFacts
      <4>2. n.path = i.path
        BY <2>1, NodeFacts
      <4> QED BY <3>1, <3>2, <4>1, <4>2
    <3>5. ASSUME NEW n \in nodes, n.target = records[k].target PROVE n.registered
      <4>1. PICK j \in identities, u \in trees : Accepted(j, u) /\ n \in NodeOf(j, Seen(j, u))
        BY <2>2
      <4>2. n.target = j.target /\ n.registered = (RecordsOf(j.target) # {})
        BY <2>1, <4>1, NodeFacts
      <4>3. j.target = i.target
        BY <3>1, <3>5, <4>2
      <4> QED BY <3>3, <4>2, <4>3
    <3>6. ReadAt(i) = records[k].target
      BY <3>1, <3>3 DEF ReadAt
    <3>7. IsFile(t, records[k].target) /\ ~Failed(Seen(i, t)) /\ ~Claimed(Seen(i, t))
      BY <3>2, <3>3, <3>6 DEF Accepted, Conflict
    <3>8. Text(t, records[k].target).head \in Heads
      BY <2>1, <3>7, TextFacts DEF TreeInv
    <3>9. ~Declares(Text(t, records[k].target).head)
      BY <3>6, <3>7, <3>8, UnclaimedIsUndeclared DEF Seen
    <3> QED BY <3>4, <3>5, <3>7, <3>9
  <2>4. ASSUME NEW m \in manifests, NEW n \in nodes PROVE n.target # m.place
    <3>1. PICK j \in identities, u \in trees : Accepted(j, u) /\ n \in NodeOf(j, Seen(j, u))
      BY <2>2
    <3>2. n.target = j.target
      BY <2>1, <3>1, NodeFacts
    <3>3. ASSUME n.target = m.place PROVE FALSE
      <4>1. IsManifest(j.target)
        BY <3>2, <3>3 DEF IsManifest
      <4>2. RecordsOf(j.target) = {} /\ Seen(j, u).node = NoNode
        BY <3>1, <4>1 DEF Accepted, Conflict
      <4>3. NodeOf(j, Seen(j, u)) = {}
        BY <2>1, <4>2, NodeFacts
      <4> QED BY <3>1, <4>3
    <3> QED BY <3>3
  <2> QED BY <2>2, <2>3, <2>4
<1> QED BY <1>1, <1>2 DEF OneOwner

LEMMA LoadedIsSaid ==
  ASSUME LoadInv
  PROVE  IntentIsNeverSilent
<1> SUFFICES ASSUME pc = "loaded", NEW p \in DOMAIN tree, \A t \in trees : Standing(t, p) /\ At(t, p) = At(tree, p)
             PROVE  LET head == At(tree, p).text.head
                    IN  /\ Declares(head) => (\E n \in nodes : n.path = p) \/ (\E w \in warned : w[2] = p)
                        /\ DeclaresBelow(head) => \E w \in warned : w[2] = p
  BY DEF IntentIsNeverSilent
<1> DEFINE head == At(tree, p).text.head
<1>1. Assembled /\ Loading /\ EnrollInv /\ TreeInv
  BY DEF LoadInv, TypeInv, PhaseInv, LoadPhases, Assembled, Loading
<1>2. tree \in trees /\ Tree(tree)
  BY <1>1 DEF TreeInv
<1>3. p \in Spelled
  BY <1>2 DEF Tree, IsTree, Spelled, Paths
<1>4. PICK i \in identities : i.target = p
  BY <1>1, <1>3 DEF LoadInv, IdentityInv
<1>5. PICK t \in trees : /\ Accepted(i, t) /\ NodeOf(i, Seen(i, t)) \subseteq nodes
                         /\ RecordsOf(i.target) = {} => _report_load_diagnostics(i.path, Seen(i, t)) \subseteq warned
  BY <1>1 DEF LoadInv, NodeInv, Enrolled
\* At every tree of the run the path is the place of the document.
<1>6. \A u \in trees : IsFile(u, p) /\ Text(u, p).head = head
  <2> TAKE u \in trees
  <2>1. Tree(u) /\ At(u, p).kind = "file" /\ At(u, p) = At(tree, p)
    BY <1>1 DEF TreeInv, Standing
  <2>2. \A n \in 0 .. Len(p) - 1 : At(u, Up(p, n)).kind = "dir"
    BY <1>3, <2>1, DirsAbove DEF Tree, Spelled
  <2>3. Real(u, p) = p
    BY <1>3, <2>1, <2>2, RealThroughDirs DEF Tree, Through
  <2> QED BY <2>1, <2>3 DEF IsFile, Stat, Text
<1>7. RecordsOf(i.target) = {} => i.path = p
  <2> SUFFICES ASSUME RecordsOf(i.target) = {} PROVE i.path = p
    OBVIOUS
  <2>1. PICK u \in trees : At(u, i.path).kind # "absent" /\ Real(u, i.path) = i.target
    BY <1>1 DEF LoadInv, IdentityInv
  <2>2. Tree(u) /\ i.path \in Spelled
    BY <1>1 DEF TreeInv, EnrollInv, Identity
  <2>3. \A n \in 0 .. Len(i.path) - 1 : At(u, Up(i.path, n)).kind = "dir"
    BY <2>1, <2>2, DirsAbove DEF Tree, Spelled
  <2>4. Through(u, i.path) = p
    BY <1>4, <2>1, <2>2, <2>3, RealThroughDirs DEF Tree
  <2>5. CASE At(u, i.path).kind = "link"
    <3>1. i.path \in DOMAIN u /\ u[i.path].kind = "link" /\ u[i.path].to = p
      BY <2>2, <2>4, <2>5 DEF At, Absent, Dir, Spelled, Through
    <3>2. Unlinked(u, p)
      BY DEF Standing
    <3> QED BY <3>1, <3>2 DEF Unlinked
  <2>6. CASE At(u, i.path).kind # "link"
    BY <2>4, <2>6 DEF Through
  <2> QED BY <2>5, <2>6
<1>8. ReadAt(i) = p
  BY <1>4, <1>7 DEF ReadAt
<1>9. IsFile(t, p) /\ Text(t, p).head = head /\ head \in Heads
  <2>1. IsFile(t, p) /\ Text(t, p).head = head /\ Tree(t)
    BY <1>1, <1>6 DEF TreeInv
  <2> HIDE DEF head
  <2> QED BY <2>1, TextFacts
<1>10. Seen(i, t) = parse_document(head) /\ ~Failed(parse_document(head))
  BY <1>5, <1>8, <1>9 DEF Seen, Accepted
<1> HIDE DEF head
<1>11. CASE RecordsOf(i.target) # {}
  <2>1. ~Claimed(parse_document(head))
    BY <1>5, <1>10, <1>11 DEF Accepted, Conflict
  <2>2. ~Declares(head)
    BY <1>9, <1>10, <2>1, UnclaimedIsUndeclared
  <2>3. ~DeclaresBelow(head)
    BY <2>2 DEF Declares, DeclaresBelow
  <2> QED BY <2>2, <2>3 DEF head
<1>12. CASE RecordsOf(i.target) = {}
  <2> DEFINE said == _report_load_diagnostics(p, parse_document(head))
  <2>1. /\ Declares(head) => parse_document(head).node # NoNode \/ said # {}
        /\ DeclaresBelow(head) => said # {}
    BY <1>9, <1>10, DeclaredIsSaid
  <2>2. said \subseteq warned /\ \A w \in said : w[2] = p
    <3>1. said \subseteq warned
      BY <1>5, <1>7, <1>10, <1>12
    <3>2. \A w \in said : w[2] = p
      BY DEF _report_load_diagnostics
    <3> QED BY <3>1, <3>2
  <2>3. parse_document(head).node # NoNode => \E n \in nodes : n.path = p
    <3>1. parse_document(head).node # NoNode => NodeOf(i, parse_document(head)) # {}
      BY <1>1, <1>12, NodeFacts
    <3>2. \A n \in NodeOf(i, parse_document(head)) : n.path = p /\ n \in nodes
      BY <1>1, <1>5, <1>7, <1>10, <1>12, NodeFacts
    <3> QED BY <3>1, <3>2
  <2> HIDE DEF said
  <2>4. (Declares(head) => (\E n \in nodes : n.path = p) \/ (\E w \in warned : w[2] = p))
        /\ (DeclaresBelow(head) => \E w \in warned : w[2] = p)
    BY <2>1, <2>2, <2>3
  <2> QED BY <2>4 DEF head
<1> QED BY <1>11, <1>12

LEMMA Loads == Spec => []LoadInv
<1>1. Init => LoadInv
  <2> SUFFICES ASSUME Init PROVE LoadInv
    OBVIOUS
  <2>1. pc = "config" /\ nodes = {}
    BY DEF Init
  <2> QED BY <2>1, InitTyped DEF LoadInv, IdentityInv, NodeInv, Loading, Assembled
<1>2. LoadInv /\ [Next]_vars => LoadInv'
  BY LoadInvStep
<1> QED BY <1>1, <1>2, PTL DEF Spec

\* Every record of a lattice that was loaded has its node and no other node its document, a
\* manifest is none, and no registered document declares itself as well.
THEOREM Ownership == Spec => []OneOwner
BY Loads, LoadedIsOwned, PTL

\* A document under a root that declares itself is a node of what was loaded, or the run
\* warned of it.
THEOREM Intent == Spec => []IntentIsNeverSilent
BY Loads, LoadedIsSaid, PTL

-----------------------------------------------------------------------------
(* What the walk finds.  A frame stands for a directory that the selector is laid    *)
(* along as far as its position, in which an exclusion takes nothing out.            *)

\* Nothing on the way to the path, nor the path, is excluded.
Clean(path, exclusions) == \A n \in 1 .. Len(path), x \in exclusions : ~selector_matches_path(x, Up(path, n))

LEMMA UpOfAppend ==
  ASSUME NEW path \in Paths, NEW name \in STRING
  PROVE  /\ \A n \in 0 .. Len(path) : Up(Append(path, name), n) = Up(path, n)
         /\ Up(Append(path, name), Len(path) + 1) = Append(path, name)
<1> DEFINE more == Append(path, name)
<1>1. more \in Paths /\ Len(more) = Len(path) + 1 /\ \A k \in 1 .. Len(path) : more[k] = path[k]
  BY AppendFacts DEF Spelled
<1>2. Len(path) \in Nat
  BY DEF Paths
<1> HIDE DEF more
<1>3. ASSUME NEW n \in 0 .. Len(path) PROVE Up(more, n) = Up(path, n)
  <2>1. n \in 0 .. Len(more)
    BY <1>1, <1>2
  <2>2. /\ Up(more, n) \in Paths /\ Len(Up(more, n)) = n /\ \A k \in 1 .. n : Up(more, n)[k] = more[k]
    BY <1>1, <2>1, UpFacts
  <2>3. /\ Up(path, n) \in Paths /\ Len(Up(path, n)) = n /\ \A k \in 1 .. n : Up(path, n)[k] = path[k]
    BY UpFacts
  <2>4. \A k \in 1 .. n : Up(more, n)[k] = Up(path, n)[k]
    BY <1>1, <1>2, <2>2, <2>3
  <2> QED BY <2>2, <2>3, <2>4 DEF Paths
<1>4. Up(more, Len(path) + 1) = more
  BY <1>1, UpSteps
<1> QED BY <1>3, <1>4 DEF more

LEMMA CleanAppend ==
  ASSUME NEW path \in Paths, NEW name \in STRING, NEW exclusions
  PROVE  Clean(Append(path, name), exclusions) <=>
           Clean(path, exclusions) /\ \A x \in exclusions : ~selector_matches_path(x, Append(path, name))
<1>1. Len(Append(path, name)) = Len(path) + 1 /\ Len(path) \in Nat
  BY AppendFacts DEF Paths
<1>2. \A n \in 1 .. Len(path) + 1 : n \in 1 .. Len(path) \/ n = Len(path) + 1
  BY <1>1
<1>3. \A n \in 1 .. Len(path) : n \in 0 .. Len(path) /\ n \in 1 .. Len(path) + 1
  BY <1>1
<1>4. Len(path) + 1 \in 1 .. Len(path) + 1
  BY <1>1
<1> QED BY <1>1, <1>2, <1>3, <1>4, UpOfAppend DEF Clean

LEMMA CleanMeans ==
  ASSUME NEW path \in Spelled, NEW exclusions \in SUBSET Selector
  PROVE  Clean(path, exclusions) <=> \A a \in Ancestors(path) \cup {path} : \A x \in exclusions : ~Aligned(x, a)
<1>1. Len(path) \in Nat /\ Len(path) >= 1 /\ path \in Paths
  BY DEF Spelled, Paths, Root
<1>2. \A n \in 1 .. Len(path) : Up(path, n) \in Spelled
  <2> TAKE n \in 1 .. Len(path)
  <2>1. n \in 0 .. Len(path)
    BY <1>1
  <2>2. Up(path, n) \in Paths /\ Len(Up(path, n)) = n
    BY <1>1, <2>1, UpFacts
  <2> QED BY <2>2 DEF Spelled, Root
<1>3. \A n \in 1 .. Len(path), x \in exclusions : selector_matches_path(x, Up(path, n)) <=> Aligned(x, Up(path, n))
  BY <1>2, MatcherIsRight
<1>4. Ancestors(path) \cup {path} = {Up(path, n) : n \in 1 .. Len(path)}
  <2>1. Up(path, Len(path)) = path
    BY <1>1, UpSteps
  <2>2. \A n \in 1 .. Len(path) : n \in 1 .. Len(path) - 1 \/ n = Len(path)
    BY <1>1
  <2>3. \A n \in 1 .. Len(path) - 1 : n \in 1 .. Len(path)
    BY <1>1
  <2>4. Len(path) \in 1 .. Len(path)
    BY <1>1
  <2>5. Ancestors(path) = {Up(path, n) : n \in 1 .. Len(path) - 1}
    BY DEF Ancestors, Up
  <2> QED BY <2>1, <2>2, <2>3, <2>4, <2>5
<1> QED BY <1>3, <1>4 DEF Clean

\* Only the first names matter.
LEMMA LaidPrefix ==
  ASSUME NEW segments, NEW path, NEW other, NEW n, \A i \in 1 .. n : path[i] = other[i], NEW q,
         Laid(segments, path, n, q)
  PROVE  Laid(segments, other, n, q)
<1>1. PICK f : LaysOut(f, segments, path, n, q)
  BY DEF Laid
<1>2. \A i \in 1 .. n : Fits(segments[f[i]], other[i])
  BY <1>1 DEF LaysOut
<1>3. LaysOut(f, segments, other, n, q)
  BY <1>1, <1>2 DEF LaysOut
<1> QED BY <1>3 DEF Laid

LEMMA LaidOn ==
  ASSUME NEW segments \in Selector, NEW path \in Paths, NEW n \in 0 .. Len(path),
         NEW p \in DOMAIN segments, NEW q \in DOMAIN segments, Laid(segments, path, n, p), Passes(segments, p, q)
  PROVE  Laid(segments, path, n, q)
<1>1. \A r \in Nat : Passes(segments, r, p) => Passes(segments, r, q)
  BY DEF Passes, Selector
<1>2. CASE n = 0
  <2>1. Passes(segments, 1, p)
    BY <1>2, LaidStart
  <2> QED BY <1>1, <1>2, <2>1, LaidStart
<1>3. CASE n # 0
  <2>1. n \in 1 .. Len(path)
    BY <1>3
  <2>2. PICK r \in DOMAIN segments : /\ Laid(segments, path, n - 1, r) /\ Fits(segments[r], path[n])
                                     /\ Passes(segments, After(segments, r), p)
    BY <2>1, LaidNext
  <2>3. After(segments, r) \in Nat
    BY DEF After, Selector
  <2>4. Passes(segments, After(segments, r), q)
    BY <1>1, <2>2, <2>3
  <2> QED BY <2>1, <2>2, <2>4, LaidNext
<1> QED BY <1>2, <1>3

\* One name further.
LEMMA LaidAppend ==
  ASSUME NEW segments \in Selector, NEW path \in Paths, NEW name \in STRING, NEW p \in DOMAIN segments,
         Laid(segments, path, Len(path), p), Fits(segments[p], name)
  PROVE  /\ After(segments, p) \in DOMAIN segments =>
              Laid(segments, Append(path, name), Len(Append(path, name)), After(segments, p))
         /\ p = Len(segments) => Aligned(segments, Append(path, name))
<1> DEFINE more == Append(path, name)
<1>1. /\ more \in Spelled /\ Len(more) = Len(path) + 1 /\ Len(path) \in Nat /\ more[Len(more)] = name
      /\ \A k \in 1 .. Len(path) : path[k] = more[k]
  <2>1. Len(path) \in Nat
    BY DEF Paths
  <2>2. more \in Spelled /\ Len(more) = Len(path) + 1 /\ more[Len(path) + 1] = name
    BY AppendFacts
  <2>3. \A k \in 1 .. Len(path) : path[k] = more[k]
    BY AppendFacts
  <2> HIDE DEF more
  <2> QED BY <2>1, <2>2, <2>3
<1> HIDE DEF more
<1>2. Laid(segments, more, Len(more) - 1, p)
  <2>1. Laid(segments, more, Len(path), p)
    BY <1>1, LaidPrefix
  <2>2. Len(more) - 1 = Len(path)
    BY <1>1
  <2> QED BY <2>1, <2>2
<1>3. ASSUME After(segments, p) \in DOMAIN segments
      PROVE  Laid(segments, more, Len(more), After(segments, p))
  <2>1. Passes(segments, After(segments, p), After(segments, p))
    BY <1>3 DEF Passes, Selector
  <2>2. Len(more) \in 1 .. Len(more) /\ more \in Paths
    BY <1>1 DEF Spelled
  <2> QED BY <1>1, <1>2, <1>3, <2>1, <2>2, LaidNext
<1>4. p = Len(segments) => Aligned(segments, more)
  BY <1>1, <1>2, LaidAligned
<1> QED BY <1>3, <1>4 DEF more

FrameSound(frame) ==
  /\ Laid(Segments, frame.prefix, Len(frame.prefix), frame.index)
  /\ Clean(frame.prefix, walk.exclusions)
  /\ \A e \in frame.entries, x \in walk.exclusions : ~selector_matches_path(x, Append(frame.prefix, e.name))

SoundInv ==
  pc = "walk" =>
    /\ \A frame \in Members(walk.pending) : FrameSound(frame)
    /\ \A p \in walk.found : Aligned(Segments, p) /\ Clean(p, walk.exclusions)

LEMMA SoundExpand ==
  ASSUME TreeInv, WalkInv, SoundInv, Expand
  PROVE  SoundInv'
<1>1. /\ Top \in FrameType /\ Segments \in Selector /\ Top.index \in DOMAIN Segments /\ Segments[Top.index] \in Segment
      /\ EntriesOf(Top) \in SUBSET Entry
      /\ Expansion(Top, Segments, EntriesOf(Top))
  BY ExpandFacts
<1>2. pc = "walk" /\ pc' = "walk" /\ walk.pending # <<>> /\ walk.pending \in Seq(FrameType)
  BY DEF Expand, WalkInv, WalkType
<1>3. Members(walk.pending) = Members(Front(walk.pending)) \cup {Top}
  BY <1>2, FrontMembers DEF Top
<1> DEFINE frame == Top
           entries == EntriesOf(frame)
           segment == Segments[frame.index]
           last == frame.index = Len(Segments)
           candidates == Candidates(entries, segment)
           refused == Refused(tree, frame.prefix, candidates, segment, last, walk.strict)
           entered == Entered(candidates, segment, last)
<1>4. /\ Members(walk'.pending) = Members(Front(walk.pending)) \cup
           IF segment.deep
           THEN Children(frame, entered, frame.index) \cup (IF last THEN {} ELSE {Handoff(frame, entries)})
           ELSE Children(frame, entered, frame.index + 1)
      /\ walk'.found = walk.found \cup {Append(frame.prefix, e.name) : e \in Matches(candidates, refused, last)}
      /\ walk' = [walk EXCEPT !.pending = walk'.pending, !.visited = walk'.visited, !.found = walk'.found,
                              !.refusals = walk'.refusals]
  BY <1>1 DEF Expansion
<1>5. walk'.selectors = walk.selectors /\ walk'.exclusions = walk.exclusions
  BY <1>4 DEF WalkInv, WalkType
<1>6. Segments' = Segments
  BY <1>5 DEF Segments
<1>7. \A g : FrameSound(g)' <=> FrameSound(g)
  BY <1>5, <1>6 DEF FrameSound
<1>8. FrameSound(frame) /\ \A g \in Members(Front(walk.pending)) : FrameSound(g)
  BY <1>2, <1>3 DEF SoundInv
<1>9. \A e \in entries : e.name \in STRING /\ \A x \in walk.exclusions : ~selector_matches_path(x, Append(frame.prefix,
e.name))
  BY <1>1, <1>8 DEF EntriesOf, _retained, FrameSound, Entry
<1>10. frame.prefix \in Paths
  BY <1>1 DEF FrameType
<1>11. /\ candidates \subseteq entries /\ \A e \in candidates : Fits(segment, e.name)
       /\ entered \subseteq candidates /\ Matches(candidates, refused, last) \subseteq candidates
  BY DEF Candidates, Fits, segment_matches, Entered, Matches
<1> HIDE DEF entries, candidates, refused, entered
<1>12. \A e \in candidates : Clean(Append(frame.prefix, e.name), walk.exclusions)
  <2> TAKE e \in candidates
  <2>1. e.name \in STRING /\ \A x \in walk.exclusions : ~selector_matches_path(x, Append(frame.prefix, e.name))
    BY <1>9, <1>11
  <2> QED BY <1>8, <1>10, <2>1, CleanAppend DEF FrameSound
<1>13. ASSUME NEW e \in candidates
       PROVE  /\ After(Segments, frame.index) \in DOMAIN Segments =>
                   FrameSound(Frame(Append(frame.prefix, e.name), After(Segments, frame.index)))
              /\ last => Aligned(Segments, Append(frame.prefix, e.name))
  <2>1. /\ Laid(Segments, frame.prefix, Len(frame.prefix), frame.index) /\ Fits(Segments[frame.index], e.name)
        /\ e.name \in STRING
    BY <1>8, <1>9, <1>11 DEF FrameSound
  <2> DEFINE more == Append(frame.prefix, e.name)
             k == After(Segments, frame.index)
  <2>2. /\ k \in DOMAIN Segments => Laid(Segments, more, Len(more), k)
        /\ last => Aligned(Segments, more)
    BY <1>1, <1>10, <2>1, LaidAppend
  <2>3. Frame(more, k).prefix = more /\ Frame(more, k).index = k /\ Frame(more, k).entries = {}
    BY DEF Frame
  <2>4. Clean(more, walk.exclusions)
    BY <1>12
  <2> HIDE DEF more, k
  <2>5. k \in DOMAIN Segments => FrameSound(Frame(more, k))
    BY <2>2, <2>3, <2>4 DEF FrameSound
  <2> QED BY <2>2, <2>5 DEF more, k
<1>14. \A g \in Children(frame, entered, After(Segments, frame.index)) : FrameSound(g)
  <2> TAKE g \in Children(frame, entered, After(Segments, frame.index))
  <2>1. PICK e \in entered : g = Frame(Append(frame.prefix, e.name), After(Segments, frame.index))
    BY DEF Children
  <2>2. segment.deep \/ ~last
    BY <2>1 DEF entered, Entered
  <2>3. After(Segments, frame.index) \in DOMAIN Segments
    BY <1>1, <2>2 DEF After, Selector
  <2> QED BY <1>11, <1>13, <2>1, <2>3
<1>15. segment.deep /\ ~last => FrameSound(Handoff(frame, entries))
  <2> SUFFICES ASSUME segment.deep, ~last PROVE FrameSound(Handoff(frame, entries))
    OBVIOUS
  <2>1. /\ Handoff(frame, entries).prefix = frame.prefix /\ Handoff(frame, entries).index = frame.index + 1
        /\ Handoff(frame, entries).entries = entries
    BY <1>1 DEF Handoff, FrameType
  <2>2. frame.index + 1 \in DOMAIN Segments /\ Passes(Segments, frame.index, frame.index + 1)
    BY <1>1 DEF Passes, Selector
  <2>3. Len(frame.prefix) \in 0 .. Len(frame.prefix)
    BY <1>10 DEF Paths
  <2>4. Laid(Segments, frame.prefix, Len(frame.prefix), frame.index + 1)
    BY <1>1, <1>8, <1>10, <2>2, <2>3, LaidOn DEF FrameSound
  <2> HIDE DEF frame
  <2> QED BY <1>8, <1>9, <2>1, <2>4 DEF FrameSound
<1>16. \A g \in Members(walk'.pending) : FrameSound(g)
  <2> TAKE g \in Members(walk'.pending)
  <2>1. CASE g \in Members(Front(walk.pending))
    BY <1>8, <2>1
  <2>2. CASE segment.deep /\ g \in Children(frame, entered, frame.index)
    BY <1>14, <2>2 DEF After
  <2>3. CASE segment.deep /\ ~last /\ g = Handoff(frame, entries)
    BY <1>15, <2>3
  <2>4. CASE ~segment.deep /\ g \in Children(frame, entered, frame.index + 1)
    BY <1>14, <2>4 DEF After
  <2> QED BY <1>4, <2>1, <2>2, <2>3, <2>4
<1>17. \A p \in walk'.found : Aligned(Segments, p) /\ Clean(p, walk.exclusions)
  <2> TAKE p \in walk'.found
  <2>1. CASE p \in walk.found
    BY <1>2, <2>1 DEF SoundInv
  <2>2. CASE \E e \in Matches(candidates, refused, last) : p = Append(frame.prefix, e.name)
    <3>1. PICK e \in candidates : p = Append(frame.prefix, e.name) /\ e \in Matches(candidates, refused, last)
      BY <1>11, <2>2
    <3>2. last
      BY <3>1 DEF Matches
    <3> QED BY <1>12, <1>13, <3>1, <3>2
  <2> QED BY <1>4, <2>1, <2>2
<1>18. \A g \in Members(walk.pending)' : FrameSound(g)'
  BY <1>7, <1>16 DEF Members
<1>19. \A p \in walk'.found : Aligned(Segments', p) /\ Clean(p, walk'.exclusions)
  BY <1>5, <1>6, <1>17
<1> QED BY <1>18, <1>19 DEF SoundInv

\* The root, at the first segment, is where a selector begins.
LEMMA StartSound ==
  ASSUME NEW segments \in Selector
  PROVE  Laid(segments, Root, 0, 1)
<1>1. Root \in Paths /\ 1 \in DOMAIN segments /\ Passes(segments, 1, 1)
  BY DEF Root, Paths, Selector, Passes
<1> QED BY <1>1, LaidStart

LEMMA SoundStart ==
  ASSUME WalkInv', pc' = "walk" => walk'.pending = <<Frame(Root, 1)>> /\ walk'.found = {}
  PROVE  SoundInv'
<1> SUFFICES ASSUME pc' = "walk"
             PROVE  /\ \A frame \in Members(walk.pending)' : FrameSound(frame)'
                    /\ \A p \in walk'.found : Aligned(Segments', p) /\ Clean(p, walk'.exclusions)
  BY DEF SoundInv
<1>1. Segments' \in Selector
  <2>1. walk'.selectors \in Seq(Selector) /\ walk'.selectors # <<>>
    BY DEF WalkInv, WalkType
  <2> QED BY <2>1, TailMembers DEF Segments
<1>2. Laid(Segments', Root, 0, 1)
  BY <1>1, StartSound
<1>3. Members(walk.pending)' = {Frame(Root, 1)}
  BY DEF Members
<1>4. Frame(Root, 1).prefix = Root /\ Frame(Root, 1).index = 1 /\ Frame(Root, 1).entries = {} /\ Len(Root) = 0
  BY DEF Frame, Root
<1>5. Clean(Root, walk'.exclusions)
  BY <1>4 DEF Clean
<1>6. FrameSound(Frame(Root, 1))'
  BY <1>2, <1>4, <1>5 DEF FrameSound
<1> QED BY <1>3, <1>6

LEMMA SoundStep ==
  ASSUME TreeInv, WalkInv, WalkInv', SoundInv, NEW after \in {"cover", "judge"}, WalkStep(after)
  PROVE  SoundInv'
<1>1. CASE Skip
  <2>1. /\ walk.pending # <<>> /\ walk' = [walk EXCEPT !.pending = Front(@)] /\ pc = "walk"
        /\ walk.pending \in Seq(FrameType)
    BY <1>1 DEF Skip, WalkInv, WalkType
  <2>2. walk'.pending = Front(walk.pending) /\ walk'.selectors = walk.selectors /\ walk'.exclusions = walk.exclusions
        /\ walk'.found = walk.found
    BY <2>1 DEF WalkInv, WalkType
  <2>3. Members(walk.pending)' \subseteq Members(walk.pending)
    BY <2>1, <2>2, FrontMembers
  <2>4. Segments' = Segments
    BY <2>2 DEF Segments
  <2>5. \A g : FrameSound(g)' <=> FrameSound(g)
    BY <2>2, <2>4 DEF FrameSound
  <2> QED BY <2>1, <2>2, <2>3, <2>4, <2>5 DEF SoundInv
<1>2. CASE CannotScan
  BY <1>2 DEF CannotScan, SoundInv
<1>3. CASE Expand
  BY <1>3, SoundExpand
<1>4. CASE NextSelector(after)
  <2>1. pc' = "walk" => walk'.pending = <<Frame(Root, 1)>> /\ walk'.found = {}
    BY <1>4 DEF NextSelector, WalkInv, WalkType
  <2> QED BY <2>1, SoundStart
<1> QED BY <1>1, <1>2, <1>3, <1>4 DEF WalkStep

-----------------------------------------------------------------------------
(* A path that is due is found.  However the selector is laid along it, there is a    *)
(* frame pending on the way to it that no visited frame lies beyond: what the walk    *)
(* has visited is never what it still needs, though the frames that were skipped as   *)
(* visited are gone.                                                                  *)

Clear(t, path) == \A n \in 0 .. Len(path) - 1 : At(t, Up(path, n)).kind = "dir"

Due(path) ==
  /\ \A k \in DOMAIN path : path[k] # Outside
  /\ Clean(path, walk.exclusions)
  /\ \A t \in trees : IsFile(t, path) /\ (walk.strict \/ Clear(t, path))

\* A link is on the way, and the walk has said that it does not go through one.
Excused(path) == walk.refusals # {} /\ \E t \in trees : ~Clear(t, path)

\* The entry that leads on to the path.
Listed(entries, path, n) ==
  \E e \in entries :
    /\ e.name = path[n + 1]
    /\ n + 1 < Len(path) => e.kind \in {"dir", "link"}
    /\ n + 1 = Len(path) => e.kind \in {"file", "link"}
    /\ n + 1 < Len(path) /\ e.kind = "link" => \E t \in trees : ~Clear(t, path)

LaidOver(f, segments, path) ==
  /\ f \in [DOMAIN path -> DOMAIN segments]
  /\ \A i \in DOMAIN path : Fits(segments[f[i]], path[i])
  /\ \A i, j \in DOMAIN path : i < j => f[i] <= f[j] /\ (f[i] = f[j] => segments[f[i]].deep)
  /\ \A k \in DOMAIN segments : segments[k].deep \/ \E i \in DOMAIN path : f[i] = k
  /\ f[Len(path)] = Len(segments)

\* From here the rest of the path is laid along the rest of the selector.
OnWay(f, segments, n, k) ==
  /\ k \in DOMAIN segments /\ k <= f[n + 1]
  /\ n = 0 \/ f[n] < k \/ (f[n] = k /\ segments[k].deep)

Before(m, l, n, k) == m < n \/ (m = n /\ l < k)

Stand(frame, path, n, k) == frame.prefix = Up(path, n) /\ frame.index = k

Frontier(path, f) ==
  \E n \in 0 .. Len(path) - 1, k \in DOMAIN Segments :
    /\ OnWay(f, Segments, n, k)
    /\ \E frame \in Members(walk.pending) : Stand(frame, path, n, k)
    /\ \A m \in 0 .. Len(path) - 1, l \in DOMAIN Segments :
         OnWay(f, Segments, m, l) /\ ~Before(m, l, n, k) => <<Up(path, m), l>> \notin walk.visited

ReadInv ==
  pc = "walk" =>
    \A frame \in Members(walk.pending) : frame.read =>
      \A path \in Spelled : \A n \in 0 .. Len(path) - 1 :
        Due(path) /\ frame.prefix = Up(path, n) => Listed(frame.entries, path, n)

WholeInv ==
  pc = "walk" =>
    \A path \in Spelled : \A f :
      LaidOver(f, Segments, path) /\ Due(path) => path \in walk.found \/ Excused(path) \/ Frontier(path, f)

LEMMA LaidOverMeans ==
  ASSUME NEW segments, NEW path
  PROVE  Aligned(segments, path) <=> \E f : LaidOver(f, segments, path)
BY DEF Aligned, LaidOver, Fits

LEMMA StayOnWay ==
  ASSUME NEW segments \in Selector, NEW path \in Spelled, NEW f, LaidOver(f, segments, path),
         NEW n \in 0 .. Len(path) - 1, NEW k \in DOMAIN segments, OnWay(f, segments, n, k)
  PROVE  /\ k < f[n + 1] => segments[k].deep /\ k # Len(segments) /\ OnWay(f, segments, n, k + 1)
         /\ k = f[n + 1] => Fits(segments[k], path[n + 1])
         /\ k = f[n + 1] /\ n + 1 = Len(path) => k = Len(segments)
         /\ k = f[n + 1] /\ n + 1 < Len(path) =>
              /\ OnWay(f, segments, n + 1, After(segments, k)) /\ (segments[k].deep \/ k # Len(segments))
<1>1. Len(path) \in Nat /\ DOMAIN path = 1 .. Len(path) /\ Len(segments) \in Nat /\ DOMAIN segments = 1 .. Len(segments)
  BY DEF Spelled, Paths, Selector
<1>2. n + 1 \in DOMAIN path /\ f[n + 1] \in DOMAIN segments
  BY <1>1 DEF LaidOver
<1>3. ASSUME k < f[n + 1]
      PROVE  segments[k].deep /\ k # Len(segments) /\ OnWay(f, segments, n, k + 1)
  <2>1. segments[k].deep
    <3> SUFFICES ASSUME ~segments[k].deep PROVE FALSE
      OBVIOUS
    <3>1. PICK i \in DOMAIN path : f[i] = k
      BY DEF LaidOver
    <3>2. i <= n + 1
      <4>1. n + 1 < i => f[n + 1] <= f[i]
        BY <1>2 DEF LaidOver
      <4> QED BY <1>1, <1>2, <1>3, <3>1, <4>1
    <3>3. i <= n /\ n # 0 /\ n \in DOMAIN path
      BY <1>1, <1>3, <3>1, <3>2
    <3>4. f[n] < k
      BY <3>3 DEF OnWay
    <3>5. i < n => f[i] <= f[n]
      BY <3>3 DEF LaidOver
    <3>6. f[n] \in DOMAIN segments
      BY <3>3 DEF LaidOver
    <3> QED BY <1>1, <3>1, <3>3, <3>4, <3>5, <3>6
  <2>2. k # Len(segments) /\ k + 1 \in DOMAIN segments /\ k + 1 <= f[n + 1]
    BY <1>1, <1>2, <1>3
  <2>3. n = 0 \/ f[n] < k + 1
    <3>1. n # 0 => f[n] \in DOMAIN segments
      BY <1>1 DEF LaidOver
    <3> QED BY <1>1, <3>1 DEF OnWay
  <2> QED BY <2>1, <2>2, <2>3 DEF OnWay
<1>4. k = f[n + 1] => Fits(segments[k], path[n + 1])
  BY <1>2 DEF LaidOver
<1>5. k = f[n + 1] /\ n + 1 = Len(path) => k = Len(segments)
  BY DEF LaidOver
<1>6. ASSUME k = f[n + 1], n + 1 < Len(path)
      PROVE  OnWay(f, segments, n + 1, After(segments, k)) /\ (segments[k].deep \/ k # Len(segments))
  <2>1. n + 2 \in DOMAIN path /\ (n + 1) + 1 = n + 2 /\ f[n + 2] \in DOMAIN segments
    BY <1>1, <1>6 DEF LaidOver
  <2>2. f[n + 1] <= f[n + 2] /\ (f[n + 1] = f[n + 2] => segments[f[n + 1]].deep)
    <3>1. n + 1 < n + 2
      OBVIOUS
    <3> QED BY <1>2, <2>1, <3>1 DEF LaidOver
  <2> QED BY <1>1, <1>2, <1>6, <2>1, <2>2 DEF OnWay, After
<1> QED BY <1>3, <1>4, <1>5, <1>6

LEMMA UpNext ==
  ASSUME NEW path \in Spelled, NEW n \in 0 .. Len(path) - 1
  PROVE  /\ Up(path, n) \in Paths /\ path[n + 1] \in STRING
         /\ Up(path, n + 1) = Append(Up(path, n), path[n + 1])
         /\ n + 1 = Len(path) => Up(path, n + 1) = path
<1>1. path \in Paths /\ Len(path) \in Nat
  BY DEF Spelled, Paths
<1>2. n \in 0 .. Len(path) /\ n + 1 \in 1 .. Len(path) /\ (n + 1) - 1 = n
  BY <1>1
<1> QED BY <1>1, <1>2, UpFacts, UpSteps

\* Names and prefixes of different lengths differ.
LEMMA UpsDiffer ==
  ASSUME NEW path \in Spelled, NEW n \in 0 .. Len(path) - 1, NEW m \in 0 .. Len(path) - 1, Up(path, m) = Up(path, n)
  PROVE  m = n
<1>1. path \in Paths /\ Len(path) \in Nat
  BY DEF Spelled, Paths
<1>2. m \in 0 .. Len(path) /\ n \in 0 .. Len(path)
  BY <1>1
<1>3. Len(Up(path, m)) = m
  BY <1>1, <1>2, UpFacts
<1>4. Len(Up(path, n)) = n
  BY <1>1, <1>2, UpFacts
<1> QED BY <1>3, <1>4

\* A directory that is read has the entry that leads on to what is due.
LEMMA EntriesListed ==
  ASSUME TreeInv, NEW frame, NEW path \in Spelled, NEW n \in 0 .. Len(path) - 1, Due(path),
         frame.prefix = Up(path, n), frame.read => Listed(frame.entries, path, n)
  PROVE  Listed(EntriesOf(frame), path, n)
<1>1. CASE frame.read
  BY <1>1 DEF EntriesOf
<1>2. CASE ~frame.read
  <2>1. tree \in trees /\ Tree(tree) /\ IsFile(tree, path)
    BY DEF TreeInv, Due
  <2>2. IsTree(tree) /\ WellFormed(tree) /\ Len(path) \in Nat
    BY <2>1 DEF Tree, Spelled, Paths
  <2> DEFINE base == Real(tree, Up(path, n))
             q == Append(base, path[n + 1])
  <2>3. Up(path, n) \in Paths /\ path[n + 1] \in STRING /\ Up(path, n + 1) = Append(Up(path, n), path[n + 1])
    BY UpNext
  <2>4. base \in Paths
    BY <2>2, <2>3, RealSteps
  <2>5. q \in Spelled /\ Front(q) = base /\ Last(q) = path[n + 1]
    BY <2>3, <2>4, AppendFacts
  <2>6. /\ n + 1 < Len(path) => At(tree, q).kind \in {"dir", "link"}
        /\ n + 1 = Len(path) => At(tree, q).kind \in {"file", "link"}
    BY <2>1, <2>2, WayToFile DEF OnTheWay
  <2>7. path[n + 1] # Outside
    <3>1. n + 1 \in DOMAIN path
      BY <2>2 DEF Spelled, Paths
    <3> QED BY <3>1 DEF Due
  <2> HIDE DEF q
  <2>8. At(tree, q).kind # "absent"
    BY <2>2, <2>6
  <2>9. q \in DOMAIN tree /\ q # Root /\ At(tree, q) = tree[q]
    BY <2>5, <2>8 DEF At, Absent, Spelled
  <2> DEFINE e == [name |-> path[n + 1], kind |-> At(tree, q).kind]
  <2>10. e \in Listing(tree, base)
    <3>1. e = [name |-> Last(q), kind |-> tree[q].kind]
      BY <2>5, <2>9
    <3>2. q # Root /\ Front(q) = base /\ Last(q) # Outside /\ tree[q].kind # "absent"
      BY <2>5, <2>7, <2>8, <2>9
    <3> HIDE DEF e, base
    <3> QED BY <2>9, <3>1, <3>2 DEF Listing
  <2>11. \A x \in walk.exclusions : ~selector_matches_path(x, Append(frame.prefix, e.name))
    <3>1. n + 1 \in 1 .. Len(path)
      BY <2>2
    <3>2. Append(frame.prefix, e.name) = Up(path, n + 1)
      BY <2>3
    <3> QED BY <3>1, <3>2 DEF Due, Clean
  <2>12. e \in EntriesOf(frame)
    BY <1>2, <2>10, <2>11 DEF EntriesOf, _retained, _scan
  <2>13. n + 1 < Len(path) /\ e.kind = "link" => ~Clear(tree, path)
    <3> SUFFICES ASSUME n + 1 < Len(path), At(tree, q).kind = "link", Clear(tree, path) PROVE FALSE
      OBVIOUS
    <3>1. base = Up(path, n)
      BY <2>2, RealThroughDirs DEF Clear
    <3>2. n + 1 \in 0 .. Len(path) - 1
      BY <2>2
    <3>3. At(tree, Up(path, n + 1)).kind = "dir"
      BY <3>2 DEF Clear
    <3> QED BY <2>3, <3>1, <3>3 DEF q
  <2> HIDE DEF e
  <2>14. e.name = path[n + 1] /\ e.kind = At(tree, q).kind
    BY DEF e
  <2> QED BY <2>1, <2>6, <2>12, <2>13, <2>14 DEF Listed
<1> QED BY <1>1, <1>2

\* What is due later is due now; what is excused or listed now is so later.
LEMMA DueStays ==
  ASSUME trees \subseteq trees', walk'.strict = walk.strict, walk'.exclusions = walk.exclusions
  PROVE  /\ \A path : Due(path)' => Due(path)
         /\ walk.refusals \subseteq walk'.refusals => \A path : Excused(path) => Excused(path)'
         /\ \A entries, path, n : Listed(entries, path, n) => Listed(entries, path, n)'
<1>1. \A path : Due(path)' => Due(path)
  BY DEF Due
<1>2. walk.refusals \subseteq walk'.refusals => \A path : Excused(path) => Excused(path)'
  BY DEF Excused
<1>3. \A entries, path, n : Listed(entries, path, n) => Listed(entries, path, n)'
  BY DEF Listed
<1> QED BY <1>1, <1>2, <1>3

\* The step that takes a frame on the way finds the path, refuses a link, or goes further.
LEMMA FrameLeads ==
  ASSUME TreeInv, WalkInv, Expand, NEW path \in Spelled, NEW f, LaidOver(f, Segments, path), Due(path),
         NEW n \in 0 .. Len(path) - 1, NEW k \in DOMAIN Segments, OnWay(f, Segments, n, k),
         Stand(Top, path, n, k), Listed(EntriesOf(Top), path, n)
  PROVE  \/ path \in walk'.found
         \/ walk'.refusals # {} /\ \E t \in trees : ~Clear(t, path)
         \/ \E m \in 0 .. Len(path) - 1, l \in DOMAIN Segments :
              /\ OnWay(f, Segments, m, l) /\ Before(n, k, m, l)
              /\ \E g \in Members(walk'.pending) : Stand(g, path, m, l)
<1>1. /\ Top \in FrameType /\ Segments \in Selector /\ Top.index \in DOMAIN Segments /\ Segments[Top.index] \in Segment
      /\ EntriesOf(Top) \in SUBSET Entry
      /\ Expansion(Top, Segments, EntriesOf(Top))
  BY ExpandFacts
<1> DEFINE frame == Top
           entries == EntriesOf(frame)
           segment == Segments[frame.index]
           last == frame.index = Len(Segments)
           candidates == Candidates(entries, segment)
           refused == Refused(tree, frame.prefix, candidates, segment, last, walk.strict)
           entered == Entered(candidates, segment, last)
<1>2. /\ Members(walk'.pending) = Members(Front(walk.pending)) \cup
           IF segment.deep
           THEN Children(frame, entered, frame.index) \cup (IF last THEN {} ELSE {Handoff(frame, entries)})
           ELSE Children(frame, entered, frame.index + 1)
      /\ walk'.found = walk.found \cup {Append(frame.prefix, e.name) : e \in Matches(candidates, refused, last)}
      /\ walk'.refusals = walk.refusals \cup
           {Refusal("symlink-directory", Append(frame.prefix, e.name)) : e \in refused}
  BY <1>1 DEF Expansion
<1>3. frame.prefix = Up(path, n) /\ frame.index = k
  BY DEF Stand
<1>4. Len(path) \in Nat /\ k \in Nat /\ n \in Nat /\ f[n + 1] \in Nat
  <2>1. Len(path) \in Nat /\ n + 1 \in DOMAIN path
    BY DEF Spelled, Paths
  <2> QED BY <1>1, <2>1 DEF LaidOver, Selector
<1>5. /\ k < f[n + 1] => segment.deep /\ ~last /\ OnWay(f, Segments, n, k + 1)
      /\ k = f[n + 1] => Fits(segment, path[n + 1])
      /\ k = f[n + 1] /\ n + 1 = Len(path) => last
      /\ k = f[n + 1] /\ n + 1 < Len(path) =>
           /\ OnWay(f, Segments, n + 1, After(Segments, k)) /\ (segment.deep \/ ~last)
  BY <1>1, <1>3, StayOnWay
<1>6. k <= f[n + 1]
  BY DEF OnWay
<1>7. /\ Up(path, n + 1) = Append(frame.prefix, path[n + 1])
      /\ n + 1 = Len(path) => Append(frame.prefix, path[n + 1]) = path
  BY <1>3, UpNext
<1>8. tree \in trees /\ Tree(tree) /\ IsFile(tree, path)
  BY DEF TreeInv, Due
<1>9. CASE k < f[n + 1]
  <2>1. Handoff(frame, entries) \in Members(walk'.pending)
    BY <1>2, <1>5, <1>9
  <2>2. Handoff(frame, entries).prefix = frame.prefix /\ Handoff(frame, entries).index = frame.index + 1
    BY <1>1 DEF Handoff, FrameType
  <2>3. Stand(Handoff(frame, entries), path, n, k + 1)
    BY <1>3, <2>2 DEF Stand
  <2>4. Before(n, k, n, k + 1) /\ k + 1 \in DOMAIN Segments
    BY <1>4, <1>5, <1>9 DEF Before, OnWay
  <2> HIDE DEF frame, entries
  <2> QED BY <1>5, <1>9, <2>1, <2>3, <2>4
<1>10. CASE k = f[n + 1]
  <2>1. PICK e \in entries :
          /\ e.name = path[n + 1]
          /\ n + 1 < Len(path) => e.kind \in {"dir", "link"}
          /\ n + 1 = Len(path) => e.kind \in {"file", "link"}
          /\ n + 1 < Len(path) /\ e.kind = "link" => \E t \in trees : ~Clear(t, path)
    BY DEF Listed
  <2>2. e \in candidates
    BY <1>5, <1>10, <2>1 DEF Candidates, Fits, segment_matches
  <2>3. Append(frame.prefix, e.name) = Up(path, n + 1)
    BY <1>7, <2>1
  <2> HIDE DEF entries, candidates
  <2>4. CASE n + 1 = Len(path)
    <3>1. Append(frame.prefix, e.name) = path
      BY <1>7, <2>1, <2>4
    <3>2. ~_is_directory(tree, e, frame.prefix)
      BY <1>8, <3>1 DEF _is_directory, IsDir, IsFile
    <3>3. e \notin refused
      BY <3>2 DEF refused, Refused
    <3>4. e \in Matches(candidates, refused, last)
      BY <1>5, <1>10, <2>1, <2>2, <2>4, <3>3 DEF Matches
    <3> HIDE DEF refused
    <3> QED BY <1>2, <3>1, <3>4
  <2>5. CASE n + 1 < Len(path)
    <3>1. e.kind \in {"dir", "link"} /\ (segment.deep \/ ~last)
      BY <1>5, <1>10, <2>1, <2>5
    <3>2. CASE e.kind = "dir"
      <4>1. e \in entered
        BY <2>2, <3>1, <3>2 DEF entered, Entered
      <4>2. Frame(Append(frame.prefix, e.name), After(Segments, k)) \in Children(frame, entered, After(Segments, k))
        <5> HIDE DEF entered, frame
        <5> QED BY <4>1 DEF Children
      <4>3. Children(frame, entered, After(Segments, k)) \subseteq Members(walk'.pending)
        BY <1>2, <1>3 DEF After
      <4>4. Stand(Frame(Append(frame.prefix, e.name), After(Segments, k)), path, n + 1, After(Segments, k))
        BY <2>3 DEF Stand, Frame
      <4>5. n + 1 \in 0 .. Len(path) - 1 /\ Before(n, k, n + 1, After(Segments, k))
        BY <1>4, <2>5 DEF Before
      <4>6. After(Segments, k) \in DOMAIN Segments /\ OnWay(f, Segments, n + 1, After(Segments, k))
        BY <1>5, <1>10, <2>5 DEF OnWay
      <4> HIDE DEF frame, entered
      <4> QED BY <4>2, <4>3, <4>4, <4>5, <4>6
    <3>3. CASE e.kind = "link"
      <4>1. \E t \in trees : ~Clear(t, path)
        BY <2>1, <2>5, <3>3
      <4>2. walk.strict
        BY <4>1 DEF Due
      <4>3. IsDir(tree, Up(path, n + 1))
        BY <1>8, <2>5, WayToFile DEF Tree
      <4>4. e \in refused
        BY <2>2, <2>3, <3>1, <3>3, <4>2, <4>3 DEF refused, Refused, _is_directory
      <4> HIDE DEF refused
      <4>5. walk'.refusals # {}
        BY <1>2, <4>4
      <4> QED BY <4>1, <4>5
    <3> QED BY <3>1, <3>2, <3>3
  <2> QED BY <1>4, <2>4, <2>5
<1> QED BY <1>4, <1>6, <1>9, <1>10

LEMMA BeforeFacts ==
  ASSUME NEW a \in Nat, NEW b \in Nat, NEW m \in Nat, NEW l \in Nat, NEW n \in Nat, NEW k \in Nat
  PROVE  /\ ~Before(m, l, n, k) /\ Before(a, b, n, k) => ~Before(m, l, a, b)
         /\ ~Before(n, k, n, k) /\ (Before(m, l, n, k) => ~Before(n, k, m, l) /\ <<m, l>> # <<n, k>>)
BY DEF Before

\* What is expanded was not visited, and of what was, the frontier stays ahead.
LEMMA WholeExpand ==
  ASSUME TypeInv, ReadInv, WholeInv, Expand, trees' = trees
  PROVE  ReadInv' /\ WholeInv'
<1>1. /\ Top \in FrameType /\ Segments \in Selector /\ Top.index \in DOMAIN Segments /\ Segments[Top.index] \in Segment
      /\ EntriesOf(Top) \in SUBSET Entry
      /\ <<Top.prefix, Top.index>> \notin walk.visited
      /\ Expansion(Top, Segments, EntriesOf(Top))
  BY ExpandFacts DEF TypeInv
<1>2. /\ pc = "walk" /\ pc' = "walk" /\ walk.pending # <<>> /\ walk.pending \in Seq(FrameType)
      /\ TreeInv /\ WalkInv
  BY DEF Expand, TypeInv, WalkInv, WalkType
<1>3. Members(walk.pending) = Members(Front(walk.pending)) \cup {Top}
  BY <1>2, FrontMembers DEF Top
<1> DEFINE frame == Top
           entries == EntriesOf(frame)
           segment == Segments[frame.index]
           last == frame.index = Len(Segments)
           candidates == Candidates(entries, segment)
           entered == Entered(candidates, segment, last)
<1>4. /\ Members(walk'.pending) = Members(Front(walk.pending)) \cup
           IF segment.deep
           THEN Children(frame, entered, frame.index) \cup (IF last THEN {} ELSE {Handoff(frame, entries)})
           ELSE Children(frame, entered, frame.index + 1)
      /\ walk'.visited = walk.visited \cup {<<frame.prefix, frame.index>>}
      /\ walk.found \subseteq walk'.found /\ walk.refusals \subseteq walk'.refusals
      /\ walk' = [walk EXCEPT !.pending = walk'.pending, !.visited = walk'.visited, !.found = walk'.found,
                              !.refusals = walk'.refusals]
  BY <1>1 DEF Expansion
<1>5. walk'.selectors = walk.selectors /\ walk'.exclusions = walk.exclusions /\ walk'.strict = walk.strict
  BY <1>2, <1>4 DEF WalkInv, WalkType
<1>6. Segments' = Segments
  BY <1>5 DEF Segments
<1>7. /\ \A path : Due(path)' => Due(path)
      /\ \A path : Excused(path) => Excused(path)'
      /\ \A es, path, n : Listed(es, path, n) => Listed(es, path, n)'
  BY <1>4, <1>5, DueStays
<1>8. \A path \in Spelled : \A n \in 0 .. Len(path) - 1 :
        Due(path) /\ frame.prefix = Up(path, n) => Listed(entries, path, n)
  <2> TAKE path \in Spelled
  <2> TAKE n \in 0 .. Len(path) - 1
  <2> SUFFICES ASSUME Due(path), frame.prefix = Up(path, n) PROVE Listed(entries, path, n)
    OBVIOUS
  <2>1. frame.read => Listed(frame.entries, path, n)
    BY <1>2, <1>3 DEF ReadInv
  <2> HIDE DEF frame
  <2> QED BY <1>2, <2>1, EntriesListed DEF entries
<1>9. Members(walk.pending)' = Members(walk'.pending)
  BY DEF Members
<1>10. \A g \in Members(walk'.pending) :
         g \in Members(Front(walk.pending)) \/ ~g.read \/ (g.prefix = frame.prefix /\ g.entries = entries)
  <2> TAKE g \in Members(walk'.pending)
  <2>1. CASE g \in Children(frame, entered, frame.index) \/ g \in Children(frame, entered, frame.index + 1)
    <3>1. ~g.read
      BY <2>1 DEF Children, Frame
    <3> QED BY <3>1
  <2>2. CASE g = Handoff(frame, entries)
    BY <1>1, <2>2 DEF Handoff, FrameType
  <2> HIDE DEF entries, entered
  <2> QED BY <1>4, <2>1, <2>2
<1>11. ReadInv'
  <2> SUFFICES ASSUME NEW g \in Members(walk'.pending), g.read, NEW path \in Spelled, NEW n \in 0 .. Len(path) - 1,
                      Due(path)', g.prefix = Up(path, n)
               PROVE  Listed(g.entries, path, n)'
    BY <1>9 DEF ReadInv
  <2>1. Due(path)
    BY <1>7
  <2>2. Listed(g.entries, path, n)
    <3>1. CASE g \in Members(Front(walk.pending))
      BY <1>2, <1>3, <2>1, <3>1 DEF ReadInv
    <3>2. CASE g.prefix = frame.prefix /\ g.entries = entries
      BY <1>8, <2>1, <3>2
    <3> QED BY <1>10, <3>1, <3>2
  <2> QED BY <1>7, <2>2
<1>12. WholeInv'
  <2> SUFFICES ASSUME NEW path \in Spelled, NEW f, LaidOver(f, Segments, path), Due(path)',
                      path \notin walk'.found, ~Excused(path)'
               PROVE  Frontier(path, f)'
    BY <1>6 DEF WholeInv
  <2>1. Due(path) /\ path \notin walk.found /\ ~Excused(path)
    BY <1>4, <1>7
  <2>2. PICK n \in 0 .. Len(path) - 1, k \in DOMAIN Segments :
          /\ OnWay(f, Segments, n, k)
          /\ \E g \in Members(walk.pending) : Stand(g, path, n, k)
          /\ \A m \in 0 .. Len(path) - 1, l \in DOMAIN Segments :
               OnWay(f, Segments, m, l) /\ ~Before(m, l, n, k) => <<Up(path, m), l>> \notin walk.visited
    BY <1>2, <2>1 DEF WholeInv, Frontier
  <2>3. PICK g \in Members(walk.pending) : Stand(g, path, n, k)
    BY <2>2
  <2>4. Len(path) \in Nat /\ DOMAIN Segments \subseteq Nat
    BY <1>1 DEF Spelled, Paths, Selector
  <2> DEFINE Ahead(a, b) ==
        \A m \in 0 .. Len(path) - 1, l \in DOMAIN Segments :
          OnWay(f, Segments, m, l) /\ ~Before(m, l, a, b) => <<Up(path, m), l>> \notin walk'.visited
  <2>5. ASSUME NEW a \in 0 .. Len(path) - 1, NEW b \in DOMAIN Segments, OnWay(f, Segments, a, b),
               \E h \in Members(walk'.pending) : Stand(h, path, a, b), Ahead(a, b)
        PROVE  Frontier(path, f)'
    BY <1>6, <1>9, <2>5 DEF Frontier
\* The frame that is taken is at or beyond the frontier, and on the way.
  <2>6. CASE \E a \in 0 .. Len(path) - 1, b \in DOMAIN Segments :
               Stand(frame, path, a, b) /\ OnWay(f, Segments, a, b) /\ ~Before(a, b, n, k)
    <3>1. PICK a \in 0 .. Len(path) - 1, b \in DOMAIN Segments :
            Stand(frame, path, a, b) /\ OnWay(f, Segments, a, b) /\ ~Before(a, b, n, k)
      BY <2>6
    <3>2. Listed(entries, path, a)
      BY <1>8, <2>1, <3>1 DEF Stand
    <3>3. PICK m \in 0 .. Len(path) - 1, l \in DOMAIN Segments :
            /\ OnWay(f, Segments, m, l) /\ Before(a, b, m, l)
            /\ \E h \in Members(walk'.pending) : Stand(h, path, m, l)
      <4>1. path \notin walk'.found /\ ~(walk'.refusals # {} /\ \E t \in trees : ~Clear(t, path))
        BY DEF Excused
      <4> QED BY <1>2, <2>1, <3>1, <3>2, <4>1, FrameLeads
    <3>4. Ahead(m, l)
      <4> SUFFICES ASSUME NEW c \in 0 .. Len(path) - 1, NEW d \in DOMAIN Segments,
                          OnWay(f, Segments, c, d), ~Before(c, d, m, l)
                   PROVE  <<Up(path, c), d>> \notin walk'.visited
        OBVIOUS
      <4>1. ~Before(c, d, n, k) /\ <<c, d>> # <<a, b>>
        BY <2>4, <3>1, <3>3, BeforeFacts DEF Before
      <4>2. <<Up(path, c), d>> \notin walk.visited
        BY <2>2, <4>1
      <4>3. <<Up(path, c), d>> # <<frame.prefix, frame.index>>
        <5>1. Up(path, c) = Up(path, a) => c = a
          BY UpsDiffer
        <5> QED BY <3>1, <4>1, <5>1 DEF Stand
      <4> QED BY <1>4, <4>2, <4>3
    <3> HIDE DEF Ahead
    <3> QED BY <2>5, <3>3, <3>4
\* It is another: the frontier stands.
  <2>7. CASE ~\E a \in 0 .. Len(path) - 1, b \in DOMAIN Segments :
               Stand(frame, path, a, b) /\ OnWay(f, Segments, a, b) /\ ~Before(a, b, n, k)
    <3>1. g # frame
      <4>1. k \in Nat
        BY <2>4
      <4>2. ~Before(n, k, n, k)
        BY <4>1 DEF Before
      <4> HIDE DEF frame
      <4>3. g = frame => Stand(frame, path, n, k)
        BY <2>3
      <4> QED BY <2>2, <2>7, <4>2, <4>3
    <3>2. g \in Members(walk'.pending)
      BY <1>3, <1>4, <2>3, <3>1
    <3>3. Ahead(n, k)
      <4> SUFFICES ASSUME NEW c \in 0 .. Len(path) - 1, NEW d \in DOMAIN Segments,
                          OnWay(f, Segments, c, d), ~Before(c, d, n, k)
                   PROVE  <<Up(path, c), d>> \notin walk'.visited
        OBVIOUS
      <4>1. <<Up(path, c), d>> \notin walk.visited
        BY <2>2
      <4>2. <<Up(path, c), d>> # <<frame.prefix, frame.index>>
        BY <2>7 DEF Stand
      <4> QED BY <1>4, <4>1, <4>2
    <3> HIDE DEF Ahead
    <3> QED BY <2>2, <2>3, <2>5, <3>2, <3>3
  <2> QED BY <2>6, <2>7
<1> QED BY <1>11, <1>12

FindInv == TypeInv /\ SoundInv /\ ReadInv /\ WholeInv

LEMMA WholeStart ==
  ASSUME WalkInv', pc' = "walk" => walk'.pending = <<Frame(Root, 1)>> /\ walk'.visited = {}
  PROVE  ReadInv' /\ WholeInv'
<1> SUFFICES ASSUME pc' = "walk" PROVE ReadInv' /\ WholeInv'
  BY DEF ReadInv, WholeInv
<1>1. Segments' \in Selector
  <2>1. walk'.selectors \in Seq(Selector) /\ walk'.selectors # <<>>
    BY DEF WalkInv, WalkType
  <2> QED BY <2>1, TailMembers DEF Segments
<1>2. Members(walk.pending)' = {Frame(Root, 1)}
  BY DEF Members
<1>3. Frame(Root, 1).prefix = Root /\ Frame(Root, 1).index = 1 /\ ~Frame(Root, 1).read
  BY DEF Frame, Root
<1>4. ReadInv'
  BY <1>2, <1>3 DEF ReadInv
<1>5. ASSUME NEW path \in Spelled, NEW f, LaidOver(f, Segments', path)
      PROVE  Frontier(path, f)'
  <2>1. Len(path) \in Nat /\ 0 \in 0 .. Len(path) - 1 /\ 1 \in DOMAIN path /\ path \in Paths
    BY DEF Spelled, Paths, Root
  <2>2. f[0 + 1] \in DOMAIN Segments' /\ 1 \in DOMAIN Segments'
    BY <1>1, <1>5, <2>1 DEF LaidOver, Selector
  <2>3. OnWay(f, Segments', 0, 1)
    BY <1>1, <2>2 DEF OnWay, Selector
  <2>4. Stand(Frame(Root, 1), path, 0, 1)
    BY <1>3, <2>1, UpSteps DEF Stand
  <2> QED BY <1>2, <2>1, <2>2, <2>3, <2>4 DEF Frontier
<1>6. WholeInv'
  BY <1>5 DEF WholeInv
<1> QED BY <1>4, <1>6

\* A step that does not touch the walk.
LEMMA FindQuiet ==
  ASSUME FindInv, TypeInv', trees \subseteq trees', pc' = "walk" => pc = "walk" /\ walk' = walk
  PROVE  FindInv'
<1>1. CASE pc' # "walk"
  BY <1>1 DEF FindInv, SoundInv, ReadInv, WholeInv
<1>2. CASE pc' = "walk"
  <2>1. pc = "walk" /\ walk' = walk
    BY <1>2
  <2>2. /\ \A path : Due(path)' => Due(path)
        /\ \A path : Excused(path) => Excused(path)'
        /\ \A es, path, n : Listed(es, path, n) => Listed(es, path, n)'
    BY <2>1, DueStays
  <2>3. Segments' = Segments /\ Members(walk.pending)' = Members(walk.pending)
    BY <2>1 DEF Segments, Members
  <2>4. SoundInv'
    BY <2>1, <2>3 DEF FindInv, SoundInv, FrameSound
  <2>5. ReadInv'
    BY <2>1, <2>2, <2>3 DEF FindInv, ReadInv
  <2>6. \A path, f : Frontier(path, f) => Frontier(path, f)'
    BY <2>1, <2>3 DEF Frontier
  <2>7. WholeInv'
    BY <2>1, <2>2, <2>3, <2>6 DEF FindInv, WholeInv
  <2> QED BY <2>4, <2>5, <2>7 DEF FindInv
<1> QED BY <1>1, <1>2

\* A frame that was skipped was visited, and so not at the frontier.
LEMMA WholeSkip ==
  ASSUME TypeInv, ReadInv, WholeInv, Skip, trees' = trees
  PROVE  ReadInv' /\ WholeInv'
<1>1. /\ pc = "walk" /\ pc' = "walk" /\ walk.pending # <<>> /\ walk.pending \in Seq(FrameType)
      /\ <<Top.prefix, Top.index>> \in walk.visited /\ walk' = [walk EXCEPT !.pending = Front(@)]
  BY DEF Skip, TypeInv, WalkInv, WalkType, Top
<1>2. Members(walk.pending) = Members(Front(walk.pending)) \cup {Top}
  BY <1>1, FrontMembers DEF Top
<1>3. walk' = [walk EXCEPT !.pending = walk'.pending] /\ walk'.pending = Front(walk.pending)
  BY <1>1 DEF TypeInv, WalkInv, WalkType
<1>4. /\ walk'.selectors = walk.selectors /\ walk'.exclusions = walk.exclusions /\ walk'.strict = walk.strict
      /\ walk'.visited = walk.visited /\ walk'.found = walk.found /\ walk'.refusals = walk.refusals
  BY <1>3 DEF TypeInv, WalkInv, WalkType
<1>5. Segments' = Segments /\ Members(walk.pending)' = Members(Front(walk.pending))
  BY <1>3, <1>4 DEF Segments, Members
<1>6. /\ \A path : Due(path)' => Due(path)
      /\ \A path : Excused(path) => Excused(path)'
      /\ \A es, path, n : Listed(es, path, n) => Listed(es, path, n)'
  BY <1>4, DueStays
<1>7. ReadInv'
  BY <1>1, <1>2, <1>5, <1>6 DEF ReadInv
<1>8. ASSUME NEW path, NEW f, Frontier(path, f) PROVE Frontier(path, f)'
  <2>1. PICK n \in 0 .. Len(path) - 1, k \in DOMAIN Segments :
          /\ OnWay(f, Segments, n, k)
          /\ \E g \in Members(walk.pending) : Stand(g, path, n, k)
          /\ \A m \in 0 .. Len(path) - 1, l \in DOMAIN Segments :
               OnWay(f, Segments, m, l) /\ ~Before(m, l, n, k) => <<Up(path, m), l>> \notin walk.visited
    BY <1>8 DEF Frontier
  <2>2. PICK g \in Members(walk.pending) : Stand(g, path, n, k)
    BY <2>1
  <2>3. ~Before(n, k, n, k)
    <3>1. k \in Nat
      <4>1. Segments \in Selector
        BY <1>1, TailMembers DEF TypeInv, WalkInv, WalkType, Segments
      <4> QED BY <4>1 DEF Selector
    <3> QED BY <3>1 DEF Before
  <2>4. <<Up(path, n), k>> \notin walk.visited
    BY <2>1, <2>3
  <2>5. g # Top
    BY <1>1, <2>2, <2>4 DEF Stand
  <2>6. g \in Members(walk.pending)'
    BY <1>2, <1>5, <2>2, <2>5
  <2> QED BY <1>4, <1>5, <2>1, <2>2, <2>6 DEF Frontier
<1>9. WholeInv'
  BY <1>1, <1>4, <1>5, <1>6, <1>8 DEF WholeInv
<1> QED BY <1>7, <1>9

LEMMA FindWalks ==
  ASSUME FindInv, TypeInv', trees' = trees, NEW after \in {"cover", "judge"}, WalkStep(after)
  PROVE  FindInv'
<1>1. SoundInv'
  BY SoundStep DEF FindInv, TypeInv
<1>2. CASE Skip
  BY <1>1, <1>2, WholeSkip DEF FindInv
<1>3. CASE CannotScan
  <2>1. pc' # "walk"
    BY <1>3 DEF CannotScan
  <2> QED BY <1>1, <2>1 DEF FindInv, ReadInv, WholeInv
<1>4. CASE Expand
  BY <1>1, <1>4, WholeExpand DEF FindInv
<1>5. CASE NextSelector(after)
  <2>1. pc' = "walk" => walk'.pending = <<Frame(Root, 1)>> /\ walk'.visited = {}
    BY <1>5 DEF NextSelector, FindInv, TypeInv, WalkInv, WalkType
  <2> QED BY <1>1, <2>1, WholeStart DEF FindInv, TypeInv
<1> QED BY <1>2, <1>3, <1>4, <1>5 DEF WalkStep

LEMMA FindStarts ==
  ASSUME FindInv, TypeInv', NEW selectors, NEW strict, NEW exclusions, select_paths(selectors, strict, exclusions,
  "refused")
  PROVE  FindInv'
<1>1. walk'.pending = <<Frame(Root, 1)>> /\ walk'.visited = {} /\ walk'.found = {}
  BY DEF select_paths, NoWalk
<1> QED BY <1>1, SoundStart, WholeStart DEF FindInv, TypeInv

LEMMA FindStep ==
  ASSUME FindInv, [Next]_vars
  PROVE  FindInv'
<1>1. TypeInv /\ TypeInv'
  BY TypedStep DEF FindInv
<1>2. trees \subseteq trees'
  BY <1>1, TreeSteps DEF TypeInv
<1>3. ASSUME pc' = "walk" => pc = "walk" /\ walk' = walk PROVE FindInv'
  BY <1>1, <1>2, <1>3, FindQuiet
<1>4. CASE CoverageWalk \/ SourceWalk
  <2>1. trees' = trees /\ \E after \in {"cover", "judge"} : WalkStep(after)
    BY <1>4 DEF CoverageWalk, SourceWalk
  <2> QED BY <1>1, <2>1, FindWalks
<1>5. CASE _require_link_sources
  BY <1>1, <1>5, FindStarts DEF _require_link_sources
<1>6. CASE _assemble
  <2>1. \/ pc' # "walk"
        \/ select_paths(config.coverage.select, TRUE, ToSet(config.coverage.exclude), "refused")
    BY <1>6 DEF _assemble
  <2> QED BY <1>1, <1>3, <2>1, FindStarts
<1>7. CASE Load /\ ~CoverageWalk /\ ~_assemble
  <2>1. pc' # "walk"
    BY <1>7 DEF Load, LoadStep, load_config, build_registration_index, Registered, Discover, Discovered, Acquire,
         AcquireRefused, Judge, Inspect, enforce_coverage
  <2> QED BY <1>3, <2>1
<1>8. CASE CheckLinks /\ ~SourceWalk /\ ~_require_link_sources
  <2>1. pc' # "walk"
    BY <1>8 DEF CheckLinks, LinksStep, load_config, Selected,
         select_link_sources, select_legacy_marker_sources, _link_message, _stat_mode, AskTarget, Said, check_links,
         ReadSource, Report
  <2> QED BY <1>3, <2>1
<1>9. CASE Edit \/ UNCHANGED vars
  <2>1. pc' = pc /\ walk' = walk
    BY <1>9 DEF Edit, vars
  <2> QED BY <1>3, <2>1
<1> QED BY <1>4, <1>5, <1>6, <1>7, <1>8, <1>9 DEF Next

\* What is selectable at every tree of the run is due, with no link on the way.
LEMMA SelectableIsDue ==
  ASSUME TreeInv, NEW path \in Spelled, \A k \in DOMAIN path : path[k] # Outside, Clean(path, walk.exclusions),
         \A t \in trees : At(t, path).kind = "file" /\ \A a \in Ancestors(path) : At(t, a).kind = "dir"
  PROVE  Due(path) /\ \A t \in trees : Clear(t, path) /\ Real(t, path) = path
<1>1. ASSUME NEW t \in trees PROVE IsFile(t, path) /\ Clear(t, path) /\ Real(t, path) = path
  <2>1. Tree(t) /\ At(t, path).kind = "file" /\ path \in Paths /\ Len(path) \in Nat
    BY DEF TreeInv, Spelled, Paths
  <2>2. Clear(t, path)
    BY <2>1, DirsAbove DEF Clear, Tree
  <2>3. Real(t, path) = path
    BY <2>1, <2>2, RealThroughDirs DEF Tree, Through, Clear
  <2> QED BY <2>1, <2>2, <2>3 DEF IsFile, Stat
<1> QED BY <1>1 DEF Due

LEMMA SpellingsAreInside ==
  ASSUME NEW p \in Spellings
  PROVE  p \in Spelled /\ \A k \in DOMAIN p : p[k] # Outside
<1>1. PICK k \in DOMAIN Order : p = Order[k]
  BY DEF Spellings, ToSet
<1>2. Order \in Seq(Spelled) /\ Outside \notin ToSet(Order[k])
  BY ProjectAssumption DEF Spelled, Paths
<1> QED BY <1>1, <1>2 DEF ToSet

LEMMA FoundIsThere ==
  ASSUME FindInv
  PROVE  WalkFindsWhatIsThere
<1> SUFFICES ASSUME pc = "walk", walk.pending = <<>>
             PROVE  /\ \A p \in Spellings :
                         (\A t \in trees : At(t, p).kind = "file" /\ Selectable(t, p, Segments, walk.exclusions))
                           => p \in walk.found
                    /\ \A p \in walk.found :
                         /\ Aligned(Segments, p)
                         /\ \A a \in Ancestors(p) \cup {p} : \A x \in walk.exclusions : ~Aligned(x, a)
  BY DEF WalkFindsWhatIsThere, Segments
<1>1. TreeInv /\ WalkInv /\ tree \in trees /\ walk.exclusions \in SUBSET Selector /\ walk.found \in SUBSET Spelled
  BY DEF FindInv, TypeInv, TreeInv, WalkInv, WalkType
<1>2. ASSUME NEW p \in Spellings, \A t \in trees : At(t, p).kind = "file" /\ Selectable(t, p, Segments, walk.exclusions)
      PROVE  p \in walk.found
  <2>1. p \in Spelled /\ \A k \in DOMAIN p : p[k] # Outside
    BY SpellingsAreInside
  <2>2. Aligned(Segments, p) /\ Clean(p, walk.exclusions)
    BY <1>1, <1>2, <2>1, CleanMeans DEF Selectable
  <2>3. Due(p) /\ ~Excused(p)
    BY <1>1, <1>2, <2>1, <2>2, SelectableIsDue DEF Selectable, Excused
  <2>4. PICK f : LaidOver(f, Segments, p)
    BY <2>2, LaidOverMeans
  <2>5. Members(walk.pending) = {}
    BY DEF Members
  <2>6. ~Frontier(p, f)
    BY <2>5 DEF Frontier
  <2> QED BY <2>1, <2>3, <2>4, <2>6 DEF FindInv, WholeInv
<1>3. ASSUME NEW p \in walk.found
      PROVE  Aligned(Segments, p) /\ \A a \in Ancestors(p) \cup {p} : \A x \in walk.exclusions : ~Aligned(x, a)
  <2>1. Aligned(Segments, p) /\ Clean(p, walk.exclusions) /\ p \in Spelled
    BY <1>1 DEF FindInv, SoundInv
  <2> QED BY <1>1, <2>1, CleanMeans
<1> QED BY <1>2, <1>3

LEMMA Finds == Spec => []FindInv
<1>1. Init => FindInv
  <2> SUFFICES ASSUME Init PROVE FindInv
    OBVIOUS
  <2>1. pc = "config"
    BY DEF Init
  <2> QED BY <2>1, InitTyped DEF FindInv, SoundInv, ReadInv, WholeInv
<1>2. FindInv /\ [Next]_vars => FindInv'
  BY FindStep
<1> QED BY <1>1, <1>2, PTL DEF Spec

\* What stays selectable while the walk goes on is found, whatever happens under it, and
\* nothing that the selector does not spell or an exclusion takes out.
THEOREM WalkIsRight == Spec => []WalkFindsWhatIsThere
BY Finds, FoundIsThere, PTL

-----------------------------------------------------------------------------
(* What a selection has found when it is over, and what becomes of it.       *)

Chosen == IF walk.strict THEN config.coverage.select ELSE config.link_sources

\* A selection is under way or over.
Begun ==
  \/ pc \in {"walk", "cover", "inspect", "judge", "sources", "reported"} \cup Checking
  \/ pc = "loaded" /\ config.coverage.declared

Done(segments) ==
  \A path \in Spelled : Due(path) /\ Aligned(segments, path) => path \in walk.matched \/ Excused(path)

ScopeInv ==
  Begun =>
    /\ walk.exclusions = IF walk.strict THEN ToSet(config.coverage.exclude) ELSE {}
    /\ walk.strict => config.coverage.declared
    /\ \A k \in DOMAIN Chosen : (pc = "walk" /\ Chosen[k] \in Members(walk.selectors)) \/ Done(Chosen[k])

WalkEnds == pc = "walk" /\ walk.pending = <<>>

LEMMA DoneStays ==
  ASSUME trees \subseteq trees', walk'.strict = walk.strict, walk'.exclusions = walk.exclusions,
         walk.refusals \subseteq walk'.refusals, walk.matched \subseteq walk'.matched, NEW segments, Done(segments)
  PROVE  Done(segments)'
<1>1. \A path : (Due(path)' => Due(path)) /\ (Excused(path) => Excused(path)')
  BY DueStays
<1> QED BY <1>1 DEF Done

\* A selector whose walk ends has found what is due.
LEMMA HeadIsDone ==
  ASSUME FindInv, WalkEnds
  PROVE  \A path \in Spelled : Due(path) /\ Aligned(Segments, path) => path \in walk.found \/ Excused(path)
<1> SUFFICES ASSUME NEW path \in Spelled, Due(path), Aligned(Segments, path), ~Excused(path)
             PROVE  path \in walk.found
  OBVIOUS
<1>1. PICK f : LaidOver(f, Segments, path)
  BY LaidOverMeans
<1>2. Members(walk.pending) = {}
  BY DEF Members, WalkEnds
<1>3. ~Frontier(path, f)
  BY <1>2 DEF Frontier
<1> QED BY <1>1, <1>3 DEF FindInv, WholeInv, WalkEnds

LEMMA ScopeQuiet ==
  ASSUME ScopeInv, config' = config, walk' = walk, trees \subseteq trees', Begun' => Begun,
         Begun' /\ pc = "walk" => pc' = "walk"
  PROVE  ScopeInv'
<1> SUFFICES ASSUME Begun' PROVE ScopeInv'
  BY DEF ScopeInv
<1>1. Chosen' = Chosen /\ Begun /\ Members(walk.selectors)' = Members(walk.selectors)
  BY DEF Chosen, Members
<1>2. \A k \in DOMAIN Chosen : Done(Chosen[k]) => Done(Chosen[k])'
  <2> TAKE k \in DOMAIN Chosen
  <2> DEFINE segments == Chosen[k]
  <2>1. PICK s : s = Chosen[k]
    OBVIOUS
  <2>2. Done(s) => Done(s)'
    BY DoneStays
  <2> QED BY <1>1, <2>1, <2>2 DEF Done
<1>3. ASSUME NEW k \in DOMAIN Chosen'
      PROVE  (pc' = "walk" /\ (Chosen[k] \in Members(walk.selectors))') \/ Done(Chosen[k])'
  <2>1. (pc = "walk" /\ Chosen[k] \in Members(walk.selectors)) \/ Done(Chosen[k])
    BY <1>1 DEF ScopeInv
  <2> QED BY <1>1, <1>2, <2>1
<1>4. walk'.exclusions = IF walk'.strict THEN ToSet(config'.coverage.exclude) ELSE {}
  BY <1>1 DEF ScopeInv
<1>5. walk'.strict => config'.coverage.declared
  BY <1>1 DEF ScopeInv
<1> QED BY <1>3, <1>4, <1>5 DEF ScopeInv

LEMMA ScopeStart ==
  ASSUME config' = config, select_paths(Chosen', walk'.strict, walk'.exclusions, "refused"),
         walk'.exclusions = IF walk'.strict THEN ToSet(config.coverage.exclude) ELSE {},
         walk'.strict => config.coverage.declared
  PROVE  ScopeInv'
<1> SUFFICES ASSUME Begun' PROVE ScopeInv'
  BY DEF ScopeInv
<1>1. pc' = "walk" /\ walk'.selectors = Chosen'
  BY DEF select_paths, NoWalk, Begun, Checking
<1>2. \A k \in DOMAIN Chosen' : Chosen'[k] \in Members(walk.selectors)'
  BY <1>1 DEF Members
<1> QED BY <1>1, <1>2 DEF ScopeInv

LEMMA ScopeWalks ==
  ASSUME FindInv, ScopeInv, config' = config, trees' = trees, NEW after, WalkStep(after)
  PROVE  ScopeInv'
<1> SUFFICES ASSUME Begun' PROVE ScopeInv'
  BY DEF ScopeInv
<1>1. TreeInv /\ WalkInv /\ pc = "walk" /\ Begun
  BY WalkLeaves DEF FindInv, TypeInv, Begun, Checking
<1>2. walk'.strict = walk.strict /\ walk'.exclusions = walk.exclusions /\ Chosen' = Chosen
  BY <1>1, WalkLeaves DEF Chosen
<1>3. walk.refusals \subseteq walk'.refusals /\ walk.matched \subseteq walk'.matched
  <2>1. CASE Expand
    <3>1. Expansion(Top, Segments, EntriesOf(Top))
      BY <1>1, <2>1, ExpandFacts
    <3>2. walk'.matched = walk.matched
      <4>1. walk' = [walk EXCEPT !.pending = walk'.pending, !.visited = walk'.visited, !.found = walk'.found,
                                 !.refusals = walk'.refusals]
        BY <3>1 DEF Expansion
      <4> QED BY <1>1, <4>1 DEF WalkInv, WalkType
    <3> QED BY <3>1, <3>2 DEF Expansion
  <2>2. CASE Skip
    BY <1>1, <2>2 DEF Skip, WalkInv, WalkType
  <2>3. CASE CannotScan
    BY <2>3 DEF CannotScan
  <2>4. CASE NextSelector(after)
    BY <1>1, <2>4 DEF NextSelector, WalkInv, WalkType
  <2> QED BY <2>1, <2>2, <2>3, <2>4 DEF WalkStep
<1>4. ASSUME NEW s, Done(s) PROVE Done(s)'
  BY <1>2, <1>3, <1>4, DoneStays
<1>5. \A s \in Members(walk.selectors) : (pc' = "walk" /\ s \in Members(walk.selectors)') \/ Done(s)'
  <2>1. CASE Expand
    <3>1. Expansion(Top, Segments, EntriesOf(Top)) /\ pc' = pc
      BY <1>1, <2>1, ExpandFacts DEF Expand
    <3>2. walk'.selectors = walk.selectors
      <4>1. walk' = [walk EXCEPT !.pending = walk'.pending, !.visited = walk'.visited, !.found = walk'.found,
                                 !.refusals = walk'.refusals]
        BY <3>1 DEF Expansion
      <4> QED BY <1>1, <4>1 DEF WalkInv, WalkType
    <3> QED BY <1>1, <3>1, <3>2 DEF Members
  <2>2. CASE Skip
    <3>1. walk'.selectors = walk.selectors /\ pc' = pc
      BY <1>1, <2>2 DEF Skip, WalkInv, WalkType
    <3> QED BY <1>1, <3>1 DEF Members
  <2>3. CASE CannotScan
    BY <2>3 DEF CannotScan, Begun, Checking
  <2>4. CASE NextSelector(after)
    <3>1. WalkEnds /\ walk.selectors \in Seq(Selector) /\ walk.selectors # <<>>
      BY <1>1, <2>4 DEF NextSelector, WalkEnds, WalkInv, WalkType
    <3>2. Members(walk.selectors) = {Segments} \cup Members(Tail(walk.selectors))
      BY <3>1, TailMembers DEF Segments
    <3>3. walk'.selectors = Tail(walk.selectors) /\ walk'.matched = walk.matched \cup walk.found
      BY <1>1, <2>4 DEF NextSelector, WalkInv, WalkType
    <3>4. Members(Tail(walk.selectors)) # {} => pc' = "walk"
      <4>1. Tail(walk.selectors) # <<>> /\ pc' # "refused" => pc' = "walk"
        BY <2>4 DEF NextSelector
      <4>2. Members(<<>>) = {}
        BY DEF Members
      <4>3. pc' # "refused"
        BY DEF Begun, Checking
      <4> QED BY <4>1, <4>2, <4>3
    <3>5. Members(walk.selectors)' = Members(Tail(walk.selectors))
      BY <3>3 DEF Members
    <3>6. \A path \in Spelled : Due(path)' /\ Aligned(Segments, path) => path \in walk'.matched \/ Excused(path)'
      <4>1. \A path : (Due(path)' => Due(path)) /\ (Excused(path) => Excused(path)')
        BY <1>2, <1>3, DueStays
      <4> QED BY <3>1, <3>3, <4>1, HeadIsDone
    <3>7. PICK h : h = Segments
      OBVIOUS
    <3>8. Done(h)'
      BY <3>6, <3>7 DEF Done
    <3> QED BY <3>2, <3>4, <3>5, <3>7, <3>8
  <2> QED BY <2>1, <2>2, <2>3, <2>4 DEF WalkStep
<1>6. ASSUME NEW k \in DOMAIN Chosen'
      PROVE  (pc' = "walk" /\ (Chosen[k] \in Members(walk.selectors))') \/ Done(Chosen[k])'
  <2>1. PICK s : s = Chosen[k]
    OBVIOUS
  <2>2. (pc = "walk" /\ s \in Members(walk.selectors)) \/ Done(s)
    BY <1>1, <1>2, <2>1 DEF ScopeInv
  <2>3. (pc' = "walk" /\ s \in Members(walk.selectors)') \/ Done(s)'
    BY <1>4, <1>5, <2>2
  <2> QED BY <1>2, <2>1, <2>3
<1>7. walk'.exclusions = IF walk'.strict THEN ToSet(config'.coverage.exclude) ELSE {}
  BY <1>1, <1>2 DEF ScopeInv
<1>8. walk'.strict => config'.coverage.declared
  BY <1>1, <1>2 DEF ScopeInv
<1> QED BY <1>6, <1>7, <1>8 DEF ScopeInv

LEMMA ScopeStep ==
  ASSUME FindInv, ScopeInv, [Next]_vars
  PROVE  ScopeInv'
<1>1. trees \subseteq trees' /\ TypeInv
  BY TreeSteps DEF FindInv, TypeInv
<1>2. ASSUME ~Begun' PROVE ScopeInv'
  BY <1>2 DEF ScopeInv
<1>3. CASE Load
  <2>1. CASE CoverageWalk
    <3>1. config' = config /\ trees' = trees /\ WalkStep("cover")
      BY <2>1 DEF CoverageWalk
    <3> QED BY <3>1, ScopeWalks
  <2>2. CASE _assemble
    <3>1. config' = config
      BY <2>2 DEF _assemble
    <3>2. CASE pc' = "refused" \/ (pc' = "loaded" /\ ~config.coverage.declared)
      BY <1>2, <3>1, <3>2 DEF Begun, Checking
    <3>3. CASE config.coverage.declared /\ select_paths(config.coverage.select, TRUE, ToSet(config.coverage.exclude),
    "refused")
      <4>1. walk'.strict = TRUE /\ walk'.exclusions = ToSet(config.coverage.exclude)
        BY <3>3 DEF select_paths, NoWalk
      <4>2. Chosen' = config.coverage.select
        BY <3>1, <4>1 DEF Chosen
      <4> QED BY <3>1, <3>3, <4>1, <4>2, ScopeStart
    <3> QED BY <2>2, <3>2, <3>3 DEF _assemble
  <2>3. CASE load_config("manifests") \/ build_registration_index \/ Registered \/ Discover \/ Discovered
             \/ Acquire \/ AcquireRefused
    BY <1>2, <2>3 DEF Begun, Checking, load_config, build_registration_index, Registered, Discover, Discovered,
         Acquire, AcquireRefused
  <2>4. CASE Judge \/ Inspect \/ enforce_coverage
    <3>1. config' = config /\ walk' = walk /\ pc \in {"cover", "inspect"}
      BY <2>4 DEF Judge, Inspect, enforce_coverage
    <3> QED BY <1>1, <3>1, ScopeQuiet DEF Begun, Checking
  <2> QED BY <1>3, <2>1, <2>2, <2>3, <2>4 DEF Load, LoadStep
<1>4. CASE CheckLinks
  <2>1. CASE SourceWalk
    <3>1. config' = config /\ trees' = trees /\ WalkStep("judge")
      BY <2>1 DEF SourceWalk, loading
    <3> QED BY <3>1, ScopeWalks
  <2>2. CASE _require_link_sources
    <3>1. config' = config /\ select_paths(config.link_sources, FALSE, {}, "refused")
      BY <2>2 DEF _require_link_sources, loading
    <3>2. walk'.strict = FALSE /\ walk'.exclusions = {}
      BY <3>1 DEF select_paths, NoWalk
    <3>3. Chosen' = config.link_sources
      BY <3>1, <3>2 DEF Chosen
    <3> QED BY <3>1, <3>2, <3>3, ScopeStart
  <2>3. CASE load_config("links")
    BY <1>2, <2>3 DEF Begun, Checking, load_config
  <2>4. CASE Selected \/ select_link_sources \/ select_legacy_marker_sources
                  \/ _link_message \/ _stat_mode \/ AskTarget \/ check_links \/ ReadSource \/ Report
    <3>1. config' = config /\ walk' = walk /\ pc \in {"judge", "sources"} \cup Checking
      BY <2>4 DEF Selected, select_link_sources, select_legacy_marker_sources, _link_message, _stat_mode, AskTarget,
           Said, check_links, ReadSource, Report, loading, Checking
    <3> QED BY <1>1, <3>1, ScopeQuiet DEF Begun, Checking
  <2> QED BY <1>4, <2>1, <2>2, <2>3, <2>4 DEF CheckLinks, LinksStep
<1>5. CASE Edit \/ UNCHANGED vars
  <2>1. config' = config /\ walk' = walk /\ pc' = pc
    BY <1>5 DEF Edit, vars, loading
  <2> QED BY <1>1, <2>1, ScopeQuiet DEF Begun, Checking
<1> QED BY <1>3, <1>4, <1>5 DEF Next

-----------------------------------------------------------------------------
(* Coverage.                                                                 *)

Inspecting == pc = "inspect" \/ (pc = "loaded" /\ config.coverage.declared)

Told(path) == path \in ToSet(config.coverage.exempt) \/ \E t \in trees : Real(t, path) \in enrolled

JudgeInv ==
  Inspecting =>
    /\ walk.refusals \subseteq problems
    /\ pc = "loaded" => problems = {} /\ todo = <<>>
    /\ \A path \in walk.matched : path \in Members(todo) \/ problems # {} \/ Told(path)

\* An exemption that is stale of a file was, at some moment, not spelled by a selector.
Missed(path) ==
  \E t \in trees :
    \A k \in DOMAIN config.coverage.select :
      ~Selectable(t, path, config.coverage.select[k], {}) \/ ~IsFile(t, path)

StaleInv ==
  \A problem \in problems : problem.kind = "stale exemption" /\ Contained(problem.spelling) => Missed(problem.spelling)

CoverInv == FindInv /\ ScopeInv /\ JudgeInv /\ StaleInv

\* What is selectable throughout is due.
LEMMA ExemptIsDue ==
  ASSUME TypeInv, ConfigInv, walk.strict, walk.exclusions = ToSet(config.coverage.exclude), config.coverage.declared,
         NEW path \in ToSet(config.coverage.exempt), Contained(path), ~Missed(path), Settled
  PROVE  /\ path \in Spelled /\ Due(path) /\ ~Excused(path)
         /\ \E k \in DOMAIN config.coverage.select : Aligned(config.coverage.select[k], path)
<1>1. TreeInv /\ tree \in trees /\ config \in Configs
  BY DEF TypeInv, TreeInv, ConfigInv
<1>2. PICK j \in DOMAIN config.coverage.exempt : config.coverage.exempt[j] = path
  BY DEF ToSet
<1>3. path \in Spelled /\ path \in Paths /\ Len(path) \in Nat /\ DOMAIN path = 1 .. Len(path)
  BY <1>1, <1>2, ConfigShape DEF Spelled, Paths
<1>4. ASSUME NEW t \in trees
      PROVE  /\ \E k \in DOMAIN config.coverage.select : Aligned(config.coverage.select[k], path)
             /\ IsFile(t, path) /\ Clear(t, path) /\ path \in DOMAIN t
  <2>1. PICK k \in DOMAIN config.coverage.select : Selectable(t, path, config.coverage.select[k], {}) /\ IsFile(t, path)
    BY DEF Missed
  <2>2. Tree(t) /\ At(t, path).kind # "absent"
    BY <1>1, <2>1 DEF TreeInv, Selectable
  <2>3. Clear(t, path)
    BY <1>3, <2>2, DirsAbove DEF Clear, Tree
  <2>4. path \in DOMAIN t
    BY <1>3, <2>2 DEF At, Absent, Spelled
  <2> QED BY <2>1, <2>3, <2>4 DEF Selectable
<1>5. \A k \in DOMAIN path : path[k] # Outside
  <2>1. \A n \in 2 .. Len(path) : path[n] # Outside
    BY <1>1, <1>4 DEF TreeInv, Tree, IsTree
  <2>2. path[1] # Outside
    BY <1>3 DEF Contained, Spelled, Paths, Root
  <2>3. \A k \in DOMAIN path : k = 1 \/ k \in 2 .. Len(path)
    BY <1>3
  <2> QED BY <2>1, <2>2, <2>3
<1>6. Clean(path, walk.exclusions)
  <2> SUFFICES ASSUME NEW n \in 1 .. Len(path), NEW x \in walk.exclusions PROVE ~selector_matches_path(x, Up(path, n))
    BY DEF Clean
  <2>1. PICK i \in DOMAIN config.coverage.exclude : config.coverage.exclude[i] = x
    BY DEF ToSet
  <2>2. ~selector_prunes_path(x, path)
    BY <1>2, <2>1 DEF Settled, Valid, ValidCoverage, _an_exclusion_cannot_prune_an_exemption
  <2> QED BY <1>3, <2>2 DEF selector_prunes_path, Up
<1>7. Due(path) /\ ~Excused(path)
  BY <1>4, <1>5, <1>6 DEF Due, Excused
<1> QED BY <1>1, <1>3, <1>4, <1>7

LEMMA SettledNow ==
  ASSUME ConfigInv, pc \notin {"config", "refused"}
  PROVE  Settled
BY DEF ConfigInv

LEMMA JudgeCovers ==
  ASSUME CoverInv, Judge
  PROVE  JudgeInv' /\ StaleInv'
<1>1. /\ pc = "cover" /\ pc' = "inspect" /\ todo' = Sorted(walk.matched) /\ walk' = walk /\ config' = config /\ trees' = trees
      /\ problems' = walk.refusals \cup {Refusal("stale exemption",
           p) : p \in ToSet(config.coverage.exempt) \ walk.matched}
  BY DEF Judge
<1>2. TypeInv /\ ConfigInv /\ walk.strict /\ Settled /\ walk \in WalkType
  BY <1>1, SettledNow DEF CoverInv, FindInv, TypeInv, PhaseInv, LoadPhases, WalkInv
<1>3. walk.exclusions = ToSet(config.coverage.exclude) /\ config.coverage.declared
      /\ \A k \in DOMAIN config.coverage.select : Done(config.coverage.select[k])
  BY <1>1, <1>2 DEF CoverInv, ScopeInv, Begun, Checking, Chosen
<1>4. Members(todo') = walk.matched
  BY <1>1, <1>2, SortedMembers DEF WalkType
<1>5. JudgeInv'
  <2>1. \A path \in walk'.matched : path \in Members(todo')
    BY <1>1, <1>4
  <2>2. Members(todo)' = Members(todo')
    BY DEF Members
  <2>3. walk'.refusals \subseteq problems'
    BY <1>1
  <2> QED BY <1>1, <2>1, <2>2, <2>3 DEF JudgeInv
<1>6. ASSUME NEW problem \in problems', problem.kind = "stale exemption", Contained(problem.spelling)
      PROVE  Missed(problem.spelling)
  <2>1. problem \notin walk.refusals
    BY <1>2, <1>6 DEF WalkType, RefusalType
  <2>2. PICK p \in ToSet(config.coverage.exempt) \ walk.matched : problem = Refusal("stale exemption", p)
    BY <1>1, <2>1
  <2>3. problem.spelling = p
    BY <2>2 DEF Refusal
  <2> SUFFICES ASSUME ~Missed(p) PROVE FALSE
    BY <2>3
  <2>4. /\ p \in Spelled /\ Due(p) /\ ~Excused(p)
        /\ \E k \in DOMAIN config.coverage.select : Aligned(config.coverage.select[k], p)
    BY <1>1, <1>2, <1>3, <1>6, <2>3, ExemptIsDue
  <2> QED BY <1>3, <2>2, <2>4 DEF Done
<1>7. \A path : Missed(path) => Missed(path)'
  BY <1>1 DEF Missed
<1>8. StaleInv'
  BY <1>6, <1>7 DEF StaleInv
<1> QED BY <1>5, <1>8

LEMMA NotStale ==
  ASSUME NEW path, NEW problem, problem \in Complaint(path)
  PROVE  problem.kind # "stale exemption"
<1>1. \E kind \in {"unresolved", "not a file", "uncovered"} : problem = Refusal(kind, path)
  BY DEF Complaint
<1>2. PICK kind \in {"unresolved", "not a file", "uncovered"} : problem = Refusal(kind, path)
  BY <1>1
<1>3. problem.kind = kind
  BY <1>2 DEF Refusal
<1> QED BY <1>3

LEMMA InspectCovers ==
  ASSUME CoverInv, Inspect
  PROVE  JudgeInv' /\ StaleInv'
<1>1. PICK p : p = Head(todo)
  OBVIOUS
<1>2. /\ pc = "inspect" /\ pc' = pc /\ todo # <<>> /\ todo' = Tail(todo) /\ problems' = problems \cup Complaint(p)
      /\ walk' = walk /\ config' = config /\ trees' = trees /\ tree' = tree /\ nodes' = nodes
  BY <1>1 DEF Inspect
<1>3. todo \in Seq(Spelled) /\ tree \in trees
  BY <1>2 DEF CoverInv, FindInv, TypeInv, TodoInv, TreeInv
<1>4. Members(todo) = {p} \cup Members(Tail(todo))
  BY <1>1, <1>2, <1>3, TailMembers
<1>5. Complaint(p) # {} \/ Told(p)
  BY <1>3 DEF Complaint, Told
<1>6. \A path : Told(path) => Told(path)'
  BY <1>2 DEF Told, enrolled
<1>7. \A path \in walk.matched : path \in Members(todo) \/ problems # {} \/ Told(path)
  BY <1>2 DEF CoverInv, JudgeInv, Inspecting
<1>8. \A path \in walk.matched : path \in Members(Tail(todo)) \/ problems' # {} \/ Told(path)
  BY <1>2, <1>4, <1>5, <1>7
<1>9. JudgeInv'
  <2>1. Members(todo)' = Members(Tail(todo))
    BY <1>2 DEF Members
  <2>2. walk'.refusals \subseteq problems'
    BY <1>2 DEF CoverInv, JudgeInv, Inspecting
  <2>3. \A path \in walk'.matched : path \in Members(todo)' \/ problems' # {} \/ Told(path)'
    BY <1>2, <1>6, <1>8, <2>1
  <2> QED BY <1>2, <2>2, <2>3 DEF JudgeInv
<1>10. \A problem \in Complaint(p) : problem.kind # "stale exemption"
  BY NotStale
<1>11. \A path : Missed(path) => Missed(path)'
  BY <1>2 DEF Missed
<1>12. StaleInv'
  BY <1>2, <1>10, <1>11 DEF CoverInv, StaleInv
<1> QED BY <1>9, <1>12

LEMMA EnforceCovers ==
  ASSUME CoverInv, enforce_coverage
  PROVE  JudgeInv'
<1> SUFFICES ASSUME Inspecting' PROVE JudgeInv'
  BY DEF JudgeInv
<1>1. /\ pc = "inspect" /\ pc' = "loaded" /\ problems = {} /\ todo = <<>> /\ problems' = problems /\ todo' = todo
      /\ walk' = walk /\ config' = config /\ trees' = trees /\ nodes' = nodes
  BY DEF enforce_coverage, Inspecting
<1>2. \A path : Told(path) => Told(path)'
  BY <1>1 DEF Told, enrolled
<1>3. /\ walk.refusals \subseteq problems
      /\ \A path \in walk.matched : path \in Members(todo) \/ problems # {} \/ Told(path)
  BY <1>1 DEF CoverInv, JudgeInv, Inspecting
<1>4. Members(todo) = {}
  BY <1>1 DEF Members
<1>5. \A path \in walk'.matched : Told(path)'
  BY <1>1, <1>2, <1>3, <1>4
<1> QED BY <1>1, <1>3, <1>5 DEF JudgeInv

LEMMA CoverStill ==
  ASSUME CoverInv, pc' = pc, walk' = walk, config' = config, trees \subseteq trees', nodes' = nodes,
         todo' = todo, problems' = problems
  PROVE  JudgeInv'
<1>1. \A path : Told(path) => Told(path)'
  BY DEF Told, enrolled
<1>2. Inspecting' = Inspecting /\ Members(todo)' = Members(todo)
  BY DEF Inspecting, Members
<1> QED BY <1>1, <1>2 DEF CoverInv, JudgeInv

\* No step but the two that find problems changes them.
LEMMA StaleStays ==
  ASSUME CoverInv, problems' = problems, trees \subseteq trees', config' = config \/ pc = "config"
  PROVE  StaleInv'
<1>1. CASE pc = "config"
  <2>1. problems' = {}
    BY <1>1 DEF CoverInv, FindInv, TypeInv, ConfigInv
  <2> QED BY <2>1 DEF StaleInv
<1>2. CASE config' = config
  <2>1. \A path : Missed(path) => Missed(path)'
    BY <1>2 DEF Missed
  <2> QED BY <2>1 DEF CoverInv, StaleInv
<1> QED BY <1>1, <1>2

LEMMA CoverStep ==
  ASSUME CoverInv, [Next]_vars
  PROVE  CoverInv'
<1>1. FindInv' /\ ScopeInv'
  BY FindStep, ScopeStep DEF CoverInv
<1>2. trees \subseteq trees'
  BY TreeSteps DEF CoverInv, FindInv, TypeInv
<1>3. ASSUME ~Inspecting' PROVE JudgeInv'
  BY <1>3 DEF JudgeInv
<1>4. CASE Load
  <2>1. CASE Judge
    BY <1>1, <2>1, JudgeCovers DEF CoverInv
  <2>2. CASE Inspect
    BY <1>1, <2>2, InspectCovers DEF CoverInv
  <2>3. CASE enforce_coverage
    <3>1. StaleInv'
      BY <1>2, <2>3, StaleStays DEF enforce_coverage
    <3> QED BY <1>1, <2>3, <3>1, EnforceCovers DEF CoverInv
  <2>4. CASE load_config("manifests") \/ build_registration_index \/ Registered \/ Discover \/ Discovered
             \/ Acquire \/ AcquireRefused
    <3>1. problems' = problems /\ (config' = config \/ pc = "config")
      BY <2>4 DEF load_config, build_registration_index, Registered, Discover, Discovered, Acquire, AcquireRefused
    <3>2. ~Inspecting'
      BY <2>4 DEF Inspecting, load_config, build_registration_index, Registered, Discover, Discovered, Acquire,
           AcquireRefused
    <3> QED BY <1>1, <1>2, <1>3, <3>1, <3>2, StaleStays DEF CoverInv
  <2>5. CASE _assemble
    <3>1. problems' = problems /\ config' = config
      BY <2>5 DEF _assemble
    <3>2. ~Inspecting'
      BY <2>5, <3>1 DEF Inspecting, _assemble, select_paths
    <3> QED BY <1>1, <1>2, <1>3, <3>1, <3>2, StaleStays DEF CoverInv
  <2>6. CASE CoverageWalk
    <3>1. problems' = problems /\ config' = config /\ WalkStep("cover")
      BY <2>6 DEF CoverageWalk
    <3>2. WalkInv
      BY DEF CoverInv, FindInv, TypeInv
    <3>3. pc' \in {"walk", "refused", "cover"}
      BY <3>1, <3>2, WalkLeaves
    <3> QED BY <1>1, <1>2, <1>3, <3>1, <3>3, StaleStays DEF CoverInv, Inspecting
  <2> QED BY <1>4, <2>1, <2>2, <2>3, <2>4, <2>5, <2>6 DEF Load, LoadStep
<1>5. CASE CheckLinks
  <2>1. problems' = problems /\ (config' = config \/ pc = "config")
    BY <1>5 DEF CheckLinks, LinksStep, load_config, _require_link_sources, SourceWalk, Selected, select_link_sources,
         select_legacy_marker_sources, _link_message, _stat_mode, AskTarget, Said, check_links, ReadSource, Report,
         loading
  <2>2. ~walk'.strict
    <3>1. CASE SourceWalk
      <4>1. WalkInv
        BY DEF CoverInv, FindInv, TypeInv
      <4> QED BY <3>1, <4>1, WalkLeaves DEF SourceWalk
    <3>2. CASE ~SourceWalk
      BY <1>5, <3>2 DEF CheckLinks, LinksStep, load_config, _require_link_sources, Selected, select_link_sources,
           select_legacy_marker_sources, _link_message, _stat_mode, AskTarget, Said, check_links, ReadSource, Report,
           select_paths, NoWalk
    <3> QED BY <3>1, <3>2
  <2>3. ~Inspecting'
    BY <1>1, <2>2 DEF FindInv, TypeInv, PhaseInv, LoadPhases, Inspecting
  <2> QED BY <1>1, <1>2, <1>3, <2>1, <2>3, StaleStays DEF CoverInv
<1>6. CASE Edit \/ UNCHANGED vars
  <2>1. /\ pc' = pc /\ walk' = walk /\ config' = config /\ nodes' = nodes
        /\ todo' = todo /\ problems' = problems
    BY <1>6 DEF Edit, vars, loading
  <2> QED BY <1>1, <1>2, <2>1, CoverStill, StaleStays DEF CoverInv
<1> QED BY <1>4, <1>5, <1>6 DEF Next

LEMMA CoveredIsWhole ==
  ASSUME CoverInv
  PROVE  CoverageIsWhole
<1>1. \A problem \in problems :
        problem.kind = "stale exemption" /\ Contained(problem.spelling) =>
          \E t \in trees :
            \A k \in DOMAIN config.coverage.select :
              ~Selectable(t, problem.spelling, config.coverage.select[k], {}) \/ ~IsFile(t, problem.spelling)
  BY DEF CoverInv, StaleInv, Missed
<1>2. ASSUME pc = "loaded", config.coverage.declared, NEW p \in Spellings, \A t \in trees : ToCover(t, p)
      PROVE  \E t \in trees : \E n \in nodes : n.target = Real(t, p)
  <2>1. walk.strict /\ config \in Configs /\ Settled /\ tree \in trees
    BY <1>2, SettledNow DEF CoverInv, FindInv, TypeInv, PhaseInv, LoadPhases, ConfigInv, TreeInv
  <2>2. p \in Spelled /\ \A k \in DOMAIN p : p[k] # Outside
    BY SpellingsAreInside
  <2>3. walk.exclusions = ToSet(config.coverage.exclude)
        /\ \A k \in DOMAIN config.coverage.select : Done(config.coverage.select[k])
    BY <1>2, <2>1 DEF CoverInv, ScopeInv, Begun, Checking, Chosen
  <2>4. walk.exclusions \in SUBSET Selector
    BY DEF CoverInv, FindInv, TypeInv, WalkInv, WalkType
  <2>5. \A a \in Ancestors(p) \cup {p} : \A x \in walk.exclusions : ~Aligned(x, a)
    BY <1>2, <2>1, <2>3 DEF ToCover, ToSet
  <2>6. Clean(p, walk.exclusions)
    BY <2>2, <2>4, <2>5, CleanMeans
  <2>7. Due(p)
    BY <1>2, <2>1, <2>2, <2>6 DEF Due, ToCover
  <2>8. PICK k \in DOMAIN config.coverage.select : Aligned(config.coverage.select[k], p)
    BY <1>2, <2>1 DEF ToCover
  <2>9. problems = {} /\ todo = <<>> /\ walk.refusals \subseteq problems
        /\ \A path \in walk.matched : path \in Members(todo) \/ problems # {} \/ Told(path)
    BY <1>2 DEF CoverInv, JudgeInv, Inspecting
  <2>10. p \in walk.matched
    BY <2>2, <2>3, <2>7, <2>8, <2>9 DEF Done, Excused
  <2>11. Told(p)
    BY <2>9, <2>10 DEF Members
  <2>12. p \notin ToSet(config.coverage.exempt)
    BY <1>2, <2>1 DEF ToCover
  <2>13. PICK t \in trees : Real(t, p) \in enrolled
    BY <2>11, <2>12 DEF Told
  <2> QED BY <2>13 DEF enrolled
<1> QED BY <1>1, <1>2 DEF CoverageIsWhole

LEMMA Covers == Spec => []CoverInv
<1>1. Init => CoverInv
  <2> SUFFICES ASSUME Init PROVE CoverInv
    OBVIOUS
  <2>1. pc = "config" /\ problems = {}
    BY DEF Init
  <2> QED BY <2>1, InitTyped DEF CoverInv, FindInv, SoundInv, ReadInv, WholeInv, ScopeInv, Begun, Checking, JudgeInv,
  Inspecting, StaleInv
<1>2. CoverInv /\ [Next]_vars => CoverInv'
  BY CoverStep
<1> QED BY <1>1, <1>2, PTL DEF Spec

\* A load that coverage lets pass has a node for every document that the selectors spell,
\* and an exemption is not called stale of a file that is there for them to find.
THEOREM CoverageHolds == Spec => []CoverageIsWhole
BY Covers, CoveredIsWhole, PTL

-----------------------------------------------------------------------------
(* What the gate says of its sources.                                        *)

\* The document stays as it is, and one path leads to it or nothing changes at all.
Steady(path) ==
  /\ \A k \in DOMAIN path : path[k] # Outside
  /\ \A t \in trees : At(t, path).kind = "file" /\ Clear(t, path) /\ At(t, path) = At(tree, path)
  /\ (\A t \in trees : Unreached(t, path)) \/ trees = {tree}

Leads(path, place) == \E t \in trees : Real(t, path) = place

\* Something is said of the document, and of its links all but those that are yet to come.
Spoken(place) ==
  \E v \in verdicts :
    /\ v.link = NoLink /\ Leads(v.path, place)
    /\ \/ v.why = "unparseable"
       \/ \A link \in Members(At(tree, place).text.links) :
            \/ \E w \in verdicts : w.path = v.path /\ w.link = link
            \/ held.path = v.path /\ link \in Members(held.links)

SourceInv ==
  /\ \A k \in DOMAIN sources : Leads(sources[k].path, sources[k].place)
  /\ pc = "reported" => held.links = <<>>
  /\ pc \in {"sources", "reported"} \cup Checking =>
       \A p \in walk.matched : Steady(p) =>
         \/ pc = "sources" /\ p \in Members(todo)
         \/ pc # "reported" /\ \E k \in DOMAIN sources : sources[k].place = p
         \/ pc # "sources" /\ Spoken(p)

GateInv == FindInv /\ ScopeInv /\ SourceInv

LEMMA SteadyBefore ==
  ASSUME TreeInv, TreeInv', trees \subseteq trees', NEW path, Steady(path)'
  PROVE  Steady(path) /\ At(tree, path)' = At(tree, path)
<1>1. tree \in trees /\ tree \in trees' /\ tree' \in trees'
  BY DEF TreeInv
<1>2. At(tree, path)' = At(tree, path)
  BY <1>1 DEF Steady
<1>3. \A t \in trees : At(t, path).kind = "file" /\ Clear(t, path) /\ At(t, path) = At(tree, path)
  BY <1>1, <1>2 DEF Steady
<1>4. (\A t \in trees : Unreached(t, path)) \/ trees = {tree}
  <2>1. CASE \A t \in trees' : Unreached(t, path)
    BY <2>1
  <2>2. CASE trees' = {tree'}
    BY <1>1, <2>2
  <2> QED BY <2>1, <2>2 DEF Steady
<1> QED BY <1>2, <1>3, <1>4 DEF Steady

LEMMA SteadyFacts ==
  ASSUME TreeInv, NEW p \in Spelled, Steady(p), NEW t \in trees
  PROVE  /\ Real(t, p) = p /\ Contained(p)
         /\ \A q \in Paths : Leads(q, p) => Real(t, q) = p /\ Text(t, q) = At(tree, p).text
<1>1. p \in Paths /\ Len(p) \in Nat \ {0} /\ 1 \in DOMAIN p
  BY DEF Spelled, Paths, Root
<1>2. ASSUME NEW u \in trees PROVE Real(u, p) = p
  <2>1. Tree(u) /\ At(u, p).kind = "file"
    BY DEF TreeInv, Steady
  <2>2. \A n \in 0 .. Len(p) - 1 : At(u, Up(p, n)).kind = "dir"
    BY DEF Steady, Clear
  <2> QED BY <2>1, <2>2, RealThroughDirs DEF Tree, Through
<1>3. Contained(p)
  BY <1>1 DEF Contained, Steady, Paths
<1>4. ASSUME NEW q \in Paths, Leads(q, p) PROVE Real(t, q) = p
  <2>1. PICK u \in trees : Real(u, q) = p
    BY <1>4 DEF Leads
  <2>2. CASE \A w \in trees : Unreached(w, p)
    <3>1. IsTree(u) /\ Unreached(u, p)
      BY <2>2 DEF TreeInv, Tree
    <3>2. q = p
      BY <1>1, <2>1, <3>1, OneWay
    <3> QED BY <1>2, <3>2
  <2>3. CASE trees = {tree}
    BY <2>1, <2>3
  <2> QED BY <2>2, <2>3 DEF Steady
<1>5. At(t, p) = At(tree, p)
  BY DEF Steady
<1> QED BY <1>2, <1>3, <1>4, <1>5 DEF Text, Stat

\* A step that leaves the gate where it is, or takes it elsewhere.
LEMMA SourceQuiet ==
  ASSUME GateInv, TypeInv', links' = links,
         trees \subseteq trees',
         \/ pc' = pc /\ walk' = walk /\ todo' = todo
         \/ pc' \notin {"sources", "reported"} \cup Checking
  PROVE  SourceInv'
<1>1. /\ sources' = sources /\ held' = held /\ verdicts' = verdicts
      /\ trees \subseteq trees' /\ TreeInv /\ TreeInv'
  BY DEF links, GateInv, FindInv, TypeInv
<1>2. \A q, p : Leads(q, p) => Leads(q, p)'
  BY <1>1 DEF Leads
<1>3. \A k \in DOMAIN sources' : Leads(sources[k].path, sources[k].place)'
  BY <1>1, <1>2 DEF GateInv, SourceInv
<1>4. CASE pc' \notin {"sources", "reported"} \cup Checking
  BY <1>3, <1>4 DEF SourceInv
<1>5. CASE pc' = pc /\ walk' = walk /\ todo' = todo
  <2>1. ASSUME NEW p \in walk.matched, Steady(p)', pc \in {"sources", "reported"} \cup Checking
        PROVE  \/ pc = "sources" /\ p \in Members(todo)
               \/ pc # "reported" /\ \E k \in DOMAIN sources : sources[k].place = p
               \/ pc # "sources" /\ Spoken(p)'
    <3>1. Steady(p) /\ At(tree, p)' = At(tree, p)
      BY <1>1, <2>1, SteadyBefore
    <3>2. Spoken(p) => Spoken(p)'
      BY <1>1, <1>2, <3>1 DEF Spoken, Members
    <3> QED BY <2>1, <3>1, <3>2 DEF GateInv, SourceInv
  <2>2. Members(todo)' = Members(todo)
    BY <1>5 DEF Members
  <2>3. pc' = "reported" => held'.links = <<>>
    BY <1>1, <1>5 DEF GateInv, SourceInv
  <2> QED BY <1>1, <1>3, <1>5, <2>1, <2>2, <2>3 DEF SourceInv
<1> QED BY <1>4, <1>5

LEMMA SelectedSources ==
  ASSUME GateInv, Selected
  PROVE  SourceInv'
<1>1. pc' = "sources" /\ todo' = Sorted(walk.matched) /\ walk' = walk /\ trees' = trees /\ sources' = sources
  BY DEF Selected, links
<1>2. Members(todo') = walk.matched
  BY <1>1, SortedMembers DEF GateInv, FindInv, TypeInv, WalkInv, WalkType
<1>3. \A k \in DOMAIN sources' : Leads(sources[k].path, sources[k].place)'
  BY <1>1 DEF GateInv, SourceInv, Leads
<1>4. Members(todo)' = Members(todo')
  BY DEF Members
<1> QED BY <1>1, <1>2, <1>3, <1>4 DEF SourceInv

LEMMA SourceAdded ==
  ASSUME GateInv, select_link_sources
  PROVE  SourceInv'
<1>1. PICK path, place : path = Head(todo) /\ place = Real(tree, path)
  OBVIOUS
<1>2. /\ pc = "sources" /\ todo # <<>> /\ walk' = walk /\ trees' = trees /\ tree' = tree
      /\ held' = held /\ verdicts' = verdicts
  BY DEF select_link_sources
<1>3. TreeInv /\ tree \in trees /\ todo \in Seq(Spelled) /\ sources \in Seq(SourceType)
  BY <1>2 DEF GateInv, FindInv, TypeInv, TreeInv, TodoInv, LinkInv
<1>4. Leads(path, place)
  BY <1>1, <1>3 DEF Leads
<1>5. \A q, p : Leads(q, p)' = Leads(q, p)
  BY <1>2 DEF Leads
<1>6. CASE pc' = "refused" /\ sources' = sources
  BY <1>5, <1>6 DEF GateInv, SourceInv, Checking
<1>7. CASE /\ sources' = IF \E k \in DOMAIN sources : sources[k].place = place /\ Contained(place)
                         THEN sources ELSE Append(sources, [path |-> path, place |-> place])
           /\ todo' = Tail(todo) /\ pc' = pc
  <2>1. /\ \A k \in DOMAIN sources : k \in DOMAIN sources' /\ sources'[k] = sources[k]
        /\ \A k \in DOMAIN sources' : k \in DOMAIN sources \/ (sources'[k].path = path /\ sources'[k].place = place)
        /\ \E k \in DOMAIN sources' : sources'[k].place = place
    BY <1>3, <1>7
  <2>2. \A k \in DOMAIN sources' : Leads(sources[k].path, sources[k].place)'
    <3>1. \A k \in DOMAIN sources : Leads(sources[k].path, sources[k].place)
      BY DEF GateInv, SourceInv
    <3>2. ASSUME NEW k \in DOMAIN sources' PROVE Leads(sources'[k].path, sources'[k].place)
      BY <1>4, <2>1, <3>1
    <3>3. ASSUME NEW k \in DOMAIN sources' PROVE Leads(sources[k].path, sources[k].place)'
      <4>1. PICK s : s = sources'[k]
        OBVIOUS
      <4>2. Leads(s.path, s.place)
        BY <3>2, <4>1
      <4> QED BY <1>2, <4>1, <4>2 DEF Leads
    <3> QED BY <3>3
  <2>3. Members(todo) = {path} \cup Members(Tail(todo))
    BY <1>1, <1>2, <1>3, TailMembers
  <2>4. ASSUME NEW p \in walk.matched, Steady(p)'
        PROVE  p \in Members(Tail(todo)) \/ \E k \in DOMAIN sources' : sources'[k].place = p
    <3>1. Steady(p) /\ p \in Spelled
      <4>1. p \in Spelled
        BY DEF GateInv, FindInv, TypeInv, WalkInv, WalkType
      <4> QED BY <1>2, <2>4, <4>1 DEF Steady
    <3>2. p \in Members(todo) \/ \E k \in DOMAIN sources : sources[k].place = p
      BY <1>2, <3>1 DEF GateInv, SourceInv
    <3>3. p = path => place = p
      BY <1>1, <1>3, <3>1, SteadyFacts
    <3> QED BY <2>1, <2>3, <3>2, <3>3
  <2>5. Members(todo)' = Members(Tail(todo))
    BY <1>7 DEF Members
  <2> QED BY <1>2, <1>7, <2>2, <2>4, <2>5 DEF SourceInv
<1> QED BY <1>1, <1>6, <1>7 DEF select_link_sources

LEMMA SourcesAreIn ==
  ASSUME GateInv, select_legacy_marker_sources
  PROVE  SourceInv'
<1>1. /\ pc = "sources" /\ todo = <<>> /\ walk' = walk /\ trees' = trees /\ tree' = tree /\ sources' = sources
      /\ pc' \in {"refused", "check"}
  BY DEF select_legacy_marker_sources
<1>2. Members(todo) = {}
  BY <1>1 DEF Members
<1>3. \A k \in DOMAIN sources' : Leads(sources[k].path, sources[k].place)'
  BY <1>1 DEF GateInv, SourceInv, Leads
<1>4. ASSUME NEW p \in walk.matched, Steady(p)' PROVE \E k \in DOMAIN sources : sources[k].place = p
  <2>1. Steady(p)
    BY <1>1, <1>4 DEF Steady
  <2> QED BY <1>1, <1>2, <2>1 DEF GateInv, SourceInv
<1> QED BY <1>1, <1>3, <1>4 DEF SourceInv

LEMMA LinkSpoken ==
  ASSUME GateInv, _link_message \/ _stat_mode \/ AskTarget, UNCHANGED <<held, verdicts>>, TypeInv'
  PROVE  SourceInv'
<1>1. /\ pc \in Checking /\ pc' \in {"stat", "headings", "refused", "check"}
      /\ walk' = walk /\ trees' = trees /\ tree' = tree /\ sources' = sources /\ held' = held /\ verdicts' = verdicts
  BY LinkMoves DEF GateInv, FindInv
<1>2. \A q, p : Leads(q, p)' = Leads(q, p)
  BY <1>1 DEF Leads
<1>3. \A k \in DOMAIN sources' : Leads(sources[k].path, sources[k].place)'
  BY <1>1, <1>2 DEF GateInv, SourceInv
<1>4. \A p : (Steady(p)' => Steady(p)) /\ (Spoken(p) => Spoken(p)')
  BY <1>1, <1>2 DEF Steady, Spoken, Members
<1>5. \A p \in walk.matched : Steady(p) => (\E k \in DOMAIN sources : sources[k].place = p) \/ Spoken(p)
  BY <1>1 DEF GateInv, SourceInv, Checking
<1> QED BY <1>1, <1>3, <1>4, <1>5 DEF SourceInv, Checking

LEMMA LinkSaid ==
  ASSUME GateInv, _link_message \/ _stat_mode \/ AskTarget, ~UNCHANGED <<held, verdicts>>
  PROVE  SourceInv'
<1>1. /\ pc \in Checking /\ pc' = "check" /\ walk' = walk /\ trees' = trees /\ tree' = tree /\ sources' = sources
      /\ held.links # <<>> /\ held' = [held EXCEPT !.links = Tail(@)]
      /\ \E why : verdicts' = verdicts \cup {Verdict(held.path, Asked, why)}
  BY LinkMoves DEF GateInv, FindInv
<1>2. PICK link : link = Head(held.links)
  OBVIOUS
<1>3. verdicts \subseteq verdicts' /\ \E w \in verdicts' : w.path = held.path /\ w.link = link
  <2>1. \A why : Verdict(held.path, Asked, why).path = held.path /\ Verdict(held.path, Asked, why).link = link
    BY <1>2 DEF Verdict, Asked
  <2> QED BY <1>1, <2>1
<1>4. held'.path = held.path /\ held'.links = Tail(held.links) /\ held.links \in Seq(LinkType)
  <2>1. DOMAIN held \in {{"path", "links"}, {"path", "links", "text"}} /\ held.links \in Seq(LinkType)
    BY DEF GateInv, FindInv, TypeInv, LinkInv
  <2> QED BY <1>1, <2>1
<1>5. Members(held.links) = {link} \cup Members(Tail(held.links)) /\ Members(held.links)' = Members(Tail(held.links))
  <2>1. Members(held.links) = {link} \cup Members(Tail(held.links))
    BY <1>1, <1>2, <1>4, TailMembers
  <2>2. Members(held.links)' = Members(Tail(held.links))
    BY <1>4 DEF Members
  <2> QED BY <2>1, <2>2
<1>6. \A q, p : Leads(q, p)' = Leads(q, p)
  BY <1>1 DEF Leads
<1>7. \A k \in DOMAIN sources' : Leads(sources[k].path, sources[k].place)'
  BY <1>1 DEF GateInv, SourceInv, Leads
<1>8. ASSUME NEW p, Spoken(p) PROVE Spoken(p)'
  <2>1. PICK v \in verdicts :
          /\ v.link = NoLink /\ Leads(v.path, p)
          /\ \/ v.why = "unparseable"
             \/ \A l \in Members(At(tree, p).text.links) :
                  \/ \E w \in verdicts : w.path = v.path /\ w.link = l
                  \/ held.path = v.path /\ l \in Members(held.links)
    BY <1>8 DEF Spoken
  <2>2. v \in verdicts' /\ Leads(v.path, p)'
    BY <1>3, <1>6, <2>1
  <2>3. ASSUME NEW l \in Members(At(tree, p).text.links), v.why # "unparseable"
        PROVE  \/ \E w \in verdicts' : w.path = v.path /\ w.link = l
               \/ held'.path = v.path /\ l \in Members(held.links)'
    BY <1>3, <1>4, <1>5, <2>1, <2>3
  <2>4. Members(At(tree, p).text.links)' = Members(At(tree, p).text.links)
    BY <1>1
  <2> QED BY <2>1, <2>2, <2>3, <2>4 DEF Spoken
<1>9. ASSUME NEW p \in walk.matched, Steady(p)'
      PROVE  (\E k \in DOMAIN sources : sources[k].place = p) \/ Spoken(p)'
  <2>1. Steady(p)
    BY <1>1, <1>9 DEF Steady
  <2> QED BY <1>1, <1>8, <2>1 DEF GateInv, SourceInv, Checking
<1> QED BY <1>1, <1>7, <1>9 DEF SourceInv, Checking

LEMMA SourceSpoken ==
  ASSUME GateInv, check_links \/ ReadSource
  PROVE  SourceInv'
<1>1. PICK source, path : source = Head(sources) /\ path = source.path
  OBVIOUS
<1>2. /\ pc \in {"check", "open"} /\ pc' \in {"check", "open", "refused"}
      /\ walk' = walk /\ trees' = trees /\ tree' = tree /\ held.links = <<>> /\ sources # <<>>
  BY SourceMoves DEF GateInv, FindInv
<1>3. TreeInv /\ tree \in trees /\ sources \in Seq(SourceType)
  BY DEF GateInv, FindInv, TypeInv, TreeInv, LinkInv
<1>4. source \in SourceType /\ path \in Paths /\ 1 \in DOMAIN sources /\ sources[1] = source
  <2>1. source \in SourceType /\ 1 \in DOMAIN sources /\ sources[1] = source
    BY <1>1, <1>2, <1>3
  <2> QED BY <1>1, <2>1 DEF SourceType, Spelled
<1>5. \A q, p : Leads(q, p)' = Leads(q, p)
  BY <1>2 DEF Leads
<1>6. \A k \in DOMAIN sources : Leads(sources[k].path, sources[k].place)
  BY DEF GateInv, SourceInv
<1>7. CASE sources' = sources /\ held' = held /\ verdicts' = verdicts
  <2>1. \A k \in DOMAIN sources' : Leads(sources[k].path, sources[k].place)'
    BY <1>5, <1>6, <1>7
  <2>2. \A p : (Steady(p)' => Steady(p)) /\ (Spoken(p) => Spoken(p)')
    <3>1. \A p : Steady(p)' => Steady(p)
      BY <1>2 DEF Steady
    <3>2. Members(held.links)' = Members(held.links)
      BY <1>7 DEF Members
    <3>3. \A p : Members(At(tree, p).text.links)' = Members(At(tree, p).text.links)
      BY <1>2 DEF Members
    <3>4. \A p : Spoken(p) => Spoken(p)'
      BY <1>5, <1>7, <3>2, <3>3 DEF Spoken
    <3> QED BY <3>1, <3>4
  <2>3. \A p \in walk.matched : Steady(p) => (\E k \in DOMAIN sources : sources[k].place = p) \/ Spoken(p)
    BY <1>2 DEF GateInv, SourceInv, Checking
  <2> QED BY <1>2, <1>7, <2>1, <2>2, <2>3 DEF SourceInv, Checking
<1>8. ASSUME NEW why, verdicts' = verdicts \cup {Verdict(path, NoLink, why)},
             sources' = Tail(sources), pc' = "check",
             \/ why = "escapes" /\ ~Contained(Real(tree, path))
             \/ why = "unparseable"
             \/ held' = [path |-> path, links |-> Text(tree, path).links, text |-> Text(tree, path)]
      PROVE  SourceInv'
  <2>1. /\ \A k \in DOMAIN sources' : k + 1 \in DOMAIN sources /\ sources'[k] = sources[k + 1]
        /\ \A k \in DOMAIN sources : k = 1 \/ (k - 1 \in DOMAIN sources' /\ sources'[k - 1] = sources[k])
    BY <1>2, <1>3, <1>8
  <2>2. ASSUME NEW k \in DOMAIN sources' PROVE Leads(sources[k].path, sources[k].place)'
    <3>1. PICK s : s = sources'[k]
      OBVIOUS
    <3>2. Leads(s.path, s.place)
      BY <1>6, <2>1, <3>1
    <3> QED BY <1>2, <3>1, <3>2 DEF Leads
  <2>3. ASSUME NEW p, Spoken(p) PROVE Spoken(p)'
    <3>1. Members(held.links) = {}
      BY <1>2 DEF Members
    <3>2. PICK v \in verdicts :
            /\ v.link = NoLink /\ Leads(v.path, p)
            /\ \/ v.why = "unparseable"
               \/ \A l \in Members(At(tree, p).text.links) : \E w \in verdicts : w.path = v.path /\ w.link = l
      BY <2>3, <3>1 DEF Spoken
    <3>3. v \in verdicts' /\ Leads(v.path, p)' /\ verdicts \subseteq verdicts'
      BY <1>5, <1>8, <3>2
    <3>4. Members(At(tree, p).text.links)' = Members(At(tree, p).text.links)
      BY <1>2
    <3> QED BY <3>2, <3>3, <3>4 DEF Spoken
  <2>4. ASSUME NEW p \in Spelled, Steady(p), source.place = p PROVE Spoken(p)'
    <3>1. Leads(path, p)
      BY <1>1, <1>4, <1>6, <2>4
    <3>2. Real(tree, path) = p /\ Contained(p) /\ Text(tree, path) = At(tree, p).text
      BY <1>3, <1>4, <2>4, <3>1, SteadyFacts
    <3>3. PICK v : v = Verdict(path, NoLink, why)
      OBVIOUS
    <3>4. v \in verdicts' /\ v.link = NoLink /\ v.path = path /\ v.why = why
      BY <1>8, <3>3 DEF Verdict
    <3>6. v.why = "unparseable" \/ (held'.path = v.path /\ held'.links = At(tree, p).text.links)
      BY <1>8, <3>2, <3>4
    <3>7. Leads(v.path, p)'
      BY <1>5, <3>1, <3>4
    <3>8. Members(At(tree, p).text.links)' = Members(At(tree, p).text.links)
      BY <1>2
    <3>9. v.why = "unparseable" \/ (held'.path = v.path /\ Members(held.links)' = Members(At(tree, p).text.links))
      BY <3>6 DEF Members
    <3> QED BY <3>4, <3>7, <3>8, <3>9 DEF Spoken
  <2>5. ASSUME NEW p \in walk.matched, Steady(p)'
        PROVE  (\E k \in DOMAIN sources' : sources'[k].place = p) \/ Spoken(p)'
    <3>1. Steady(p) /\ p \in Spelled
      <4>1. p \in Spelled
        BY DEF GateInv, FindInv, TypeInv, WalkInv, WalkType
      <4> QED BY <1>2, <2>5, <4>1 DEF Steady
    <3>2. (\E k \in DOMAIN sources : sources[k].place = p) \/ Spoken(p)
      BY <1>2, <3>1 DEF GateInv, SourceInv, Checking
    <3>3. ASSUME NEW k \in DOMAIN sources, sources[k].place = p
          PROVE  (\E j \in DOMAIN sources' : sources'[j].place = p) \/ Spoken(p)'
      BY <1>4, <2>1, <2>4, <3>1, <3>3
    <3> QED BY <2>3, <3>2, <3>3
  <2> QED BY <1>2, <1>8, <2>2, <2>5 DEF SourceInv, Checking
<1>9. CASE check_links
  <2>1. \/ sources' = sources /\ held' = held /\ verdicts' = verdicts
        \/ /\ ~Contained(Real(tree, path)) /\ verdicts' = verdicts \cup {Verdict(path, NoLink, "escapes")}
           /\ sources' = Tail(sources) /\ pc' = "check"
    BY <1>1, <1>9 DEF check_links, _escapes_by_symlink
  <2> QED BY <1>7, <1>8, <2>1
<1>10. CASE ReadSource
  <2> DEFINE why == SourceVerdict(Text(tree, path))
  <2>1. \/ sources' = sources /\ held' = held /\ verdicts' = verdicts
        \/ /\ verdicts' = verdicts \cup {Verdict(path, NoLink, why)}
           /\ sources' = Tail(sources) /\ pc' = "check"
           /\ \/ why = "unparseable"
              \/ held' = [path |-> path, links |-> Text(tree, path).links, text |-> Text(tree, path)]
    BY <1>1, <1>10 DEF ReadSource
  <2> HIDE DEF why
  <2> QED BY <1>7, <1>8, <2>1
<1> QED BY <1>9, <1>10

LEMMA ReportSpoken ==
  ASSUME GateInv, Report
  PROVE  SourceInv'
<1>1. /\ pc = "check" /\ pc' = "reported" /\ held.links = <<>> /\ sources = <<>>
      /\ walk' = walk /\ trees' = trees /\ tree' = tree /\ sources' = sources /\ held' = held /\ verdicts' = verdicts
  BY DEF Report, links
<1>2. ASSUME NEW p \in walk.matched, Steady(p)' PROVE Spoken(p)'
  <2>1. Steady(p)
    BY <1>1, <1>2 DEF Steady
  <2>2. Spoken(p)
    BY <1>1, <2>1 DEF GateInv, SourceInv, Checking
  <2> QED BY <1>1, <2>2 DEF Spoken, Leads
<1>3. \A k \in DOMAIN sources' : Leads(sources[k].path, sources[k].place)'
  BY <1>1
<1> QED BY <1>1, <1>2, <1>3 DEF SourceInv

LEMMA GateStep ==
  ASSUME GateInv, [Next]_vars
  PROVE  GateInv'
<1>1. FindInv' /\ ScopeInv' /\ TypeInv'
  BY FindStep, ScopeStep DEF GateInv, FindInv
<1>2. trees \subseteq trees'
  BY TreeSteps DEF GateInv, FindInv, TypeInv
<1>3. CASE Load
  <2>1. links' = links
    BY <1>3 DEF Load
  <2>2. pc' \notin {"sources", "reported"} \cup Checking
    <3>1. CASE CoverageWalk
      <4>1. WalkInv
        BY DEF GateInv, FindInv, TypeInv
      <4>2. pc' \in {"walk", "refused", "cover"}
        BY <3>1, <4>1, WalkLeaves DEF CoverageWalk
      <4> QED BY <4>2 DEF Checking
    <3>2. CASE ~CoverageWalk
      <4>1. /\ pc \notin Checking /\ pc # "reported" /\ (pc # "sources" \/ pc' # pc)
        BY <1>3, <3>2 DEF Load, LoadStep, load_config, build_registration_index, Registered, Discover, Discovered,
             Acquire,
             AcquireRefused, _assemble, Judge, Inspect, enforce_coverage, GateInv, FindInv, TypeInv, PhaseInv,
             LinkPhases, Checking
      <4>2. pc' = pc \/ pc' \notin {"sources", "reported"} \cup Checking
        BY <1>3, <3>2 DEF Load, LoadStep, load_config, build_registration_index, Registered, Discover, Discovered,
             Acquire,
             AcquireRefused, _assemble, Judge, Inspect, enforce_coverage, select_paths, Checking
      <4> QED BY <4>1, <4>2 DEF Checking
    <3> QED BY <3>1, <3>2
  <2> QED BY <1>1, <1>2, <2>1, <2>2, SourceQuiet DEF GateInv
<1>4. CASE CheckLinks
  <2>1. CASE SourceWalk
    <3>1. WalkInv /\ links' = links
      BY <2>1 DEF GateInv, FindInv, TypeInv, SourceWalk
    <3>2. pc' \in {"walk", "refused", "judge"}
      BY <2>1, <3>1, WalkLeaves DEF SourceWalk
    <3> QED BY <1>1, <1>2, <3>1, <3>2, SourceQuiet DEF GateInv, Checking
  <2>2. CASE (load_config("links") /\ UNCHANGED links) \/ _require_link_sources
    <3>1. links' = links /\ pc' \notin {"sources", "reported"} \cup Checking
      BY <2>2 DEF load_config, _require_link_sources, select_paths, Checking
    <3> QED BY <1>1, <1>2, <3>1, SourceQuiet DEF GateInv
  <2> QED BY <1>1, <1>4, <2>1, <2>2, SelectedSources, SourceAdded, SourcesAreIn, LinkSpoken, LinkSaid, SourceSpoken,
  ReportSpoken
          DEF CheckLinks, LinksStep, GateInv
<1>5. CASE Edit \/ UNCHANGED vars
  <2>1. pc' = pc /\ walk' = walk /\ todo' = todo /\ links' = links
    BY <1>5 DEF Edit, vars
  <2> QED BY <1>1, <1>2, <2>1, SourceQuiet DEF GateInv
<1> QED BY <1>3, <1>4, <1>5 DEF Next

LEMMA SpokenIsChecked ==
  ASSUME GateInv
  PROVE  EverySourceIsChecked
<1> SUFFICES ASSUME pc = "reported", NEW p \in Spellings,
                    \A t \in trees : /\ At(t, p) = At(tree, p) /\ At(t, p).kind = "file"
                                     /\ Unreached(t, p) \/ trees = {tree}
                                     /\ \E k \in DOMAIN config.link_sources : Selectable(t, p, config.link_sources[k], {})
             PROVE  \E v \in verdicts :
                      /\ v.link = NoLink /\ \E t \in trees : Real(t, v.path) = p
                      /\ \/ v.why = "unparseable"
                         \/ \A k \in DOMAIN At(tree, p).text.links :
                              \E w \in verdicts : w.path = v.path /\ w.link = At(tree, p).text.links[k]
  BY DEF EverySourceIsChecked
<1>1. TreeInv /\ tree \in trees /\ ~walk.strict
  BY DEF GateInv, FindInv, TypeInv, TreeInv, PhaseInv, LinkPhases, Checking
<1>2. p \in Spelled /\ \A k \in DOMAIN p : p[k] # Outside
  BY SpellingsAreInside
<1>3. walk.exclusions = {} /\ \A k \in DOMAIN config.link_sources : Done(config.link_sources[k])
  BY <1>1 DEF GateInv, ScopeInv, Begun, Checking, Chosen
<1>4. Clean(p, walk.exclusions)
  BY <1>3 DEF Clean
<1>5. \A t \in trees : \A a \in Ancestors(p) : At(t, a).kind = "dir"
  BY DEF Selectable
<1>6. Due(p) /\ \A t \in trees : Clear(t, p)
  BY <1>1, <1>2, <1>4, <1>5, SelectableIsDue
<1>7. PICK k \in DOMAIN config.link_sources : Aligned(config.link_sources[k], p)
  BY <1>1 DEF Selectable
<1>8. p \in walk.matched
  BY <1>2, <1>3, <1>6, <1>7 DEF Done, Excused
<1>9. Steady(p)
  BY <1>2, <1>6 DEF Steady
<1>10. Spoken(p) /\ held.links = <<>>
  BY <1>8, <1>9 DEF GateInv, SourceInv
<1>11. Members(held.links) = {}
  BY <1>10 DEF Members
<1>12. PICK v \in verdicts :
         /\ v.link = NoLink /\ Leads(v.path, p)
         /\ \/ v.why = "unparseable"
            \/ \A l \in Members(At(tree, p).text.links) : \E w \in verdicts : w.path = v.path /\ w.link = l
  BY <1>10, <1>11 DEF Spoken
<1> QED BY <1>12 DEF Leads, Members

LEMMA Gates == Spec => []GateInv
<1>1. Init => GateInv
  <2> SUFFICES ASSUME Init PROVE GateInv
    OBVIOUS
  <2>1. pc = "config" /\ sources = <<>>
    BY DEF Init
  <2> QED BY <2>1, InitTyped DEF GateInv, FindInv, SoundInv, ReadInv, WholeInv, ScopeInv, Begun, SourceInv, Checking
<1>2. GateInv /\ [Next]_vars => GateInv'
  BY GateStep
<1> QED BY <1>1, <1>2, PTL DEF Spec

\* A report covers every document that the selectors name throughout, under a path that
\* leads to it, and all its links.
THEOREM Sources == Spec => []EverySourceIsChecked
BY Gates, SpokenIsChecked, PTL

=============================================================================
