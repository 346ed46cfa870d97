------------------------ MODULE FrontmatterRewrite_proofs ------------------------
(* The rewrite of one document's frontmatter, for any number of entries, names,   *)
(* references and updates and any web of aliases and merge keys among them: that  *)
(* a rewrite is exact and settles, and that the planner's edits always load as    *)
(* what was meant, so that the verification stops nothing it does not explain.    *)
EXTENDS FrontmatterRewrite, Iteration_proofs

Values == Hashes \cup Refs \cup {Absent, Null}
Updates == UNION {[R -> Hashes] : R \in SUBSET Refs}

\* What the members of a document are.
LEMMA ShapeFacts ==
  ASSUME NEW d, Shaped(d)
  PROVE  /\ Len(d.items) \in Nat /\ Items(d) = 1 .. Len(d.items) /\ Items(d) \in SUBSET Nat
         /\ \A i \in Items(d) :
              /\ d.items[i].kind \in {"map", "alias"} /\ d.items[i].ref \in Refs \cup {Absent}
              /\ d.items[i].seen \in Seens /\ d.items[i].merge \in Seq(Nat)
              /\ d.items[i].of \in Nat
         /\ d.first \in Nat /\ d.first > 0
<1> DEFINE Item == [kind : {"map", "alias"}, ref : Refs \cup {Absent}, seen : Seens,
                    merge : Seq(Nat), of : Nat]
<1>1. d.items \in Seq(Item) /\ d.first \in Nat /\ d.first > 0
  BY DEF Shaped
<1>2. \A x \in Item : /\ x.kind \in {"map", "alias"} /\ x.ref \in Refs \cup {Absent}
                      /\ x.seen \in Seens /\ x.merge \in Seq(Nat) /\ x.of \in Nat
  OBVIOUS
<1> HIDE DEF Item
<1>3. \A i \in 1 .. Len(d.items) : d.items[i] \in Item
  BY <1>1
<1>4. Len(d.items) \in Nat /\ Items(d) = 1 .. Len(d.items)
  BY <1>1 DEF Items
<1> QED BY <1>1, <1>2, <1>3, <1>4

LEMMA ItemRecord ==
  ASSUME NEW d, Shaped(d), NEW i \in Items(d)
  PROVE  DOMAIN d.items[i] = {"kind", "ref", "seen", "merge", "of"}
<1> DEFINE Item == [kind : {"map", "alias"}, ref : Refs \cup {Absent}, seen : Seens,
                    merge : Seq(Nat), of : Nat]
<1>1. \A x \in Item : DOMAIN x = {"kind", "ref", "seen", "merge", "of"}
  OBVIOUS
<1>2. d.items \in Seq(Item)
  BY DEF Shaped
<1> HIDE DEF Item
<1>3. d.items[i] \in Item
  BY <1>2, ShapeFacts
<1> QED BY <1>1, <1>3

\* An alias stands for a mapping before it and has nothing of its own; a mapping
\* merges mappings before it.
LEMMA ItemFacts ==
  ASSUME NEW d, Shaped(d), NEW i \in Items(d)
  PROVE  /\ d.items[i].kind = "alias" =>
              /\ d.items[i].of \in Items(d) /\ d.items[i].of < i
              /\ d.items[d.items[i].of].kind = "map"
              /\ d.items[i].ref = Absent /\ d.items[i].seen = NoSeen /\ d.items[i].merge = <<>>
         /\ \A n \in 1 .. Len(d.items[i].merge) :
              /\ d.items[i].merge[n] \in Items(d) /\ d.items[i].merge[n] < i
              /\ d.items[d.items[i].merge[n]].kind = "map"
         /\ Len(d.items[i].merge) \in Nat
<1> DEFINE item == d.items[i]
<1>1. /\ item.kind = "alias" => item = ItemAlias(item.of) /\ item.of \in Mappings(d, i)
      /\ \A n \in DOMAIN item.merge : item.merge[n] \in Mappings(d, i)
  BY DEF Shaped
<1>2. item.merge \in Seq(Nat)
  BY ShapeFacts
<1> HIDE DEF item
<1>3. item.kind = "alias" => /\ item.of \in Mappings(d, i) /\ item.ref = Absent
                             /\ item.seen = NoSeen /\ item.merge = <<>>
  BY <1>1 DEF ItemAlias
<1>4. DOMAIN item.merge = 1 .. Len(item.merge) /\ Len(item.merge) \in Nat
  BY <1>2
<1> QED BY <1>1, <1>3, <1>4 DEF item, Mappings

-----------------------------------------------------------------------------
(* The loader, as the recursion that it is.                                  *)

Leads(sources, member, none, n) ==
  /\ member[sources[n]] # none
  /\ \A o \in 1 .. Len(sources) : o < n => member[sources[o]] = none

\* There is none, or there is a first one.
LEMMA FirstFacts ==
  ASSUME NEW sources \in Seq(Nat), NEW member, NEW none
  PROVE  \/ /\ \A n \in 1 .. Len(sources) : member[sources[n]] = none
            /\ FirstOf(sources, member, none) = none
         \/ \E n \in 1 .. Len(sources) :
              /\ Leads(sources, member, none, n)
              /\ FirstOf(sources, member, none) = member[sources[n]]
<1> DEFINE has == {n \in 1 .. Len(sources) : member[sources[n]] # none}
<1>1. FirstOf(sources, member, none) =
        IF has = {} THEN none
        ELSE member[sources[CHOOSE n \in has : \A o \in has : n <= o]]
  BY DEF FirstOf
<1>2. CASE has = {}
  BY <1>1, <1>2
<1>3. CASE has # {}
  <2> DEFINE n == CHOOSE x \in has : \A o \in has : x <= o
  <2>1. has \in SUBSET Nat
    OBVIOUS
  <2> HIDE DEF has
  <2>2. n \in has /\ \A o \in has : n <= o
    BY <1>3, <2>1, HasLeast
  <2>3. FirstOf(sources, member, none) = member[sources[n]]
    BY <1>1, <1>3
  <2> HIDE DEF n
  <2>4. n \in 1 .. Len(sources) /\ member[sources[n]] # none
    BY <2>2 DEF has
  <2>5. \A o \in 1 .. Len(sources) : o < n => member[sources[o]] = none
    BY <2>2, <2>4 DEF has
  <2> QED BY <2>3, <2>4, <2>5 DEF Leads
<1> QED BY <1>2, <1>3

\* The one that leads is the first.
LEMMA FirstIs ==
  ASSUME NEW sources \in Seq(Nat), NEW member, NEW none, NEW n \in 1 .. Len(sources),
         Leads(sources, member, none, n)
  PROVE  FirstOf(sources, member, none) = member[sources[n]]
<1>1. PICK k \in 1 .. Len(sources) :
        Leads(sources, member, none, k) /\ FirstOf(sources, member, none) = member[sources[k]]
  BY FirstFacts DEF Leads
<1>2. k = n
  BY <1>1 DEF Leads
<1> QED BY <1>1, <1>2

\* It depends on the sources only.
LEMMA FirstLocal ==
  ASSUME NEW sources \in Seq(Nat), NEW g, NEW h, NEW none,
         \A n \in 1 .. Len(sources) : g[sources[n]] = h[sources[n]]
  PROVE  FirstOf(sources, g, none) = FirstOf(sources, h, none)
<1>1. CASE \A n \in 1 .. Len(sources) : g[sources[n]] = none
  BY <1>1, FirstFacts DEF Leads
<1>2. CASE \E n \in 1 .. Len(sources) : g[sources[n]] # none
  <2>1. PICK n \in 1 .. Len(sources) : Leads(sources, g, none, n)
    BY <1>2, FirstFacts
  <2>2. Leads(sources, h, none, n)
    BY <2>1 DEF Leads
  <2>3. FirstOf(sources, g, none) = g[sources[n]]
    BY <2>1, FirstIs
  <2>4. FirstOf(sources, h, none) = h[sources[n]]
    BY <2>2, FirstIs
  <2> QED BY <2>3, <2>4
<1> QED BY <1>1, <1>2

LoadsAs(d, own, f) ==
  f = [i \in Items(d) |->
         IF d.items[i].kind = "alias" THEN f[d.items[i].of]
         ELSE IF own[i] # Absent THEN own[i]
         ELSE FirstOf(d.items[i].merge, f, Absent)]

\* What a member of each mapping loads as, in terms of what the mappings before it do.
LEMMA LoadedFacts ==
  ASSUME NEW d, Shaped(d), NEW own \in [Items(d) -> Values]
  PROVE  /\ Loaded(d, own) \in [Items(d) -> Values]
         /\ \A i \in Items(d) :
              Loaded(d, own)[i] =
                IF d.items[i].kind = "alias" THEN Loaded(d, own)[d.items[i].of]
                ELSE IF own[i] # Absent THEN own[i]
                ELSE FirstOf(d.items[i].merge, Loaded(d, own), Absent)
<1> DEFINE N == Len(d.items)
           value(i, f) == IF d.items[i].kind = "alias" THEN f[d.items[i].of]
                          ELSE IF own[i] # Absent THEN own[i]
                          ELSE FirstOf(d.items[i].merge, f, Absent)
           step == [x \in (1 .. N) \X [1 .. N -> Values] |-> value(x[1], x[2])]
<1>1. N \in Nat /\ Items(d) = 1 .. N
  BY ShapeFacts
<1>2. ASSUME NEW i \in 1 .. N, NEW f \in [1 .. N -> Values]
      PROVE  value(i, f) \in Values
  <2>1. d.items[i].kind = "alias" => d.items[i].of \in 1 .. N
    BY <1>1, ItemFacts
  <2>2. FirstOf(d.items[i].merge, f, Absent) \in Values
    <3> DEFINE sources == d.items[i].merge
    <3>1. sources \in Seq(Nat)
      BY <1>1, ShapeFacts
    <3>2. \A n \in 1 .. Len(sources) : sources[n] \in 1 .. N
      BY <1>1, ItemFacts
    <3>3. Absent \in Values
      BY DEF Values
    <3>4. \A n \in 1 .. Len(sources) : f[sources[n]] \in Values
      BY <3>2
    <3> HIDE DEF sources
    <3>5. FirstOf(sources, f, Absent) \in Values
      BY <3>1, <3>3, <3>4, FirstFacts
    <3> QED BY <3>5 DEF sources
  <2> QED BY <1>1, <2>1, <2>2
<1>3. ASSUME NEW i \in 1 .. N, NEW g \in [1 .. N -> Values], NEW h \in [1 .. N -> Values],
             \A j \in 1 .. N : j < i => g[j] = h[j]
      PROVE  value(i, g) = value(i, h)
  <2>1. d.items[i].kind = "alias" => d.items[i].of \in 1 .. N /\ d.items[i].of < i
    BY <1>1, ItemFacts
  <2>2. FirstOf(d.items[i].merge, g, Absent) = FirstOf(d.items[i].merge, h, Absent)
    <3>1. d.items[i].merge \in Seq(Nat)
      BY <1>1, ShapeFacts
    <3>2. \A n \in 1 .. Len(d.items[i].merge) : d.items[i].merge[n] \in 1 .. N /\ d.items[i].merge[n] < i
      BY <1>1, ItemFacts
    <3>3. \A n \in 1 .. Len(d.items[i].merge) : g[d.items[i].merge[n]] = h[d.items[i].merge[n]]
      BY <1>3, <3>2
    <3> QED BY <3>1, <3>3, FirstLocal
  <2> QED BY <1>3, <2>1, <2>2
<1> HIDE DEF value, N
<1>4. step \in [(1 .. N) \X [1 .. N -> Values] -> Values]
  BY <1>2
<1>5. \A i \in 1 .. N, f \in [1 .. N -> Values] : step[<<i, f>>] = value(i, f)
  OBVIOUS
<1> HIDE DEF step
<1>6. LooksBack(N, Values, step)
  <2> SUFFICES ASSUME NEW i \in 1 .. N, NEW g \in [1 .. N -> Values], NEW h \in [1 .. N -> Values],
                      \A j \in 1 .. N : j < i => g[j] = h[j]
               PROVE  step[<<i, g>>] = step[<<i, h>>]
    BY DEF LooksBack
  <2>1. value(i, g) = value(i, h)
    BY <1>3
  <2> QED BY <1>5, <2>1
<1>7. Absent \in Values
  BY DEF Values
<1>8. PICK f \in [1 .. N -> Values] : GrowsBack(N, step, f)
  <2> HIDE DEF Values
  <2>1. N \in Nat
    BY <1>1
  <2> QED BY <2>1, <1>4, <1>6, <1>7, Grown
<1>9. \A i \in 1 .. N : f[i] = value(i, f)
  BY <1>5, <1>8 DEF GrowsBack
<1>10. LoadsAs(d, own, f)
  <2>1. f = [i \in 1 .. N |-> value(i, f)]
    BY <1>9
  <2> QED BY <1>1, <2>1 DEF LoadsAs, value
<1>11. Loaded(d, own) = CHOOSE g : LoadsAs(d, own, g)
  BY DEF Loaded, LoadsAs
<1> DEFINE r == Loaded(d, own)
<1>12. LoadsAs(d, own, r)
  BY <1>10, <1>11
<1> HIDE DEF r
<1>13. DOMAIN r = 1 .. N /\ \A i \in 1 .. N : r[i] = value(i, r)
  BY <1>1, <1>12 DEF LoadsAs, value
<1>14. \A i \in 1 .. N : r[i] \in Values
  <2> DEFINE P == {i \in 1 .. N : r[i] \in Values}
  <2>2. ASSUME NEW i \in 1 .. N, \A j \in 1 .. N : j < i => j \in P
        PROVE  r[i] \in Values
    <3> DEFINE sources == d.items[i].merge
    <3>1. d.items[i].kind = "alias" => d.items[i].of \in 1 .. N /\ d.items[i].of < i
      BY <1>1, ItemFacts
    <3>2. sources \in Seq(Nat)
      BY <1>1, ShapeFacts
    <3>3. \A n \in 1 .. Len(sources) : sources[n] \in 1 .. N /\ sources[n] < i
      BY <1>1, ItemFacts
    <3>4. \A n \in 1 .. Len(sources) : r[sources[n]] \in Values
      BY <2>2, <3>3
    <3> HIDE DEF sources
    <3>5. FirstOf(sources, r, Absent) \in Values
      BY <1>7, <3>2, <3>4, FirstFacts
    <3>6. own[i] \in Values
      BY <1>1
    <3> QED BY <1>13, <2>2, <3>1, <3>5, <3>6 DEF value, sources
  <2>3. \A i \in 1 .. N : (\A j \in 1 .. N : j < i => j \in P) => i \in P
    BY <2>2
  <2> HIDE DEF P
  <2>4. \A i \in 1 .. N : i \in P
    BY <1>1, <2>3, FromBelow
  <2> QED BY <2>4 DEF P
<1>15. r = [i \in Items(d) |-> value(i, r)]
  BY <1>1, <1>12 DEF LoadsAs, value
<1>16. r \in [Items(d) -> Values]
  BY <1>1, <1>13, <1>14, <1>15
<1> QED BY <1>1, <1>13, <1>16 DEF r, value

\* Where a mapping's `seen` comes from, or that of those that merge it.
Froms(d, origins, f, i) ==
  [s \in Mappings(d, i) |-> IF s \in origins \/ d.items[s].seen # NoSeen THEN s ELSE f[s]]

OriginAs(d, origins, f) ==
  f = [i \in Items(d) |-> FirstOf(d.items[i].merge, Froms(d, origins, f, i), 0)]

LEMMA OriginFacts ==
  ASSUME NEW d, Shaped(d), NEW origins
  PROVE  /\ InheritedOrigin(d, origins) \in [Items(d) -> Nat]
         /\ \A i \in Items(d) :
              InheritedOrigin(d, origins)[i] =
                FirstOf(d.items[i].merge, Froms(d, origins, InheritedOrigin(d, origins), i), 0)
<1> DEFINE N == Len(d.items)
           sources(i) == d.items[i].merge
           value(i, f) == FirstOf(sources(i), Froms(d, origins, f, i), 0)
           step == [x \in (1 .. N) \X [1 .. N -> Nat] |-> value(x[1], x[2])]
<1>1. N \in Nat /\ Items(d) = 1 .. N
  BY ShapeFacts
<1>2. \A i \in 1 .. N : /\ sources(i) \in Seq(Nat)
                        /\ \A n \in 1 .. Len(sources(i)) : sources(i)[n] \in Mappings(d, i)
  BY <1>1, ShapeFacts, ItemFacts DEF Mappings
<1>a. \A i \in 1 .. N : \A s \in Mappings(d, i) : s \in 1 .. N /\ s < i
  BY <1>1 DEF Mappings
<1> HIDE DEF N, sources
<1>3. ASSUME NEW i \in 1 .. N, NEW f, \A j \in 1 .. N : j < i => f[j] \in Nat
      PROVE  value(i, f) \in Nat
  <2>1. \A n \in 1 .. Len(sources(i)) : Froms(d, origins, f, i)[sources(i)[n]] \in Nat
    BY <1>a, <1>2, <1>3, <1>1 DEF Froms
  <2>2. sources(i) \in Seq(Nat)
    BY <1>2
  <2> QED BY <2>1, <2>2, FirstFacts
<1>4. ASSUME NEW i \in 1 .. N, NEW g, NEW h, \A j \in 1 .. N : j < i => g[j] = h[j]
      PROVE  value(i, g) = value(i, h)
  <2>1. \A n \in 1 .. Len(sources(i)) :
          Froms(d, origins, g, i)[sources(i)[n]] = Froms(d, origins, h, i)[sources(i)[n]]
    BY <1>a, <1>2, <1>4 DEF Froms
  <2>2. sources(i) \in Seq(Nat)
    BY <1>2
  <2> QED BY <2>1, <2>2, FirstLocal
<1> HIDE DEF value
<1>5. step \in [(1 .. N) \X [1 .. N -> Nat] -> Nat]
  BY <1>3
<1>6. \A i \in 1 .. N, f \in [1 .. N -> Nat] : step[<<i, f>>] = value(i, f)
  OBVIOUS
<1> HIDE DEF step
<1>7. LooksBack(N, Nat, step)
  <2> SUFFICES ASSUME NEW i \in 1 .. N, NEW g \in [1 .. N -> Nat], NEW h \in [1 .. N -> Nat],
                      \A j \in 1 .. N : j < i => g[j] = h[j]
               PROVE  step[<<i, g>>] = step[<<i, h>>]
    BY DEF LooksBack
  <2>1. value(i, g) = value(i, h)
    BY <1>4
  <2> QED BY <1>6, <2>1
<1>8. PICK f \in [1 .. N -> Nat] : GrowsBack(N, step, f)
  <2>1. N \in Nat /\ 0 \in Nat
    BY <1>1
  <2> QED BY <2>1, <1>5, <1>7, Grown
<1>9. OriginAs(d, origins, f)
  <2>1. \A i \in 1 .. N : f[i] = value(i, f)
    BY <1>6, <1>8 DEF GrowsBack
  <2>2. f = [i \in 1 .. N |-> value(i, f)]
    BY <2>1
  <2> QED BY <1>1, <2>2 DEF OriginAs, value, sources
<1> DEFINE r == InheritedOrigin(d, origins)
<1>10. r = CHOOSE g : OriginAs(d, origins, g)
  BY DEF InheritedOrigin, OriginAs, Froms
<1>11. OriginAs(d, origins, r)
  BY <1>9, <1>10
<1> HIDE DEF r
<1>12. DOMAIN r = 1 .. N /\ \A i \in 1 .. N : r[i] = value(i, r)
  BY <1>1, <1>11 DEF OriginAs, value, sources
<1>13. \A i \in 1 .. N : r[i] \in Nat
  <2> DEFINE P == {i \in 1 .. N : r[i] \in Nat}
  <2>1. ASSUME NEW i \in 1 .. N, \A j \in 1 .. N : j < i => j \in P
        PROVE  i \in P
    BY <1>3, <1>12, <2>1
  <2> HIDE DEF P
  <2>2. \A i \in 1 .. N : i \in P
    BY <1>1, <2>1, FromBelow
  <2> QED BY <2>2 DEF P
<1>14. r = [i \in 1 .. N |-> value(i, r)]
  BY <1>1, <1>11 DEF OriginAs, value, sources
<1>15. r \in [1 .. N -> Nat]
  BY <1>13, <1>14
<1> QED BY <1>1, <1>12, <1>15 DEF r, value, sources

FollowsAs(d, u, f) ==
  f = [k \in Items(d) |->
         \/ EditsSeen(d, u, k)
         \/ /\ d.items[k].kind = "map" /\ d.items[k].seen = NoSeen
            /\ \E n \in DOMAIN d.items[k].merge : f[d.items[k].merge[n]]]

\* Who follows is edited, or spells no `seen` and merges one that follows.
LEMMA FollowerFacts ==
  ASSUME NEW d, Shaped(d), NEW u, NEW i \in Items(d)
  PROVE  Follower(d, u, i) <=>
           \/ EditsSeen(d, u, i)
           \/ /\ d.items[i].kind = "map" /\ d.items[i].seen = NoSeen
              /\ \E n \in 1 .. Len(d.items[i].merge) : Follower(d, u, d.items[i].merge[n])
<1> DEFINE N == Len(d.items)
           sources(k) == d.items[k].merge
           plain(k) == d.items[k].kind = "map" /\ d.items[k].seen = NoSeen
           value(k, f) == EditsSeen(d, u, k) \/ (plain(k) /\ \E n \in DOMAIN sources(k) : f[sources(k)[n]])
           step == [x \in (1 .. N) \X [1 .. N -> BOOLEAN] |-> value(x[1], x[2])]
<1>1. N \in Nat /\ Items(d) = 1 .. N
  BY ShapeFacts
<1>2. \A k \in 1 .. N : \A n \in DOMAIN sources(k) : sources(k)[n] \in 1 .. N /\ sources(k)[n] < k
  <2> SUFFICES ASSUME NEW k \in 1 .. N
               PROVE  \A n \in DOMAIN sources(k) : sources(k)[n] \in 1 .. N /\ sources(k)[n] < k
    OBVIOUS
  <2>1. DOMAIN sources(k) = 1 .. Len(sources(k))
    <3>1. sources(k) \in Seq(Nat)
      BY <1>1, ShapeFacts
    <3> QED BY <3>1
  <2> QED BY <1>1, <2>1, ItemFacts
<1> HIDE DEF N, sources, plain
<1>3. ASSUME NEW k \in 1 .. N, NEW g, NEW h, \A j \in 1 .. N : j < k => g[j] = h[j]
      PROVE  value(k, g) = value(k, h)
  <2>1. \A n \in DOMAIN sources(k) : g[sources(k)[n]] = h[sources(k)[n]]
    BY <1>2, <1>3
  <2> QED BY <2>1
<1>4. \A k, f : value(k, f) \in BOOLEAN
  OBVIOUS
<1> HIDE DEF value
<1>5. step \in [(1 .. N) \X [1 .. N -> BOOLEAN] -> BOOLEAN]
  BY <1>4
<1>6. \A k \in 1 .. N, f \in [1 .. N -> BOOLEAN] : step[<<k, f>>] = value(k, f)
  OBVIOUS
<1> HIDE DEF step
<1>7. LooksBack(N, BOOLEAN, step)
  <2> SUFFICES ASSUME NEW k \in 1 .. N, NEW g \in [1 .. N -> BOOLEAN], NEW h \in [1 .. N -> BOOLEAN],
                      \A j \in 1 .. N : j < k => g[j] = h[j]
               PROVE  step[<<k, g>>] = step[<<k, h>>]
    BY DEF LooksBack
  <2>1. value(k, g) = value(k, h)
    BY <1>3
  <2> QED BY <1>6, <2>1
<1>8. PICK f \in [1 .. N -> BOOLEAN] : GrowsBack(N, step, f)
  <2>1. N \in Nat /\ TRUE \in BOOLEAN
    BY <1>1
  <2> QED BY <2>1, <1>5, <1>7, Grown
<1>9. FollowsAs(d, u, f)
  <2>1. \A k \in 1 .. N : f[k] = value(k, f)
    BY <1>6, <1>8 DEF GrowsBack
  <2>2. f = [k \in 1 .. N |-> value(k, f)]
    BY <2>1
  <2> QED BY <1>1, <2>2 DEF FollowsAs, value, sources, plain
<1> DEFINE r == CHOOSE g : FollowsAs(d, u, g)
<1>10. \A k : Follower(d, u, k) = r[k]
  BY DEF Follower, FollowsAs
<1>11. FollowsAs(d, u, r)
  BY <1>9
<1> HIDE DEF r
<1>12. \A k \in 1 .. N : r[k] = value(k, r)
  BY <1>1, <1>11 DEF FollowsAs, value, sources, plain
<1>13. Follower(d, u, i) = value(i, r)
  BY <1>1, <1>10, <1>12
<1>14. DOMAIN sources(i) = 1 .. Len(sources(i))
  <2>1. sources(i) \in Seq(Nat)
    BY <1>1, ShapeFacts DEF sources
  <2> QED BY <2>1
<1> QED BY <1>10, <1>13, <1>14 DEF value, sources, plain

-----------------------------------------------------------------------------
(* Names and what they stand for.                                            *)

\* The ways to spell `seen`.
LEMMA SeenFacts ==
  ASSUME NEW s \in Seens
  PROVE  /\ s.form \in {"none", "value", "alias", "list"}
         /\ s.form = "none" <=> s = NoSeen
         /\ s.form = "value" => s.v \in Hashes \cup {Null} /\ s.a \in Names \cup {NoName}
         /\ s.form = "alias" => s.a \in Names
         /\ s.form = "list" => s.v = Null
         /\ NoSeen.v = Absent
<1>1. CASE s = NoSeen
  BY <1>1 DEF NoSeen
<1>2. CASE s = Listed
  BY <1>2 DEF NoSeen, Listed
<1>3. ASSUME NEW a \in Names, s = AliasOf(a) PROVE s.form = "alias" /\ s.a \in Names /\ s # NoSeen
  BY <1>3 DEF AliasOf, NoSeen
<1>4. ASSUME NEW v \in Hashes \cup {Null}, NEW a \in Names \cup {NoName}, s = Value(v, a)
      PROVE  s.form = "value" /\ s.v \in Hashes \cup {Null} /\ s.a \in Names \cup {NoName} /\ s # NoSeen
  BY <1>4 DEF Value, NoSeen
<1>5. NoSeen.v = Absent /\ NoSeen.form = "none"
  BY DEF NoSeen
<1> QED BY <1>1, <1>2, <1>3, <1>4, <1>5 DEF Seens

\* An alias is bound to the last definition of its name before it.
LEMMA BindingFacts ==
  ASSUME NEW d, Shaped(d), NEW i \in Nat, NEW a
  PROVE  \/ /\ Binding(d, i, a) = 0
            /\ \A j \in Definitions(d, a) : ~(j < i)
         \/ /\ Binding(d, i, a) \in Definitions(d, a) /\ Binding(d, i, a) < i
            /\ \A j \in Definitions(d, a) : j < i => j <= Binding(d, i, a)
<1> DEFINE S == {j \in Definitions(d, a) : j < i}
           N == Len(d.items)
<1>1. N \in Nat /\ S \in SUBSET (1 .. N)
  BY ShapeFacts DEF Definitions
<1>2. Binding(d, i, a) = Latest(S)
  BY DEF Binding
<1>3. CASE S = {}
  BY <1>2, <1>3 DEF Latest
<1>4. CASE S # {}
  <2> HIDE DEF S, N
  <2>1. \E k \in S : \A j \in S : j <= k
    BY <1>1, <1>4, HasGreatest
  <2>2. Latest(S) \in S /\ \A j \in S : j <= Latest(S)
    BY <1>4, <2>1 DEF Latest
  <2> QED BY <1>2, <2>2 DEF S
<1> QED BY <1>3, <1>4

\* The last one is the binding.
LEMMA BindingIs ==
  ASSUME NEW d, Shaped(d), NEW i \in Nat, NEW a, NEW j \in Definitions(d, a), j < i,
         \A k \in Definitions(d, a) : k < i => k <= j
  PROVE  Binding(d, i, a) = j
<1>1. Definitions(d, a) \in SUBSET Nat
  BY ShapeFacts DEF Definitions
<1>2. Binding(d, i, a) \in Definitions(d, a) /\ Binding(d, i, a) < i /\ j <= Binding(d, i, a)
  BY BindingFacts
<1>3. Binding(d, i, a) <= j
  BY <1>2
<1> QED BY <1>1, <1>2, <1>3

\* What a mapping spells for itself.
LEMMA OwnFacts ==
  ASSUME NEW d, Shaped(d), Loads(d)
  PROVE  /\ [i \in Items(d) |-> OwnSeen(d, i)] \in [Items(d) -> Values]
         /\ [i \in Items(d) |-> d.items[i].ref] \in [Items(d) -> Values]
         /\ \A i \in Items(d) : OwnSeen(d, i) = Absent <=> d.items[i].seen = NoSeen
<1>1. ASSUME NEW i \in Items(d)
      PROVE  OwnSeen(d, i) \in Values /\ (OwnSeen(d, i) = Absent <=> d.items[i].seen = NoSeen)
  <2> DEFINE s == d.items[i].seen
             j == Binding(d, i, s.a)
  <2>1. s \in Seens /\ i \in Nat
    BY ShapeFacts
  <2>2. OwnSeen(d, i) = IF s.form = "alias" THEN d.items[j].seen.v ELSE s.v
    BY DEF OwnSeen
  <2>3. CASE s.form = "alias"
    <3>1. j # 0
      BY <2>3 DEF Loads
    <3>2. j \in Definitions(d, s.a)
      BY <2>1, <3>1, BindingFacts
    <3>3. d.items[j].seen \in Seens /\ d.items[j].seen.form = "value"
      BY <3>2, ShapeFacts DEF Definitions
    <3>4. d.items[j].seen.v \in Hashes \cup {Null}
      BY <3>3, SeenFacts
    <3>5. s # NoSeen
      BY <2>1, <2>3, SeenFacts
    <3> HIDE DEF s, j
    <3>6. OwnSeen(d, i) \in Hashes \cup {Null} /\ s # NoSeen
      BY <2>2, <2>3, <3>4, <3>5
    <3> QED BY <3>6, RewriteAssumption DEF Values, s
  <2>4. CASE s.form # "alias"
    <3>1. OwnSeen(d, i) = s.v
      BY <2>2, <2>4
    <3> HIDE DEF s
    <3>2. (s = NoSeen /\ s.v = Absent) \/ (s # NoSeen /\ s.v \in Hashes \cup {Null})
      BY <2>1, <2>4, SeenFacts
    <3>3. (s = NoSeen /\ OwnSeen(d, i) = Absent) \/ (s # NoSeen /\ OwnSeen(d, i) \in Hashes \cup {Null})
      BY <3>1, <3>2
    <3> QED BY <3>3, RewriteAssumption DEF Values, s
  <2> QED BY <2>3, <2>4
<1>2. \A i \in Items(d) : d.items[i].ref \in Values
  BY ShapeFacts DEF Values
<1> QED BY <1>1, <1>2

-----------------------------------------------------------------------------
(* The edited document.                                                      *)

LEMMA SelectedFacts ==
  ASSUME NEW d, Shaped(d), NEW u \in Updates, NEW k, Selected(d, u, k)
  PROVE  /\ k \in Items(d) /\ k >= d.first /\ LoadedRef(d)[k] \in DOMAIN u
         /\ LoadedRef(d)[k] \in Refs /\ u[LoadedRef(d)[k]] \in Hashes
         /\ LoadedSeen(d)[k] # u[LoadedRef(d)[k]]
<1>1. k \in Entries(d) /\ LoadedRef(d)[k] \in DOMAIN u /\ LoadedSeen(d)[k] # u[LoadedRef(d)[k]]
  BY DEF Selected
<1>2. k \in Items(d) /\ k >= d.first
  BY <1>1, ShapeFacts DEF Entries, Items
<1>3. DOMAIN u \subseteq Refs /\ \A r \in DOMAIN u : u[r] \in Hashes
  BY DEF Updates
<1> QED BY <1>1, <1>2, <1>3

\* Who reads a displaced value stands behind it and is bound to it.
LEMMA ReaderFacts ==
  ASSUME NEW d, Shaped(d), NEW i \in Items(d), NEW k \in Readers(d, i)
  PROVE  LET a == d.items[i].seen.a IN
         /\ k \in Nat /\ Binding(d, k, a) = i /\ i < k
         /\ \/ k \in Items(d) /\ d.items[k].seen.form = "alias" /\ d.items[k].seen.a = a
            \/ k = Len(d.items) + 1 /\ d.tail.form = "alias" /\ d.tail.a = a
<1> DEFINE a == d.items[i].seen.a
<1>1. /\ Binding(d, k, a) = i
      /\ \/ k \in Items(d) /\ d.items[k].seen.form = "alias" /\ d.items[k].seen.a = a
         \/ k = Len(d.items) + 1 /\ d.tail.form = "alias" /\ d.tail.a = a
  BY DEF Readers
<1>2. k \in Nat /\ i # 0
  BY <1>1, ShapeFacts
<1> HIDE DEF a
<1>3. i < k
  BY <1>1, <1>2, BindingFacts
<1> QED BY <1>1, <1>2, <1>3 DEF a

\* Nobody reads two displaced values.
LEMMA OneReading ==
  ASSUME NEW d, Shaped(d), NEW i \in Items(d), NEW j \in Items(d), NEW k \in Readers(d, i),
         k \in Readers(d, j)
  PROVE  i = j
<1>1. d.items[i].seen.a = d.items[j].seen.a
  <2>1. CASE k \in Items(d)
    <3>1. k # Len(d.items) + 1
      BY <2>1, ShapeFacts
    <3> QED BY <3>1, ReaderFacts
  <2>2. CASE k \notin Items(d)
    BY <2>2, ReaderFacts
  <2> QED BY <2>1, <2>2
<1> QED BY <1>1, ReaderFacts

\* An heir is the first reader that is not edited.
LEMMA HeirFacts ==
  ASSUME NEW d, Shaped(d), NEW u, NEW i \in Displaced(d, u)
  PROVE  /\ i \in Items(d) /\ EditsSeen(d, u, i) /\ d.items[i].seen.form = "value"
         /\ d.items[i].seen.a # NoName
         /\ Heir(d, u, i) # 0 => Heir(d, u, i) \in Readers(d, i) /\ ~EditsSeen(d, u, Heir(d, u, i))
         /\ \A k \in Readers(d, i) : ~EditsSeen(d, u, k) => Heir(d, u, i) # 0 /\ Heir(d, u, i) <= k
<1>1. /\ i \in Items(d) /\ EditsSeen(d, u, i) /\ d.items[i].seen.form = "value"
      /\ d.items[i].seen.a # NoName
  BY ShapeFacts DEF Displaced, Entries, Items
<1> DEFINE S == {k \in Readers(d, i) : ~EditsSeen(d, u, k)}
<1>2. S \in SUBSET Nat /\ 0 \notin S
  <2>1. \A k \in Readers(d, i) : k \in Nat /\ i < k
    BY <1>1, ReaderFacts
  <2>2. i \in Nat
    BY <1>1, ShapeFacts
  <2> QED BY <2>1, <2>2
<1>3. Heir(d, u, i) = IF S = {} THEN 0 ELSE CHOOSE k \in S : \A o \in S : k <= o
  BY DEF Heir
<1>4. CASE S = {}
  BY <1>1, <1>3, <1>4
<1>5. CASE S # {}
  <2> HIDE DEF S
  <2>1. \E k \in S : \A o \in S : k <= o
    BY <1>2, <1>5, HasLeast
  <2>2. Heir(d, u, i) \in S /\ \A o \in S : Heir(d, u, i) <= o
    BY <1>3, <1>5, <2>1
  <2> QED BY <1>1, <1>2, <2>2 DEF S
<1> QED BY <1>4, <1>5

\* One value is left to an heir.
LEMMA OneLegacy ==
  ASSUME NEW d, Shaped(d), NEW u, NEW i \in Displaced(d, u), NEW k, k # 0, Heir(d, u, i) = k
  PROVE  /\ {j \in Displaced(d, u) : Heir(d, u, j) = k} # {}
         /\ (CHOOSE j \in {j \in Displaced(d, u) : Heir(d, u, j) = k} : TRUE) = i
<1>1. ASSUME NEW j \in Displaced(d, u), Heir(d, u, j) = k PROVE j = i
  <2>1. k \in Readers(d, i) /\ k \in Readers(d, j) /\ i \in Items(d) /\ j \in Items(d)
    BY <1>1, HeirFacts
  <2> QED BY <2>1, OneReading
<1> QED BY <1>1

Respelt(item, s) == [item EXCEPT !.seen = s]

Inherits(d, u, i, k) == i \in Displaced(d, u) /\ Heir(d, u, i) = k

LEMMA OneHeir ==
  ASSUME NEW d, Shaped(d), NEW u, NEW k, k # 0, NEW i, NEW j, Inherits(d, u, i, k), Inherits(d, u, j, k)
  PROVE  i = j
<1>1. k \in Readers(d, i) /\ k \in Readers(d, j) /\ i \in Items(d) /\ j \in Items(d)
  BY HeirFacts DEF Inherits
<1> QED BY <1>1, OneReading

\* What becomes of an item.
LEMMA EditedAs ==
  ASSUME NEW d, Shaped(d), NEW u, NEW k \in Items(d)
  PROVE  LET left == {i \in Displaced(d, u) : Heir(d, u, i) = k} IN
         Edited(d, u).items[k] =
           IF EditsAlias(d, u, k) THEN Overridden(d.items[k], u[LoadedRef(d)[k]])
           ELSE IF EditsSeen(d, u, k) THEN Respelt(d.items[k], Written(u[LoadedRef(d)[k]]))
           ELSE IF left # {} THEN Respelt(d.items[k], Moved(d, CHOOSE i \in left : TRUE))
           ELSE d.items[k]
<1>1. Edited(d, u).items[k] = EditedItem(d, u, k)
  BY DEF Edited
<1> QED BY <1>1 DEF EditedItem, Appended, Replaced, Respelt

\* An heir takes over the value and its name.
LEMMA EditedHeir ==
  ASSUME NEW d, Shaped(d), NEW u, NEW k \in Items(d), NEW i, Inherits(d, u, i, k)
  PROVE  /\ d.items[k].seen.form = "alias" /\ d.items[k].kind = "map"
         /\ ~EditsAlias(d, u, k) /\ ~EditsSeen(d, u, k)
         /\ Edited(d, u).items[k] = Respelt(d.items[k], Moved(d, i))
<1> DEFINE left == {j \in Displaced(d, u) : Heir(d, u, j) = k}
<1>1. i \in Displaced(d, u) /\ Heir(d, u, i) = k /\ k # 0
  BY ShapeFacts DEF Inherits
<1>2. left # {} /\ (CHOOSE j \in left : TRUE) = i
  BY <1>1, OneLegacy
<1>3. k \in Readers(d, i) /\ ~EditsSeen(d, u, k) /\ i \in Items(d)
  BY <1>1, HeirFacts
<1>4. d.items[k].seen.form = "alias"
  <2>1. k # Len(d.items) + 1
    BY ShapeFacts
  <2> QED BY <1>3, <2>1, ReaderFacts
<1>5. d.items[k].seen # NoSeen
  BY <1>4 DEF NoSeen
<1>6. d.items[k].kind = "map"
  BY <1>5, ItemFacts, ShapeFacts
<1>7. ~EditsAlias(d, u, k)
  BY <1>6 DEF EditsAlias
<1>8. Edited(d, u).items[k] =
        IF EditsAlias(d, u, k) THEN Overridden(d.items[k], u[LoadedRef(d)[k]])
        ELSE IF EditsSeen(d, u, k) THEN Respelt(d.items[k], Written(u[LoadedRef(d)[k]]))
        ELSE IF left # {} THEN Respelt(d.items[k], Moved(d, CHOOSE j \in left : TRUE))
        ELSE d.items[k]
  BY EditedAs
<1> HIDE DEF left
<1> QED BY <1>2, <1>3, <1>4, <1>6, <1>7, <1>8

\* The other ways to edit, and no edit.
LEMMA EditedItems ==
  ASSUME NEW d, Shaped(d), NEW u, NEW k \in Items(d)
  PROVE  /\ EditsAlias(d, u, k) =>
              Edited(d, u).items[k] = Overridden(d.items[k], u[LoadedRef(d)[k]])
         /\ EditsSeen(d, u, k) =>
              Edited(d, u).items[k] = Respelt(d.items[k], Written(u[LoadedRef(d)[k]]))
         /\ (/\ ~EditsAlias(d, u, k) /\ ~EditsSeen(d, u, k) /\ ~\E i : Inherits(d, u, i, k))
            => Edited(d, u).items[k] = d.items[k]
<1> DEFINE left == {i \in Displaced(d, u) : Heir(d, u, i) = k}
<1>1. Edited(d, u).items[k] =
        IF EditsAlias(d, u, k) THEN Overridden(d.items[k], u[LoadedRef(d)[k]])
        ELSE IF EditsSeen(d, u, k) THEN Respelt(d.items[k], Written(u[LoadedRef(d)[k]]))
        ELSE IF left # {} THEN Respelt(d.items[k], Moved(d, CHOOSE i \in left : TRUE))
        ELSE d.items[k]
  BY EditedAs
<1>2. EditsAlias(d, u, k) => ~EditsSeen(d, u, k)
  BY DEF EditsAlias, EditsSeen
<1>3. left # {} => \E i : Inherits(d, u, i, k)
  BY DEF Inherits
<1> HIDE DEF left
<1> QED BY <1>1, <1>2, <1>3

\* What becomes of the member after the list.
LEMMA EditedMember ==
  ASSUME NEW d, Shaped(d), NEW u
  PROVE  LET end == Len(d.items) + 1 IN
         /\ \A i : Inherits(d, u, i, end) =>
              /\ d.tail.form = "alias"
              /\ Edited(d, u).tail = [d.tail EXCEPT !.form = "none", !.v = d.items[i].seen.v]
         /\ (~\E i : Inherits(d, u, i, end)) => Edited(d, u).tail = d.tail
<1> DEFINE end == Len(d.items) + 1
           left == {i \in Displaced(d, u) : Heir(d, u, i) = end}
<1>1. Edited(d, u).tail =
        IF left = {} THEN d.tail
        ELSE [d.tail EXCEPT !.form = "none", !.v = d.items[CHOOSE i \in left : TRUE].seen.v]
  BY DEF Edited, EditedTail
<1>2. ASSUME NEW i, Inherits(d, u, i, end)
      PROVE  d.tail.form = "alias" /\ left # {} /\ (CHOOSE j \in left : TRUE) = i
  <2>1. i \in Displaced(d, u) /\ Heir(d, u, i) = end
    BY <1>2 DEF Inherits
  <2>a. end \in Nat /\ end # 0 /\ end \notin Items(d)
    BY ShapeFacts
  <2> HIDE DEF end
  <2>2. left # {} /\ (CHOOSE j \in left : TRUE) = i
    BY <2>1, <2>a, OneLegacy
  <2>3. end \in Readers(d, i) /\ i \in Items(d)
    BY <2>1, <2>a, HeirFacts
  <2>4. d.tail.form = "alias"
    BY <2>3, <2>a, ReaderFacts
  <2> QED BY <2>2, <2>4
<1>3. left # {} => \E i : Inherits(d, u, i, end)
  BY DEF Inherits
<1> HIDE DEF left
<1> QED BY <1>1, <1>2, <1>3

\* The edited document is one as well: an alias that is overridden becomes a mapping,
\* and what is merged stays one.
LEMMA EditedShape ==
  ASSUME NEW d, Shaped(d), NEW u \in Updates
  PROVE  /\ Shaped(Edited(d, u))
         /\ Items(Edited(d, u)) = Items(d) /\ Entries(Edited(d, u)) = Entries(d)
         /\ Len(Edited(d, u).items) = Len(d.items) /\ Edited(d, u).first = d.first
<1> DEFINE new == Edited(d, u)
           N == Len(d.items)
           Item == [kind : {"map", "alias"}, ref : Refs \cup {Absent}, seen : Seens,
                    merge : Seq(Nat), of : Nat]
           Member == [form : {"none", "alias", "merge"}, v : Hashes \cup {Null, Absent},
                    a : Names \cup {NoName}, of : Nat]
<1>1. /\ d \in [kind : {"fence", "comment"}, first : Nat, items : Seq(Item), tail : Member]
      /\ d.first > 0
      /\ d.tail.form = "alias" => d.tail.a \in Names
      /\ d.tail.form = "merge" => d.tail.of \in Items(d)
  BY DEF Shaped
<1>2. /\ d.kind \in {"fence", "comment"} /\ d.first \in Nat /\ d.items \in Seq(Item)
      /\ d.tail \in Member
  <2> HIDE DEF Item, Member
  <2> QED BY <1>1
<1>3. N \in Nat /\ Items(d) = 1 .. N /\ DOMAIN d.items = 1 .. N
  BY <1>2, ShapeFacts
<1>4. new = [kind |-> d.kind, first |-> d.first, items |-> [k \in 1 .. N |-> EditedItem(d, u, k)],
             tail |-> EditedTail(d, u)]
  BY <1>3 DEF Edited
<1>5. ASSUME NEW k \in 1 .. N
      PROVE  /\ new.items[k] \in Item
             /\ new.items[k].kind = "alias" => new.items[k] = d.items[k]
             /\ d.items[k].kind = "map" => new.items[k].kind = "map"
             /\ \/ new.items[k].merge = d.items[k].merge
                \/ /\ d.items[k].kind = "alias" /\ new.items[k].merge = <<d.items[k].of>>
  <2> DEFINE item == d.items[k]
             v == u[LoadedRef(d)[k]]
             x == new.items[k]
  <2>1. item \in Item /\ k \in Items(d)
    <3> HIDE DEF Item
    <3> QED BY <1>2, <1>3
  <2>k. k \in Items(d)
    BY <2>1
  <2>2. Selected(d, u, k) => v \in Hashes
    BY SelectedFacts
  <2>3. EditsAlias(d, u, k) => Selected(d, u, k) /\ item.kind = "alias"
    BY DEF EditsAlias
  <2>4. EditsSeen(d, u, k) => Selected(d, u, k) /\ item.kind = "map"
    BY DEF EditsSeen
  <2>a. /\ EditsAlias(d, u, k) => x = Overridden(item, v)
        /\ EditsSeen(d, u, k) => x = Respelt(item, Written(v))
        /\ \A i : Inherits(d, u, i, k) => item.kind = "map" /\ x = Respelt(item, Moved(d, i))
        /\ (/\ ~EditsAlias(d, u, k) /\ ~EditsSeen(d, u, k) /\ ~\E i : Inherits(d, u, i, k))
           => x = item
    <3>1. EditsAlias(d, u, k) => x = Overridden(item, v)
      BY <2>1, EditedItems
    <3>2. EditsSeen(d, u, k) => x = Respelt(item, Written(v))
      BY <2>1, EditedItems
    <3>3. ASSUME NEW i, Inherits(d, u, i, k)
          PROVE  item.kind = "map" /\ x = Respelt(item, Moved(d, i))
      BY <2>k, <3>3, EditedHeir
    <3>4. (/\ ~EditsAlias(d, u, k) /\ ~EditsSeen(d, u, k) /\ ~\E i : Inherits(d, u, i, k))
          => x = item
      BY <2>1, EditedItems
    <3> QED BY <3>1, <3>2, <3>3, <3>4
  <2>b. \A w \in Hashes : Written(w) \in Seens
    BY DEF Written, Seens
  <2> HIDE DEF item, v, x
  <2>5. CASE EditsAlias(d, u, k)
    <3>1. x = Mapping(Absent, Written(v), <<item.of>>) /\ Written(v) \in Seens /\ item.of \in Nat
      BY <2>1, <2>2, <2>3, <2>5, <2>a, <2>b DEF Overridden
    <3>2. x \in Item /\ x.kind = "map" /\ x.merge = <<item.of>>
      BY <3>1 DEF Mapping
    <3> QED BY <2>3, <2>5, <3>2 DEF x, item
  <2>6. CASE EditsSeen(d, u, k)
    <3>1. x = Respelt(item, Written(v)) /\ Written(v) \in Seens
      BY <2>2, <2>4, <2>6, <2>a, <2>b
    <3>2. x \in Item /\ x.kind = item.kind /\ x.merge = item.merge
      BY <2>1, <3>1 DEF Respelt
    <3> QED BY <2>4, <2>6, <3>2 DEF x, item
  <2>7. ASSUME NEW i, Inherits(d, u, i, k)
        PROVE  x \in Item /\ x.kind = "map" /\ x.merge = item.merge
    <3>1. x = Respelt(item, Moved(d, i)) /\ item.kind = "map"
      BY <2>7, <2>a
    <3>2. i \in Items(d) /\ d.items[i].seen.form = "value" /\ d.items[i].seen \in Seens
      BY <2>7, HeirFacts, ShapeFacts DEF Inherits
    <3>3. d.items[i].seen.v \in Hashes \cup {Null} /\ d.items[i].seen.a \in Names \cup {NoName}
      BY <3>2, SeenFacts
    <3>4. Moved(d, i) \in Seens
      BY <3>3 DEF Moved, Seens
    <3> QED BY <2>1, <3>1, <3>4 DEF Respelt
  <2>8. CASE \E i : Inherits(d, u, i, k)
    BY <2>7, <2>8 DEF x, item
  <2>9. CASE ~EditsAlias(d, u, k) /\ ~EditsSeen(d, u, k) /\ ~\E i : Inherits(d, u, i, k)
    BY <2>1, <2>9, <2>a DEF x, item
  <2> QED BY <2>5, <2>6, <2>8, <2>9
<1>6. DOMAIN new.items = 1 .. N /\ new.items \in Seq(Item) /\ Len(new.items) = N /\ Items(new) = Items(d)
  <2>1. new.items = [k \in 1 .. N |-> EditedItem(d, u, k)]
    BY <1>4
  <2> HIDE DEF new, Item, N
  <2>2. \A k \in 1 .. N : EditedItem(d, u, k) \in Item
    BY <1>5, <2>1
  <2>3. new.items \in Seq(Item) /\ Len(new.items) = N /\ DOMAIN new.items = 1 .. N
    BY <1>3, <2>1, <2>2
  <2> QED BY <1>3, <2>3 DEF Items
<1>7. /\ new.tail \in Member
      /\ new.tail.form = "alias" => new.tail.a \in Names
      /\ new.tail.form = "merge" => new.tail.of \in Items(d)
  <2>1. CASE \E i : Inherits(d, u, i, N + 1)
    <3>1. PICK i : Inherits(d, u, i, N + 1)
      BY <2>1
    <3>2. new.tail = [d.tail EXCEPT !.form = "none", !.v = d.items[i].seen.v]
      BY <3>1, EditedMember
    <3>3. i \in Items(d) /\ d.items[i].seen.form = "value" /\ d.items[i].seen \in Seens
      BY <3>1, HeirFacts, ShapeFacts DEF Inherits
    <3>4. d.items[i].seen.v \in Hashes \cup {Null, Absent}
      BY <3>3, SeenFacts
    <3> HIDE DEF new
    <3> QED BY <1>2, <3>2, <3>4
  <2>2. CASE ~\E i : Inherits(d, u, i, N + 1)
    <3>1. new.tail = d.tail
      BY <2>2, EditedMember
    <3> QED BY <1>1, <1>2, <3>1
  <2> QED BY <2>1, <2>2
<1>8. ASSUME NEW k \in Items(d)
      PROVE  /\ Mappings(d, k) \subseteq Mappings(new, k)
             /\ new.items[k].kind = "alias" => /\ new.items[k] = ItemAlias(new.items[k].of)
                                               /\ new.items[k].of \in Mappings(new, k)
             /\ \A n \in DOMAIN new.items[k].merge : new.items[k].merge[n] \in Mappings(new, k)
  <2>1. Mappings(d, k) \subseteq Mappings(new, k)
    BY <1>3, <1>5, <1>6 DEF Mappings
  <2>2. /\ d.items[k].kind = "alias" => d.items[k] = ItemAlias(d.items[k].of) /\ d.items[k].of \in Mappings(d, k)
        /\ \A n \in DOMAIN d.items[k].merge : d.items[k].merge[n] \in Mappings(d, k)
    BY DEF Shaped
  <2>3. /\ new.items[k].kind = "alias" => new.items[k] = d.items[k]
        /\ \/ new.items[k].merge = d.items[k].merge
           \/ /\ d.items[k].kind = "alias" /\ new.items[k].merge = <<d.items[k].of>>
    BY <1>3, <1>5
  <2> HIDE DEF new
  <2>4. new.items[k].kind = "alias" => /\ new.items[k] = ItemAlias(new.items[k].of)
                                       /\ new.items[k].of \in Mappings(new, k)
    BY <2>1, <2>2, <2>3
  <2>5. \A n \in DOMAIN new.items[k].merge : new.items[k].merge[n] \in Mappings(new, k)
    BY <2>1, <2>2, <2>3
  <2> QED BY <2>1, <2>4, <2>5
<1>9. /\ new \in [kind : {"fence", "comment"}, first : Nat, items : Seq(Item), tail : Member]
      /\ new.first = d.first
  <2>1. /\ new = [kind |-> d.kind, first |-> d.first, items |-> new.items, tail |-> new.tail]
        /\ new.first = d.first
    BY <1>4
  <2> HIDE DEF new, Item, Member
  <2> QED BY <1>2, <1>6, <1>7, <2>1
<1>10. Shaped(new)
  <2> HIDE DEF new
  <2> QED BY <1>1, <1>6, <1>7, <1>8, <1>9 DEF Shaped
<1>11. Entries(new) = Entries(d)
  BY <1>3, <1>6, <1>9 DEF Entries
<1> QED BY <1>6, <1>9, <1>10, <1>11

\* A name is defined where it was, but for the values that are edited, and by the heirs
\* of those.
LEMMA NewDefinitions ==
  ASSUME NEW d, Shaped(d), NEW u \in Updates, NEW a \in Names, NEW j \in Items(d)
  PROVE  j \in Definitions(Edited(d, u), a) <=>
           \/ j \in Definitions(d, a) /\ ~EditsSeen(d, u, j)
           \/ \E i : Inherits(d, u, i, j) /\ d.items[i].seen.a = a
<1> DEFINE new == Edited(d, u)
<1>1. /\ j \in Definitions(new, a) <=> new.items[j].seen.form = "value" /\ new.items[j].seen.a = a
      /\ j \in Definitions(d, a) <=> d.items[j].seen.form = "value" /\ d.items[j].seen.a = a
  BY EditedShape DEF Definitions
<1>2. a # NoName
  BY RewriteAssumption
<1>3. ASSUME NEW v PROVE Written(v).a = NoName /\ Written(v).form = "value"
  BY DEF Written, Value
<1> HIDE DEF new
<1>4. CASE EditsAlias(d, u, j)
  <2>1. new.items[j] = Overridden(d.items[j], u[LoadedRef(d)[j]])
    BY <1>4, EditedItems DEF new
  <2>2. new.items[j].seen.a = NoName
    BY <1>3, <2>1 DEF Overridden, Mapping
  <2>3. d.items[j].seen.form = "none"
    BY <1>4, ItemFacts DEF EditsAlias, NoSeen
  <2>4. ~\E i : Inherits(d, u, i, j)
    BY <1>4, EditedHeir
  <2> QED BY <1>1, <1>2, <2>2, <2>3, <2>4 DEF new
<1>5. CASE EditsSeen(d, u, j)
  <2>1. new.items[j] = Respelt(d.items[j], Written(u[LoadedRef(d)[j]]))
    BY <1>5, EditedItems DEF new
  <2>2. new.items[j].seen = Written(u[LoadedRef(d)[j]])
    <3>1. d.items[j].seen \in Seens /\ "seen" \in DOMAIN d.items[j]
      BY ShapeFacts, ItemRecord
    <3> QED BY <2>1, <3>1 DEF Respelt
  <2>3. ~\E i : Inherits(d, u, i, j)
    BY <1>5, EditedHeir
  <2> QED BY <1>1, <1>2, <1>3, <1>5, <2>2, <2>3 DEF new
<1>6. ASSUME NEW i, Inherits(d, u, i, j)
      PROVE  j \in Definitions(new, a) <=> d.items[i].seen.a = a
  <2>1. new.items[j] = Respelt(d.items[j], Moved(d, i))
    BY <1>6, EditedHeir DEF new
  <2>2. new.items[j].seen = Moved(d, i)
    BY <2>1, ItemRecord DEF Respelt
  <2>3. Moved(d, i).form = "value" /\ Moved(d, i).a = d.items[i].seen.a
    BY DEF Moved, Value
  <2> QED BY <1>1, <2>2, <2>3
<1>7. CASE \E i : Inherits(d, u, i, j)
  <2>1. PICK i : Inherits(d, u, i, j)
    BY <1>7
  <2>2. d.items[j].seen.form = "alias"
    BY <2>1, EditedHeir
  <2>3. j \notin Definitions(d, a)
    BY <1>1, <2>2
  <2>4. ASSUME NEW k, Inherits(d, u, k, j) PROVE k = i
    <3>1. j # 0
      BY ShapeFacts
    <3> QED BY <2>1, <2>4, <3>1, OneHeir
  <2> QED BY <1>6, <2>1, <2>3, <2>4 DEF new
<1>8. CASE ~EditsAlias(d, u, j) /\ ~EditsSeen(d, u, j) /\ ~\E i : Inherits(d, u, i, j)
  <2>1. new.items[j] = d.items[j]
    BY <1>8, EditedItems DEF new
  <2> QED BY <1>1, <1>8, <2>1 DEF new
<1> QED BY <1>4, <1>5, <1>7, <1>8 DEF new

\* An alias that is neither edited nor an heir still reads what it read: where it was,
\* or with the heir, which stands before it.
LEMMA NewBinding ==
  ASSUME NEW d, Shaped(d), NEW u \in Updates, NEW k \in Nat, NEW b \in Items(d),
         k \in Readers(d, b), d.items[b].seen.a \in Names, ~EditsSeen(d, u, k),
         ~\E i : Inherits(d, u, i, k)
  PROVE  LET a == d.items[b].seen.a
             new == Edited(d, u)
         IN  /\ Binding(new, k, a) # 0
             /\ new.items[Binding(new, k, a)].seen.v = d.items[b].seen.v
<1> DEFINE a == d.items[b].seen.a
           new == Edited(d, u)
<1>1. Binding(d, k, a) = b /\ b < k /\ b \in Nat
  BY ReaderFacts, ShapeFacts
<1>2. b \in Definitions(d, a) /\ \A j \in Definitions(d, a) : j < k => j <= b
  <2>1. b # 0
    BY ShapeFacts
  <2> HIDE DEF a
  <2> QED BY <1>1, <2>1, BindingFacts
<1>3. Definitions(d, a) \in SUBSET Items(d) /\ Items(d) \in SUBSET Nat
  BY ShapeFacts DEF Definitions
<1>4. Shaped(new) /\ Definitions(new, a) \in SUBSET Items(d)
  BY EditedShape DEF Definitions
<1>5. d.items[b].seen.form = "value"
  BY <1>2 DEF Definitions
<1>6. a \in Names /\ a # NoName
  BY RewriteAssumption
\* Who is left the name behind b and before k was left b's value.
<1>7. ASSUME NEW j \in Items(d), NEW i, Inherits(d, u, i, j), d.items[i].seen.a = a, b < j, j < k
      PROVE  i = b
  <2>1. j # 0 /\ j \in Nat
    BY <1>3, <1>7, <1>1
  <2>2. j \in Readers(d, i) /\ i \in Items(d)
    BY <1>7, <2>1, HeirFacts DEF Inherits
  <2>3. Binding(d, j, a) = i
    <3>1. Binding(d, j, d.items[i].seen.a) = i
      BY <2>2, ReaderFacts
    <3> QED BY <1>7, <3>1
  <2>4. \A o \in Definitions(d, a) : o < j => o <= b
    BY <1>1, <1>2, <1>3, <1>7, <2>1
  <2> HIDE DEF a
  <2>5. Binding(d, j, a) = b
    BY <1>2, <1>7, <2>1, <2>4, BindingIs
  <2> QED BY <2>3, <2>5
<1> HIDE DEF a
<1>8. CASE ~EditsSeen(d, u, b)
  <2>1. b \in Definitions(new, a)
    BY <1>2, <1>6, <1>8, NewDefinitions DEF new
  <2>2. ASSUME NEW j \in Definitions(new, a), j < k PROVE j <= b
    <3>1. j \in Items(d) /\ j \in Nat
      BY <1>3, <1>4, <2>2
    <3>2. CASE j \in Definitions(d, a)
      BY <1>2, <2>2, <3>2
    <3>3. ASSUME NEW i, Inherits(d, u, i, j), d.items[i].seen.a = a PROVE j <= b
      <4>1. SUFFICES ASSUME b < j PROVE FALSE
        BY <1>1, <3>1
      <4>2. i = b
        BY <1>7, <2>2, <3>1, <3>3, <4>1
      <4> QED BY <1>8, <3>3, <4>2, HeirFacts DEF Inherits
    <3> QED BY <1>6, <3>1, <3>2, <3>3, NewDefinitions DEF new
  <2> HIDE DEF new
  <2>3. Binding(new, k, a) = b
    BY <1>1, <1>4, <2>1, <2>2, BindingIs
  <2>4. new.items[b] = d.items[b]
    <3>1. ~\E i : Inherits(d, u, i, b)
      BY <1>5, EditedHeir
    <3>2. ~EditsAlias(d, u, b)
      <4>1. d.items[b].seen # NoSeen
        BY <1>5 DEF NoSeen
      <4> QED BY <4>1, ItemFacts DEF EditsAlias
    <3> QED BY <1>8, <3>1, <3>2, EditedItems DEF new
  <2>5. b # 0
    BY <1>1, ShapeFacts
  <2> QED BY <2>3, <2>4, <2>5 DEF new, a
<1>9. CASE EditsSeen(d, u, b)
  <2> DEFINE h == Heir(d, u, b)
  <2>1. b \in Displaced(d, u)
    <3>1. b \in Entries(d)
      BY <1>9 DEF EditsSeen, Selected
    <3> QED BY <1>5, <1>6, <1>9, <3>1 DEF Displaced, a
  <2>2. h # 0 /\ h <= k /\ h \in Readers(d, b) /\ ~EditsSeen(d, u, h)
    BY <2>1, HeirFacts
  <2>3. h # k
    BY <2>1 DEF Inherits
  <2>4. h \in Nat /\ b < h
    BY <2>2, ReaderFacts
  <2>5. h < k /\ Inherits(d, u, b, h)
    BY <2>1, <2>2, <2>3, <2>4 DEF Inherits
  <2> HIDE DEF h
  <2>6. h \in Items(d)
    <3>1. k <= Len(d.items) + 1
      BY ReaderFacts, ShapeFacts
    <3> QED BY <1>1, <2>4, <2>5, <3>1, ShapeFacts
  <2>7. h \in Definitions(new, a)
    BY <1>6, <2>5, <2>6, NewDefinitions DEF new, a
  <2>8. ASSUME NEW j \in Definitions(new, a), j < k PROVE j <= h
    <3>1. j \in Items(d) /\ j \in Nat
      BY <1>3, <1>4, <2>8
    <3>2. CASE j \in Definitions(d, a)
      BY <1>1, <1>2, <2>4, <2>8, <3>1, <3>2
    <3>3. ASSUME NEW i, Inherits(d, u, i, j), d.items[i].seen.a = a PROVE j <= h
      <4>1. SUFFICES ASSUME h < j PROVE FALSE
        BY <2>4, <3>1
      <4>2. b < j
        BY <1>1, <2>4, <3>1, <4>1
      <4>3. i = b
        BY <1>7, <2>8, <3>1, <3>3, <4>2
      <4>4. h = j
        BY <2>5, <3>3, <4>3 DEF Inherits
      <4> QED BY <2>4, <4>1, <4>4
    <3> QED BY <1>6, <3>1, <3>2, <3>3, NewDefinitions DEF new
  <2>9. new.items[h].seen.v = d.items[b].seen.v
    <3>1. new.items[h] = Respelt(d.items[h], Moved(d, b))
      BY <2>5, <2>6, EditedHeir DEF new
    <3> HIDE DEF new
    <3>2. new.items[h].seen = Moved(d, b)
      BY <2>6, <3>1, ItemRecord DEF Respelt
    <3> QED BY <3>2 DEF Moved, Value
  <2> HIDE DEF new
  <2>10. Binding(new, k, a) = h
    BY <1>4, <2>5, <2>7, <2>8, BindingIs
  <2> QED BY <2>2, <2>9, <2>10 DEF new, a
<1> QED BY <1>8, <1>9

\* All but an overridden alias keeps what it is, and its `seen` too if it is neither
\* edited nor an heir.
LEMMA SameButSeen ==
  ASSUME NEW d, Shaped(d), NEW u, NEW k \in Items(d), ~EditsAlias(d, u, k)
  PROVE  LET new == Edited(d, u).items[k] IN
         /\ new.kind = d.items[k].kind /\ new.ref = d.items[k].ref
         /\ new.merge = d.items[k].merge /\ new.of = d.items[k].of
<1> DEFINE item == d.items[k]
           new == Edited(d, u).items[k]
<1>1. new = item \/ \E s : new = Respelt(item, s)
  <2> HIDE DEF item, new
  <2>1. ASSUME NEW i, Inherits(d, u, i, k) PROVE new = Respelt(item, Moved(d, i))
    BY <2>1, EditedHeir DEF item, new
  <2>2. EditsSeen(d, u, k) => new = Respelt(item, Written(u[LoadedRef(d)[k]]))
    BY EditedItems DEF item, new
  <2>3. ~EditsSeen(d, u, k) /\ (~\E i : Inherits(d, u, i, k)) => new = item
    BY EditedItems DEF item, new
  <2> QED BY <2>1, <2>2, <2>3
<1>2. DOMAIN item = {"kind", "ref", "seen", "merge", "of"}
  BY ItemRecord
<1> HIDE DEF new, item
<1>3. ASSUME NEW s, new = Respelt(item, s)
      PROVE  /\ new.kind = item.kind /\ new.ref = item.ref
             /\ new.merge = item.merge /\ new.of = item.of
  BY <1>2, <1>3 DEF Respelt
<1> QED BY <1>1, <1>3 DEF new, item

\* What an edited document spells: the new values where there was an edit, and what it
\* spelled everywhere else, the member after the list included.
LEMMA NewOwn ==
  ASSUME NEW d, Shaped(d), Loads(d), NEW u \in Updates
  PROVE  /\ Loads(Edited(d, u))
         /\ \A k \in Items(d) :
              OwnSeen(Edited(d, u), k) =
                IF EditsAlias(d, u, k) \/ EditsSeen(d, u, k) THEN u[LoadedRef(d)[k]]
                ELSE OwnSeen(d, k)
         /\ d.tail.form # "merge" => LoadedTail(Edited(d, u)) = LoadedTail(d)
<1> DEFINE new == Edited(d, u)
           end == Len(d.items) + 1
<1>1. /\ Shaped(new) /\ Items(new) = Items(d) /\ Len(new.items) = Len(d.items)
      /\ Items(d) \in SUBSET Nat /\ end \in Nat /\ end \notin Items(d)
  BY EditedShape, ShapeFacts
<1>2. ASSUME NEW k \in Nat, NEW a, a \in Names, Binding(d, k, a) # 0,
             \/ k \in Items(d) /\ d.items[k].seen.form = "alias" /\ d.items[k].seen.a = a
             \/ k = end /\ d.tail.form = "alias" /\ d.tail.a = a
      PROVE  LET b == Binding(d, k, a) IN
             b \in Items(d) /\ k \in Readers(d, b) /\ d.items[b].seen.a = a
  <2> DEFINE b == Binding(d, k, a)
  <2>1. b \in Definitions(d, a)
    BY <1>2, BindingFacts
  <2>2. b \in Items(d) /\ d.items[b].seen.a = a
    BY <2>1 DEF Definitions
  <2>3. Binding(d, k, d.items[b].seen.a) = b
    BY <2>2
  <2> HIDE DEF b
  <2>4. k \in Readers(d, b)
    BY <1>2, <2>2, <2>3 DEF Readers
  <2> QED BY <2>2, <2>4 DEF b
<1>3. ASSUME NEW k \in Nat, NEW a, a \in Names, Binding(d, k, a) # 0,
             \/ k \in Items(d) /\ d.items[k].seen.form = "alias" /\ d.items[k].seen.a = a
             \/ k = end /\ d.tail.form = "alias" /\ d.tail.a = a,
             ~EditsSeen(d, u, k), ~\E i : Inherits(d, u, i, k)
      PROVE  /\ Binding(new, k, a) # 0
             /\ new.items[Binding(new, k, a)].seen.v = d.items[Binding(d, k, a)].seen.v
  <2> DEFINE b == Binding(d, k, a)
  <2>1. b \in Items(d) /\ k \in Readers(d, b) /\ d.items[b].seen.a = a
    BY <1>2, <1>3
  <2> HIDE DEF b
  <2>2. d.items[b].seen.a \in Names
    BY <1>3, <2>1
  <2>3. /\ Binding(new, k, d.items[b].seen.a) # 0
        /\ new.items[Binding(new, k, d.items[b].seen.a)].seen.v = d.items[b].seen.v
    BY <1>3, <2>1, <2>2, NewBinding
  <2> QED BY <2>1, <2>3 DEF b
\* An heir spells the value that it read.
<1>4. ASSUME NEW k \in Nat, NEW a, a \in Names, Binding(d, k, a) # 0,
             \/ k \in Items(d) /\ d.items[k].seen.form = "alias" /\ d.items[k].seen.a = a
             \/ k = end /\ d.tail.form = "alias" /\ d.tail.a = a,
             NEW i, Inherits(d, u, i, k)
      PROVE  i = Binding(d, k, a)
  <2> DEFINE b == Binding(d, k, a)
  <2>1. b \in Items(d) /\ k \in Readers(d, b)
    BY <1>2, <1>4
  <2>2. k # 0
    BY <1>1, <1>4, ShapeFacts
  <2>3. i \in Items(d) /\ k \in Readers(d, i)
    BY <1>4, <2>2, HeirFacts DEF Inherits
  <2> HIDE DEF b
  <2>4. i = b
    BY <2>1, <2>3, OneReading
  <2> QED BY <2>4 DEF b
<1> HIDE DEF new
<1>5. ASSUME NEW k \in Items(d)
      PROVE  /\ new.items[k].seen.form = "alias" => Binding(new, k, new.items[k].seen.a) # 0
             /\ OwnSeen(new, k) = IF EditsAlias(d, u, k) \/ EditsSeen(d, u, k) THEN u[LoadedRef(d)[k]]
                                  ELSE OwnSeen(d, k)
  <2> DEFINE s == d.items[k].seen
             t == new.items[k].seen
  <2>1. s \in Seens /\ k \in Nat /\ DOMAIN d.items[k] = {"kind", "ref", "seen", "merge", "of"}
    BY <1>1, ShapeFacts, ItemRecord
  <2>2. /\ OwnSeen(d, k) = IF s.form = "alias" THEN d.items[Binding(d, k, s.a)].seen.v ELSE s.v
        /\ OwnSeen(new, k) = IF t.form = "alias" THEN new.items[Binding(new, k, t.a)].seen.v ELSE t.v
    BY DEF OwnSeen
  <2>3. s.form = "alias" => Binding(d, k, s.a) # 0 /\ s.a \in Names
    BY <2>1, SeenFacts DEF Loads
  <2>4. ASSUME NEW v PROVE Written(v).form = "value" /\ Written(v).v = v
    BY DEF Written, Value
  <2>5. CASE EditsAlias(d, u, k)
    <3>1. new.items[k] = Overridden(d.items[k], u[LoadedRef(d)[k]])
      BY <2>5, EditedItems DEF new
    <3>2. t = Written(u[LoadedRef(d)[k]])
      BY <3>1 DEF Overridden, Mapping
    <3> HIDE DEF t, s
    <3>3. t.form = "value" /\ t.v = u[LoadedRef(d)[k]]
      BY <2>4, <3>2
    <3> QED BY <2>2, <2>5, <3>3 DEF t
  <2>6. CASE EditsSeen(d, u, k)
    <3>1. new.items[k] = Respelt(d.items[k], Written(u[LoadedRef(d)[k]]))
      BY <2>6, EditedItems DEF new
    <3>2. t = Written(u[LoadedRef(d)[k]])
      BY <2>1, <3>1 DEF Respelt
    <3> HIDE DEF t, s
    <3>3. t.form = "value" /\ t.v = u[LoadedRef(d)[k]]
      BY <2>4, <3>2
    <3> QED BY <2>2, <2>6, <3>3 DEF t
  <2>7. ASSUME NEW i, Inherits(d, u, i, k)
        PROVE  /\ t.form = "value" /\ OwnSeen(new, k) = OwnSeen(d, k)
               /\ ~EditsAlias(d, u, k) /\ ~EditsSeen(d, u, k)
    <3>1. /\ s.form = "alias" /\ ~EditsAlias(d, u, k) /\ ~EditsSeen(d, u, k)
          /\ new.items[k] = Respelt(d.items[k], Moved(d, i))
      <4> HIDE DEF s, t
      <4>1. /\ d.items[k].seen.form = "alias" /\ ~EditsAlias(d, u, k) /\ ~EditsSeen(d, u, k)
            /\ Edited(d, u).items[k] = Respelt(d.items[k], Moved(d, i))
        BY <2>7, EditedHeir
      <4> QED BY <4>1 DEF s, new
    <3>2. t = Moved(d, i)
      BY <2>1, <3>1 DEF Respelt
    <3>3. i = Binding(d, k, s.a)
      BY <1>4, <2>1, <2>3, <2>7, <3>1
    <3> HIDE DEF t, s
    <3>4. t.form = "value" /\ t.v = d.items[i].seen.v
      BY <3>2 DEF Moved, Value
    <3> QED BY <2>2, <3>1, <3>3, <3>4
  <2>8. CASE ~EditsAlias(d, u, k) /\ ~EditsSeen(d, u, k) /\ ~\E i : Inherits(d, u, i, k)
    <3>1. t = s
      BY <2>8, EditedItems DEF new
    <3>2. s.form = "alias" => /\ Binding(new, k, s.a) # 0
                              /\ new.items[Binding(new, k, s.a)].seen.v = d.items[Binding(d, k, s.a)].seen.v
      BY <1>3, <2>1, <2>3, <2>8
    <3> HIDE DEF s
    <3>3. OwnSeen(new, k) = OwnSeen(d, k) /\ (t.form = "alias" => Binding(new, k, t.a) # 0)
      BY <2>2, <3>1, <3>2
    <3> QED BY <2>8, <3>3
  <2>9. CASE \E i : Inherits(d, u, i, k)
    <3>1. /\ t.form = "value" /\ OwnSeen(new, k) = OwnSeen(d, k)
          /\ ~EditsAlias(d, u, k) /\ ~EditsSeen(d, u, k)
      BY <2>7, <2>9
    <3> QED BY <3>1
  <2> QED BY <2>5, <2>6, <2>8, <2>9
<1>6. /\ new.tail.form = "alias" => Binding(new, end, new.tail.a) # 0
      /\ d.tail.form # "merge" => LoadedTail(new) = LoadedTail(d)
  <2>1. d.tail.form = "alias" => Binding(d, end, d.tail.a) # 0 /\ d.tail.a \in Names
    BY DEF Loads, Shaped
  <2>2. ~EditsSeen(d, u, end)
    BY <1>1, SelectedFacts DEF EditsSeen
  <2>3. \A e : Len(e.items) = Len(d.items) =>
          LoadedTail(e) = IF e.tail.form = "alias" THEN e.items[Binding(e, end, e.tail.a)].seen.v
                          ELSE IF e.tail.form = "merge" THEN LoadedSeen(e)[e.tail.of] ELSE e.tail.v
    BY DEF LoadedTail
  <2>4. /\ LoadedTail(d) = IF d.tail.form = "alias" THEN d.items[Binding(d, end, d.tail.a)].seen.v
                           ELSE IF d.tail.form = "merge" THEN LoadedSeen(d)[d.tail.of] ELSE d.tail.v
        /\ LoadedTail(new) = IF new.tail.form = "alias" THEN new.items[Binding(new, end, new.tail.a)].seen.v
                             ELSE IF new.tail.form = "merge" THEN LoadedSeen(new)[new.tail.of]
                             ELSE new.tail.v
    BY <1>1, <2>3
  <2>5. ASSUME NEW i, Inherits(d, u, i, end)
        PROVE  new.tail.form = "none" /\ LoadedTail(new) = LoadedTail(d)
    <3>1. d.tail.form = "alias" /\ new.tail = [d.tail EXCEPT !.form = "none", !.v = d.items[i].seen.v]
      BY <2>5, EditedMember DEF new
    <3>2. DOMAIN d.tail = {"form", "v", "a", "of"}
      BY DEF Shaped
    <3>3. new.tail.form = "none" /\ new.tail.v = d.items[i].seen.v
      BY <3>1, <3>2
    <3>4. i = Binding(d, end, d.tail.a)
      BY <1>1, <1>4, <2>1, <2>5, <3>1
    <3> QED BY <2>4, <3>1, <3>3, <3>4
  <2>6. CASE ~\E i : Inherits(d, u, i, end)
    <3>1. new.tail = d.tail
      BY <2>6, EditedMember DEF new
    <3>2. d.tail.form = "alias" =>
            /\ Binding(new, end, d.tail.a) # 0
            /\ new.items[Binding(new, end, d.tail.a)].seen.v = d.items[Binding(d, end, d.tail.a)].seen.v
      BY <1>1, <1>3, <2>1, <2>2, <2>6
    <3> QED BY <2>4, <3>1, <3>2
  <2> QED BY <2>5, <2>6
<1>7. Loads(new)
  BY <1>1, <1>5, <1>6 DEF Loads
<1> QED BY <1>5, <1>6, <1>7 DEF new

-----------------------------------------------------------------------------
(* What was meant.                                                           *)

LEMMA RefFacts ==
  ASSUME NEW d, Shaped(d), Loads(d)
  PROVE  /\ LoadedRef(d) \in [Items(d) -> Values]
         /\ \A i \in Items(d) :
              LoadedRef(d)[i] =
                IF d.items[i].kind = "alias" THEN LoadedRef(d)[d.items[i].of]
                ELSE IF d.items[i].ref # Absent THEN d.items[i].ref
                ELSE FirstOf(d.items[i].merge, LoadedRef(d), Absent)
<1> DEFINE own == [i \in Items(d) |-> d.items[i].ref]
<1>1. own \in [Items(d) -> Values] /\ LoadedRef(d) = Loaded(d, own)
  BY OwnFacts DEF LoadedRef
<1>2. \A i \in Items(d) : own[i] = d.items[i].ref
  OBVIOUS
<1> HIDE DEF own
<1>3. /\ Loaded(d, own) \in [Items(d) -> Values]
      /\ \A i \in Items(d) :
           Loaded(d, own)[i] =
             IF d.items[i].kind = "alias" THEN Loaded(d, own)[d.items[i].of]
             ELSE IF own[i] # Absent THEN own[i]
             ELSE FirstOf(d.items[i].merge, Loaded(d, own), Absent)
  BY <1>1, LoadedFacts
<1> QED BY <1>1, <1>2, <1>3

LEMMA ValueFacts ==
  ASSUME NEW d, Shaped(d), Loads(d)
  PROVE  /\ LoadedSeen(d) \in [Items(d) -> Values]
         /\ \A i \in Items(d) :
              LoadedSeen(d)[i] =
                IF d.items[i].kind = "alias" THEN LoadedSeen(d)[d.items[i].of]
                ELSE IF OwnSeen(d, i) # Absent THEN OwnSeen(d, i)
                ELSE FirstOf(d.items[i].merge, LoadedSeen(d), Absent)
<1> DEFINE own == [i \in Items(d) |-> OwnSeen(d, i)]
<1>1. own \in [Items(d) -> Values] /\ LoadedSeen(d) = Loaded(d, own)
  BY OwnFacts DEF LoadedSeen
<1>2. \A i \in Items(d) : own[i] = OwnSeen(d, i)
  OBVIOUS
<1> HIDE DEF own
<1>3. /\ Loaded(d, own) \in [Items(d) -> Values]
      /\ \A i \in Items(d) :
           Loaded(d, own)[i] =
             IF d.items[i].kind = "alias" THEN Loaded(d, own)[d.items[i].of]
             ELSE IF own[i] # Absent THEN own[i]
             ELSE FirstOf(d.items[i].merge, Loaded(d, own), Absent)
  BY <1>1, LoadedFacts
<1> QED BY <1>1, <1>2, <1>3

\* An alias is selected with the mapping it stands for, if that is an entry.
LEMMA SharedFacts ==
  ASSUME NEW d, Shaped(d), Loads(d), NEW u, NEW k \in Items(d), d.items[k].kind = "alias"
  PROVE  LET o == d.items[k].of IN
         /\ o \in Items(d) /\ o < k /\ d.items[o].kind = "map"
         /\ LoadedRef(d)[k] = LoadedRef(d)[o] /\ LoadedSeen(d)[k] = LoadedSeen(d)[o]
         /\ o \in Entries(d) => k \in Entries(d)
         /\ Selected(d, u, o) => Selected(d, u, k)
         /\ o \in Entries(d) /\ Selected(d, u, k) => Selected(d, u, o)
<1> DEFINE o == d.items[k].of
<1>1. o \in Items(d) /\ o < k /\ d.items[o].kind = "map"
  BY ItemFacts
<1>2. LoadedRef(d)[k] = LoadedRef(d)[o] /\ LoadedSeen(d)[k] = LoadedSeen(d)[o]
  BY RefFacts, ValueFacts
<1> HIDE DEF o
<1>3. o \in Entries(d) => k \in Entries(d)
  BY <1>1, ShapeFacts DEF Entries
<1>4. Selected(d, u, o) => Selected(d, u, k)
  BY <1>2, <1>3 DEF Selected
<1>5. o \in Entries(d) /\ Selected(d, u, k) => Selected(d, u, o)
  BY <1>2 DEF Selected
<1> QED BY <1>1, <1>2, <1>3, <1>4, <1>5 DEF o

Origins(d, u) == {j \in Entries(d) : EditsSeen(d, u, j)}

\* Where a mapping's `seen` comes from once the edits are made, or 0.
From(d, u, s) ==
  IF s \in Origins(d, u) \/ d.items[s].seen # NoSeen THEN s
  ELSE InheritedOrigin(d, Origins(d, u))[s]

LEMMA InheritedFacts ==
  ASSUME NEW d, NEW u, NEW i
  PROVE  /\ i \in DOMAIN Inherited(d, u) <=>
              /\ i \in Entries(d) /\ ~Selected(d, u, i) /\ d.items[i].kind = "map"
              /\ d.items[i].seen = NoSeen /\ InheritedOrigin(d, Origins(d, u))[i] \in Origins(d, u)
         /\ i \in DOMAIN Inherited(d, u) =>
              Inherited(d, u)[i] = u[LoadedRef(d)[InheritedOrigin(d, Origins(d, u))[i]]]
  BY DEF Inherited, Origins

\* What each item has to load as: its new value, what it inherits, or what it was.
LEMMA ExpectedIs ==
  ASSUME NEW d, Shaped(d), Loads(d), NEW u, NEW k \in Items(d)
  PROVE  Expected(d, u)[k] =
           IF Selected(d, u, k) THEN u[LoadedRef(d)[k]]
           ELSE IF Object(d, k) \in DOMAIN Inherited(d, u) THEN Inherited(d, u)[Object(d, k)]
           ELSE LoadedSeen(d)[k]
<1> DEFINE direct == {i \in Entries(d) : Selected(d, u, i)}
           inherited == Inherited(d, u)
           now(i) == IF i \in direct THEN u[LoadedRef(d)[i]] ELSE inherited[i]
           all == direct \cup DOMAIN inherited
           here == {i \in all : Class(d, u, i) = Class(d, u, k)}
<1>1. Expected(d, u)[k] = IF here = {} THEN LoadedSeen(d)[k]
                          ELSE now(CHOOSE i \in here : \A j \in here : j <= i)
  BY DEF Expected
<1>2. \A i : i \in direct <=> Selected(d, u, i)
  BY DEF Selected
<1>3. ASSUME NEW i \in all PROVE i \in Nat /\ Class(d, u, i) = i
  <2>1. i \in Entries(d)
    BY InheritedFacts
  <2>2. i \in Nat
    BY <2>1, ShapeFacts DEF Entries, Items
  <2>3. CASE i \in direct
    BY <1>2, <2>2, <2>3 DEF Class
  <2>4. CASE i \notin direct
    <3>1. ~Selected(d, u, i) /\ d.items[i].kind = "map"
      BY <1>2, <2>4, InheritedFacts
    <3> QED BY <2>2, <3>1 DEF Class, Object
  <2> QED BY <2>3, <2>4
<1>4. Class(d, u, k) = IF Selected(d, u, k) THEN k ELSE Object(d, k)
  BY DEF Class
<1>5. here = {Class(d, u, k)} \cap all
  BY <1>3
<1>6. ASSUME NEW i \in Nat, here = {i} PROVE (CHOOSE x \in here : \A j \in here : j <= x) = i
  <2>1. \A x \in {i} : (\A j \in {i} : j <= x) /\ x = i
    OBVIOUS
  <2> HIDE DEF here
  <2> QED BY <1>6, <2>1
<1>7. CASE Selected(d, u, k)
  <2>1. here = {k} /\ k \in Nat
    BY <1>2, <1>4, <1>5, <1>7, ShapeFacts
  <2>2. Expected(d, u)[k] = now(k)
    <3> HIDE DEF here, now
    <3> QED BY <1>1, <1>6, <2>1
  <2> QED BY <1>2, <1>7, <2>2
<1>8. CASE ~Selected(d, u, k)
  <2> DEFINE o == Object(d, k)
  <2>1. ~Selected(d, u, o)
    <3>1. CASE d.items[k].kind = "alias"
      BY <1>8, <3>1, SharedFacts DEF Object
    <3>2. CASE d.items[k].kind # "alias"
      BY <1>8, <3>2 DEF Object
    <3> QED BY <3>1, <3>2
  <2>2. here = {o} \cap all /\ (o \in all <=> o \in DOMAIN inherited)
    BY <1>2, <1>4, <1>5, <1>8, <2>1
  <2> HIDE DEF o
  <2>3. CASE o \in DOMAIN inherited
    <3>1. here = {o} /\ o \in Nat
      BY <1>3, <2>2, <2>3
    <3>2. Expected(d, u)[k] = now(o)
      <4> HIDE DEF here, now
      <4> QED BY <1>1, <1>6, <3>1
    <3>3. now(o) = inherited[o]
      BY <1>2, <2>1
    <3> QED BY <1>8, <2>3, <3>2, <3>3 DEF o
  <2>4. CASE o \notin DOMAIN inherited
    <3>1. here = {}
      BY <2>2, <2>4
    <3> HIDE DEF here, now
    <3> QED BY <1>1, <1>8, <2>4, <3>1 DEF o
  <2> QED BY <2>3, <2>4
<1> QED BY <1>7, <1>8

\* What a mapping that is not edited and spells no `seen` merges: nothing, or the first
\* source that something comes from.
LEMMA FromFacts ==
  ASSUME NEW d, Shaped(d), NEW u, NEW s \in Items(d), d.items[s].seen = NoSeen,
         s \notin Origins(d, u)
  PROVE  LET sources == d.items[s].merge IN
         \/ /\ From(d, u, s) = 0
            /\ \A n \in 1 .. Len(sources) : From(d, u, sources[n]) = 0
         \/ \E n \in 1 .. Len(sources) :
              /\ From(d, u, sources[n]) # 0 /\ From(d, u, s) = From(d, u, sources[n])
              /\ \A o \in 1 .. Len(sources) : o < n => From(d, u, sources[o]) = 0
<1> DEFINE sources == d.items[s].merge
           O == InheritedOrigin(d, Origins(d, u))
           from == Froms(d, Origins(d, u), O, s)
<1>1. sources \in Seq(Nat) /\ \A n \in 1 .. Len(sources) : sources[n] \in Mappings(d, s)
  BY ShapeFacts, ItemFacts DEF Mappings
<1>2. From(d, u, s) = FirstOf(sources, from, 0)
  <2>1. From(d, u, s) = O[s]
    BY DEF From
  <2> QED BY <2>1, OriginFacts
<1>3. \A m \in Mappings(d, s) : from[m] = From(d, u, m)
  BY DEF Froms, From
<1> HIDE DEF sources, from
<1>4. \A n \in 1 .. Len(sources) : from[sources[n]] = From(d, u, sources[n])
  BY <1>1, <1>3
<1>5. CASE /\ \A n \in 1 .. Len(sources) : from[sources[n]] = 0
           /\ FirstOf(sources, from, 0) = 0
  BY <1>2, <1>4, <1>5 DEF sources
<1>6. CASE \E n \in 1 .. Len(sources) :
             Leads(sources, from, 0, n) /\ FirstOf(sources, from, 0) = from[sources[n]]
  <2>1. PICK n \in 1 .. Len(sources) :
          Leads(sources, from, 0, n) /\ FirstOf(sources, from, 0) = from[sources[n]]
    BY <1>6
  <2>2. /\ From(d, u, sources[n]) # 0 /\ From(d, u, s) = From(d, u, sources[n])
        /\ \A o \in 1 .. Len(sources) : o < n => From(d, u, sources[o]) = 0
    BY <1>2, <1>4, <2>1 DEF Leads
  <2> QED BY <2>2 DEF sources
<1> QED BY <1>1, <1>5, <1>6, FirstFacts

\* The origin of a mapping's value decides what is meant for it.
Meant(d, u, s) ==
  LET from == From(d, u, s) IN
  /\ from # 0 => from \in Items(d) /\ from <= s
  /\ from = 0 => Expected(d, u)[s] = Absent /\ LoadedSeen(d)[s] = Absent
  /\ from \in Origins(d, u) => Expected(d, u)[s] = u[LoadedRef(d)[from]]
  /\ (from # 0 /\ from \notin Origins(d, u)) =>
        Expected(d, u)[s] = LoadedSeen(d)[s] /\ LoadedSeen(d)[s] # Absent

LEMMA OriginsAreItems ==
  ASSUME NEW d, Shaped(d), NEW u \in Updates, NEW j \in Origins(d, u)
  PROVE  /\ j \in Items(d) /\ j \in Entries(d) /\ j \in Nat /\ j > 0 /\ Selected(d, u, j)
         /\ d.items[j].kind = "map" /\ LoadedRef(d)[j] \in DOMAIN u
         /\ u[LoadedRef(d)[j]] \in Hashes /\ u[LoadedRef(d)[j]] # Absent
<1>1. j \in Entries(d) /\ Selected(d, u, j) /\ d.items[j].kind = "map"
  BY DEF Origins, EditsSeen
<1>2. /\ j \in Items(d) /\ LoadedRef(d)[j] \in DOMAIN u /\ u[LoadedRef(d)[j]] \in Hashes
  BY <1>1, SelectedFacts
<1>3. j \in Nat /\ j > 0
  BY <1>2, ShapeFacts
<1>4. u[LoadedRef(d)[j]] # Absent
  BY <1>2, RewriteAssumption
<1> QED BY <1>1, <1>2, <1>3, <1>4

\* A mapping whose sources mean what they should means what they lead to.
LEMMA MergeMeant ==
  ASSUME NEW d, Shaped(d), Loads(d), NEW u \in Updates, NEW s \in Items(d),
         d.items[s].kind = "map", d.items[s].seen = NoSeen, s \notin Origins(d, u),
         \A n \in 1 .. Len(d.items[s].merge) : Meant(d, u, d.items[s].merge[n])
  PROVE  /\ Meant(d, u, s)
         /\ Expected(d, u)[s] = FirstOf(d.items[s].merge, Expected(d, u), Absent)
<1> DEFINE sources == d.items[s].merge
           E == Expected(d, u)
           S == LoadedSeen(d)
           from == From(d, u, s)
<1>1. sources \in Seq(Nat) /\ \A n \in 1 .. Len(sources) : sources[n] \in Items(d) /\ sources[n] < s
  BY ShapeFacts, ItemFacts
<1>2. s \in Nat /\ ~Selected(d, u, s) /\ Object(d, s) = s
  <2>1. ~Selected(d, u, s)
    BY DEF Origins, EditsSeen, Selected
  <2> QED BY <2>1, ShapeFacts DEF Object
<1>3. S[s] = FirstOf(sources, S, Absent)
  BY OwnFacts, ValueFacts
<1>4. from = InheritedOrigin(d, Origins(d, u))[s]
  BY DEF From
<1>5. s \in DOMAIN Inherited(d, u) <=> s \in Entries(d) /\ from \in Origins(d, u)
  BY <1>2, <1>4, InheritedFacts
<1>6. E[s] = IF s \in DOMAIN Inherited(d, u) THEN u[LoadedRef(d)[from]] ELSE S[s]
  BY <1>2, <1>4, ExpectedIs, InheritedFacts
<1>7. \A n \in 1 .. Len(sources) : Meant(d, u, sources[n])
  OBVIOUS
<1> HIDE DEF sources, E, S, from
<1>8. CASE from = 0 /\ \A n \in 1 .. Len(sources) : From(d, u, sources[n]) = 0
  <2>1. \A n \in 1 .. Len(sources) : E[sources[n]] = Absent /\ S[sources[n]] = Absent
    BY <1>7, <1>8 DEF Meant, E, S
  <2>2. FirstOf(sources, E, Absent) = Absent /\ FirstOf(sources, S, Absent) = Absent
    BY <1>1, <2>1, FirstFacts DEF Leads
  <2>3. from \notin Origins(d, u)
    BY <1>8, OriginsAreItems
  <2>4. E[s] = Absent /\ S[s] = Absent
    BY <1>3, <1>5, <1>6, <2>2, <2>3
  <2>5. Meant(d, u, s)
    BY <1>8, <2>3, <2>4 DEF Meant, E, S, from
  <2> QED BY <2>2, <2>4, <2>5 DEF E, sources
<1>9. ASSUME NEW n \in 1 .. Len(sources), From(d, u, sources[n]) # 0,
             from = From(d, u, sources[n]),
             \A o \in 1 .. Len(sources) : o < n => From(d, u, sources[o]) = 0
      PROVE  /\ Meant(d, u, s)
             /\ E[s] = FirstOf(sources, E, Absent)
  <2> DEFINE m == sources[n]
  <2>1. m \in Items(d) /\ m < s /\ Meant(d, u, m) /\ m \in Nat
    BY <1>1, <1>7, ShapeFacts
  <2>2. \A o \in 1 .. Len(sources) : o < n => E[sources[o]] = Absent /\ S[sources[o]] = Absent
    BY <1>7, <1>9 DEF Meant, E, S
  <2>3. from # 0 /\ from = From(d, u, m)
    BY <1>9
  <2> HIDE DEF m
  <2>4. /\ from \in Items(d) /\ from <= m
        /\ from \in Origins(d, u) => E[m] = u[LoadedRef(d)[from]]
        /\ from \notin Origins(d, u) => E[m] = S[m] /\ S[m] # Absent
    BY <2>1, <2>3 DEF Meant, E, S
  <2>5. from \in Nat /\ from <= s
    BY <1>2, <2>1, <2>4, ShapeFacts
  <2>6. from \in Origins(d, u) => s \in Entries(d) /\ u[LoadedRef(d)[from]] # Absent
    <3>1. from \in Origins(d, u) => from \in Entries(d) /\ u[LoadedRef(d)[from]] # Absent
      BY OriginsAreItems
    <3>2. from \in Entries(d) => s \in Entries(d)
      BY <1>2, <2>5, ShapeFacts DEF Entries
    <3> QED BY <3>1, <3>2
  <2>7. E[m] # Absent
    BY <2>4, <2>6
  <2>8. FirstOf(sources, E, Absent) = E[m]
    <3>1. Leads(sources, E, Absent, n)
      BY <2>2, <2>7 DEF Leads, m
    <3>2. FirstOf(sources, E, Absent) = E[sources[n]]
      BY <1>1, <3>1, FirstIs
    <3> QED BY <3>2 DEF m
  <2>9. CASE from \in Origins(d, u)
    <3>1. E[s] = u[LoadedRef(d)[from]] /\ E[s] = E[m]
      BY <1>5, <1>6, <2>4, <2>6, <2>9
    <3>2. Meant(d, u, s)
      BY <2>3, <2>4, <2>5, <2>9, <3>1 DEF Meant, E, S, from
    <3> QED BY <2>8, <3>1, <3>2
  <2>10. CASE from \notin Origins(d, u)
    <3>1. FirstOf(sources, S, Absent) = S[m]
      <4>1. Leads(sources, S, Absent, n)
        BY <2>2, <2>4, <2>10 DEF Leads, m
      <4>2. FirstOf(sources, S, Absent) = S[sources[n]]
        BY <1>1, <4>1, FirstIs
      <4> QED BY <4>2 DEF m
    <3>2. S[s] = S[m] /\ E[s] = S[s] /\ S[s] # Absent /\ E[s] = E[m]
      BY <1>3, <1>5, <1>6, <2>4, <2>10, <3>1
    <3>3. Meant(d, u, s)
      BY <2>3, <2>4, <2>5, <2>10, <3>2 DEF Meant, E, S, from
    <3> QED BY <2>8, <3>2, <3>3
  <2> QED BY <2>9, <2>10
<1>10. \/ from = 0 /\ \A n \in 1 .. Len(sources) : From(d, u, sources[n]) = 0
       \/ \E n \in 1 .. Len(sources) :
            /\ From(d, u, sources[n]) # 0 /\ from = From(d, u, sources[n])
            /\ \A o \in 1 .. Len(sources) : o < n => From(d, u, sources[o]) = 0
  BY FromFacts DEF from, sources
<1>11. Meant(d, u, s) /\ E[s] = FirstOf(sources, E, Absent)
  BY <1>8, <1>9, <1>10 DEF E, sources
<1> QED BY <1>11 DEF E, sources

LEMMA AllMeant ==
  ASSUME NEW d, Shaped(d), Loads(d), NEW u \in Updates
  PROVE  \A s \in Items(d) : d.items[s].kind = "map" => Meant(d, u, s)
<1> DEFINE N == Len(d.items)
           P == {s \in 1 .. N : d.items[s].kind = "map" => Meant(d, u, s)}
<1>1. N \in Nat /\ Items(d) = 1 .. N
  BY ShapeFacts
<1>2. ASSUME NEW s \in 1 .. N, \A j \in 1 .. N : j < s => j \in P, d.items[s].kind = "map"
      PROVE  Meant(d, u, s)
  <2>1. s \in Items(d) /\ s \in Nat /\ s # 0
    BY <1>1
  <2>2. CASE s \in Origins(d, u)
    <3>1. From(d, u, s) = s
      BY <2>2 DEF From
    <3>2. Selected(d, u, s)
      BY <2>2, OriginsAreItems
    <3>3. Expected(d, u)[s] = u[LoadedRef(d)[s]]
      BY <2>1, <3>2, ExpectedIs
    <3> QED BY <2>1, <2>2, <3>1, <3>3 DEF Meant
  <2>3. CASE s \notin Origins(d, u) /\ d.items[s].seen # NoSeen
    <3>1. From(d, u, s) = s
      BY <2>3 DEF From
    <3>2. ~Selected(d, u, s) /\ Object(d, s) = s
      BY <1>2, <2>3 DEF Origins, EditsSeen, Selected, Object
    <3>3. s \notin DOMAIN Inherited(d, u)
      BY <2>3, InheritedFacts
    <3>4. Expected(d, u)[s] = LoadedSeen(d)[s]
      BY <2>1, <3>2, <3>3, ExpectedIs
    <3>5. LoadedSeen(d)[s] # Absent
      BY <1>2, <2>1, <2>3, OwnFacts, ValueFacts
    <3> QED BY <2>1, <2>3, <3>1, <3>4, <3>5 DEF Meant
  <2>4. CASE s \notin Origins(d, u) /\ d.items[s].seen = NoSeen
    <3>1. \A n \in 1 .. Len(d.items[s].merge) : Meant(d, u, d.items[s].merge[n])
      <4>1. \A n \in 1 .. Len(d.items[s].merge) :
              /\ d.items[s].merge[n] \in 1 .. N /\ d.items[s].merge[n] < s
              /\ d.items[d.items[s].merge[n]].kind = "map"
        BY <1>1, <2>1, ItemFacts
      <4> QED BY <1>2, <4>1
    <3> QED BY <1>2, <2>1, <2>4, <3>1, MergeMeant
  <2> QED BY <2>2, <2>3, <2>4
<1>3. \A s \in 1 .. N : (\A j \in 1 .. N : j < s => j \in P) => s \in P
  BY <1>2
<1> HIDE DEF P
<1>4. \A s \in 1 .. N : s \in P
  BY <1>1, <1>3, FromBelow
<1> QED BY <1>1, <1>4 DEF P

-----------------------------------------------------------------------------
(* The edits load as what was meant.                                         *)

LEMMA FirstOfOne ==
  ASSUME NEW s \in Nat, NEW member, NEW none
  PROVE  FirstOf(<<s>>, member, none) = member[s]
<1> DEFINE sources == <<s>>
<1>1. sources \in Seq(Nat) /\ Len(sources) = 1 /\ sources[1] = s
  OBVIOUS
<1> HIDE DEF sources
<1>2. FirstOf(sources, member, none) = member[s]
  BY <1>1, FirstFacts
<1> QED BY <1>2 DEF sources

\* References are as they were, an overridden alias merges the reference it had.
LEMMA RefsKept ==
  ASSUME NEW d, Shaped(d), Loads(d), NEW u \in Updates
  PROVE  LoadedRef(Edited(d, u)) = LoadedRef(d)
<1> DEFINE N == Len(d.items)
           new == Edited(d, u)
           R == LoadedRef(d)
           T == LoadedRef(new)
           P == {k \in 1 .. N : T[k] = R[k]}
<1>1. N \in Nat /\ Items(d) = 1 .. N
  BY ShapeFacts
<1>2. Shaped(new) /\ Loads(new) /\ Items(new) = Items(d)
  BY EditedShape, NewOwn
<1>3. /\ R \in [Items(d) -> Values]
      /\ \A i \in Items(d) :
           R[i] = IF d.items[i].kind = "alias" THEN R[d.items[i].of]
                  ELSE IF d.items[i].ref # Absent THEN d.items[i].ref
                  ELSE FirstOf(d.items[i].merge, R, Absent)
  BY RefFacts
<1> HIDE DEF new
<1>4. /\ T \in [Items(d) -> Values]
      /\ \A i \in Items(d) :
           T[i] = IF new.items[i].kind = "alias" THEN T[new.items[i].of]
                  ELSE IF new.items[i].ref # Absent THEN new.items[i].ref
                  ELSE FirstOf(new.items[i].merge, T, Absent)
  BY <1>2, RefFacts
<1> HIDE DEF N, R, T
<1>5. ASSUME NEW k \in 1 .. N, \A j \in 1 .. N : j < k => j \in P
      PROVE  T[k] = R[k]
  <2>1. k \in Items(d)
    BY <1>1
  <2>2. CASE EditsAlias(d, u, k)
    <3>1. d.items[k].kind = "alias"
      BY <2>2 DEF EditsAlias
    <3>2. d.items[k].of \in 1 .. N /\ d.items[k].of < k /\ d.items[k].of \in Nat
      BY <1>1, <2>1, <3>1, ItemFacts
    <3>3. new.items[k] = Overridden(d.items[k], u[LoadedRef(d)[k]])
      BY <2>1, <2>2, EditedItems DEF new
    <3>4. new.items[k].kind = "map" /\ new.items[k].ref = Absent /\ new.items[k].merge = <<d.items[k].of>>
      BY <3>3 DEF Overridden, Mapping
    <3>5. T[k] = FirstOf(<<d.items[k].of>>, T, Absent)
      BY <1>4, <2>1, <3>4
    <3>6. T[k] = T[d.items[k].of]
      BY <3>2, <3>5, FirstOfOne
    <3> QED BY <1>3, <1>5, <2>1, <3>1, <3>2, <3>6
  <2>3. CASE ~EditsAlias(d, u, k)
    <3> DEFINE item == d.items[k]
               edit == new.items[k]
    <3>1. edit.kind = item.kind /\ edit.ref = item.ref /\ edit.merge = item.merge /\ edit.of = item.of
      BY <2>1, <2>3, SameButSeen DEF new
    <3>2. /\ item.kind = "alias" => item.of \in 1 .. N /\ item.of < k
          /\ \A n \in 1 .. Len(item.merge) : item.merge[n] \in 1 .. N /\ item.merge[n] < k
          /\ item.merge \in Seq(Nat)
      BY <1>1, <2>1, ItemFacts, ShapeFacts
    <3>3. /\ R[k] = IF item.kind = "alias" THEN R[item.of]
                    ELSE IF item.ref # Absent THEN item.ref ELSE FirstOf(item.merge, R, Absent)
          /\ T[k] = IF edit.kind = "alias" THEN T[edit.of]
                    ELSE IF edit.ref # Absent THEN edit.ref ELSE FirstOf(edit.merge, T, Absent)
      BY <1>3, <1>4, <2>1
    <3> HIDE DEF item, edit
    <3>4. item.kind = "alias" => T[item.of] = R[item.of]
      BY <1>5, <3>2
    <3>5. FirstOf(item.merge, T, Absent) = FirstOf(item.merge, R, Absent)
      <4>1. \A n \in 1 .. Len(item.merge) : T[item.merge[n]] = R[item.merge[n]]
        BY <1>5, <3>2
      <4> QED BY <3>2, <4>1, FirstLocal
    <3> QED BY <3>1, <3>3, <3>4, <3>5
  <2> QED BY <2>2, <2>3
<1>6. \A k \in 1 .. N : (\A j \in 1 .. N : j < k => j \in P) => k \in P
  BY <1>5
<1> HIDE DEF P
<1>7. \A k \in 1 .. N : k \in P
  BY <1>1, <1>6, FromBelow
<1>8. \A k \in Items(d) : T[k] = R[k]
  BY <1>1, <1>7 DEF P
<1>9. T = R
  BY <1>3, <1>4, <1>8
<1> QED BY <1>9 DEF R, T, new

LEMMA ExpectedDomain ==
  ASSUME NEW d, NEW u
  PROVE  Expected(d, u) = [k \in Items(d) |-> Expected(d, u)[k]]
BY DEF Expected

\* Each value is the one that was meant.
LEMMA SeensAsExpected ==
  ASSUME NEW d, Shaped(d), Loads(d), NEW u \in Updates
  PROVE  LoadedSeen(Edited(d, u)) = Expected(d, u)
<1> DEFINE N == Len(d.items)
           new == Edited(d, u)
           R == LoadedRef(d)
           S == LoadedSeen(d)
           E == Expected(d, u)
           T == LoadedSeen(new)
           P == {k \in 1 .. N : T[k] = E[k]}
<1>1. N \in Nat /\ Items(d) = 1 .. N
  BY ShapeFacts
<1>2. Shaped(new) /\ Loads(new) /\ Items(new) = Items(d)
  BY EditedShape, NewOwn
<1>3. \A k \in Items(d) :
        OwnSeen(new, k) = IF EditsAlias(d, u, k) \/ EditsSeen(d, u, k) THEN u[R[k]] ELSE OwnSeen(d, k)
  BY NewOwn
<1>4. \A i \in Items(d) :
        S[i] = IF d.items[i].kind = "alias" THEN S[d.items[i].of]
               ELSE IF OwnSeen(d, i) # Absent THEN OwnSeen(d, i)
               ELSE FirstOf(d.items[i].merge, S, Absent)
  BY ValueFacts
<1>a. \A i \in Items(d) : OwnSeen(d, i) = Absent <=> d.items[i].seen = NoSeen
  BY OwnFacts
<1> HIDE DEF new
<1>5. /\ T \in [Items(d) -> Values]
      /\ \A i \in Items(d) :
           T[i] = IF new.items[i].kind = "alias" THEN T[new.items[i].of]
                  ELSE IF OwnSeen(new, i) # Absent THEN OwnSeen(new, i)
                  ELSE FirstOf(new.items[i].merge, T, Absent)
  BY <1>2, ValueFacts
<1>6. ASSUME NEW k \in Items(d), Selected(d, u, k) PROVE u[R[k]] # Absent /\ E[k] = u[R[k]]
  <2>1. u[R[k]] \in Hashes
    BY <1>6, SelectedFacts
  <2>2. E[k] = u[R[k]]
    BY <1>6, ExpectedIs
  <2> QED BY <2>1, <2>2, RewriteAssumption
<1>7. ASSUME NEW k \in Items(d), ~Selected(d, u, k)
      PROVE  E[k] = IF Object(d, k) \in DOMAIN Inherited(d, u) THEN Inherited(d, u)[Object(d, k)] ELSE S[k]
  BY <1>7, ExpectedIs
<1> HIDE DEF N, R, S, E, T
<1>8. ASSUME NEW k \in 1 .. N, \A j \in 1 .. N : j < k => j \in P
      PROVE  T[k] = E[k]
  <2>1. k \in Items(d)
    BY <1>1
  <2>2. CASE EditsAlias(d, u, k)
    <3>1. new.items[k] = Overridden(d.items[k], u[LoadedRef(d)[k]])
      BY <2>1, <2>2, EditedItems DEF new
    <3>2. new.items[k].kind = "map"
      BY <3>1 DEF Overridden, Mapping
    <3>3. Selected(d, u, k)
      BY <2>2 DEF EditsAlias
    <3> QED BY <1>3, <1>5, <1>6, <2>1, <2>2, <3>2, <3>3
  <2>3. CASE EditsSeen(d, u, k)
    <3>1. Selected(d, u, k) /\ d.items[k].kind = "map" /\ ~EditsAlias(d, u, k)
      BY <2>3 DEF EditsSeen, EditsAlias
    <3>2. new.items[k].kind = "map"
      BY <2>1, <3>1, SameButSeen DEF new
    <3> QED BY <1>3, <1>5, <1>6, <2>1, <2>3, <3>1, <3>2
  <2>4. CASE ~EditsAlias(d, u, k) /\ ~EditsSeen(d, u, k) /\ d.items[k].kind = "alias"
    <3> DEFINE o == d.items[k].of
    <3>1. o \in 1 .. N /\ o < k /\ o \in Items(d)
      BY <1>1, <2>1, <2>4, ItemFacts
    <3>2. /\ R[k] = R[o] /\ S[k] = S[o] /\ d.items[o].kind = "map"
          /\ Selected(d, u, o) => Selected(d, u, k)
      BY <2>1, <2>4, SharedFacts DEF R, S
    <3>3. new.items[k].kind = "alias" /\ new.items[k].of = o
      BY <2>1, <2>4, SameButSeen DEF new
    <3>4. T[k] = T[o] /\ T[o] = E[o]
      BY <1>5, <1>8, <2>1, <3>1, <3>3
    <3>5. CASE Selected(d, u, k)
      <4>1. o \in updated_definitions(d, u, k)
        BY <2>4, <3>5 DEF EditsAlias
      <4>2. Selected(d, u, o)
        BY <4>1 DEF updated_definitions
      <4> QED BY <1>6, <2>1, <3>1, <3>2, <3>4, <3>5, <4>2
    <3>6. CASE ~Selected(d, u, k)
      <4>1. Object(d, k) = o /\ Object(d, o) = o
        BY <2>4, <3>2 DEF Object
      <4> QED BY <1>7, <2>1, <3>1, <3>2, <3>4, <3>6, <4>1
    <3> QED BY <3>5, <3>6
  <2>5. CASE ~EditsSeen(d, u, k) /\ d.items[k].kind = "map"
    <3>1. ~EditsAlias(d, u, k) /\ ~Selected(d, u, k) /\ Object(d, k) = k /\ k \notin Origins(d, u)
      BY <2>5 DEF EditsAlias, EditsSeen, Object, Origins
    <3>2. new.items[k].kind = "map" /\ new.items[k].merge = d.items[k].merge
      BY <2>1, <2>5, <3>1, SameButSeen DEF new
    <3>3. OwnSeen(new, k) = OwnSeen(d, k)
      BY <1>3, <2>1, <2>5, <3>1
    <3>4. CASE d.items[k].seen # NoSeen
      <4>1. T[k] = OwnSeen(d, k) /\ S[k] = OwnSeen(d, k)
        BY <1>4, <1>5, <1>a, <2>1, <2>5, <3>2, <3>3, <3>4
      <4>2. k \notin DOMAIN Inherited(d, u)
        BY <3>4, InheritedFacts
      <4> QED BY <1>7, <2>1, <3>1, <4>1, <4>2
    <3>5. CASE d.items[k].seen = NoSeen
      <4> DEFINE sources == d.items[k].merge
      <4>1. /\ sources \in Seq(Nat)
            /\ \A n \in 1 .. Len(sources) : /\ sources[n] \in Items(d) /\ sources[n] < k
                                            /\ d.items[sources[n]].kind = "map"
        BY <2>1, ItemFacts, ShapeFacts
      <4>2. \A n \in 1 .. Len(sources) : Meant(d, u, sources[n])
        BY <4>1, AllMeant
      <4>3. E[k] = FirstOf(sources, E, Absent)
        BY <2>1, <2>5, <3>1, <3>5, <4>2, MergeMeant DEF E
      <4>4. T[k] = FirstOf(sources, T, Absent)
        BY <1>5, <1>a, <2>1, <2>5, <3>2, <3>3, <3>5
      <4> HIDE DEF sources
      <4>5. \A n \in 1 .. Len(sources) : T[sources[n]] = E[sources[n]]
        BY <1>1, <1>8, <4>1
      <4> QED BY <4>1, <4>3, <4>4, <4>5, FirstLocal
    <3> QED BY <3>4, <3>5
  <2> QED BY <2>1, <2>2, <2>3, <2>4, <2>5, ShapeFacts
<1>9. \A k \in 1 .. N : (\A j \in 1 .. N : j < k => j \in P) => k \in P
  BY <1>8
<1> HIDE DEF P
<1>10. \A k \in 1 .. N : k \in P
  BY <1>1, <1>9, FromBelow
<1>11. \A k \in Items(d) : T[k] = E[k]
  BY <1>1, <1>10 DEF P
<1>12. T = E
  <2>1. E = [k \in Items(d) |-> E[k]]
    BY ExpectedDomain DEF E
  <2>2. T = [k \in Items(d) |-> T[k]]
    BY <1>5
  <2> QED BY <1>11, <2>1, <2>2
<1> QED BY <1>12 DEF E, T, new

\* The verification has nothing to stop but what a member after the list inherits.
LEMMA PlannedIsVerified ==
  ASSUME NEW d, Shaped(d), Loads(d), NEW u \in Updates, d.tail.form # "merge"
  PROVE  Verified(d, u)
BY NewOwn, RefsKept, SeensAsExpected DEF Verified

-----------------------------------------------------------------------------
(* A rewrite is exact.                                                       *)

\* What comes from an edited entry follows it.
LEMMA OriginFollows ==
  ASSUME NEW d, Shaped(d), NEW u
  PROVE  \A s \in Items(d) : d.items[s].kind = "map" /\ From(d, u, s) \in Origins(d, u) => Follower(d, u, s)
<1> DEFINE N == Len(d.items)
           P == {s \in 1 .. N : d.items[s].kind = "map" /\ From(d, u, s) \in Origins(d, u) => Follower(d, u, s)}
<1>1. N \in Nat /\ Items(d) = 1 .. N
  BY ShapeFacts
<1>2. ASSUME NEW s \in 1 .. N, \A j \in 1 .. N : j < s => j \in P,
             d.items[s].kind = "map", From(d, u, s) \in Origins(d, u)
      PROVE  Follower(d, u, s)
  <2>1. s \in Items(d)
    BY <1>1
  <2>2. CASE s \in Origins(d, u)
    BY <2>1, <2>2, FollowerFacts DEF Origins
  <2>3. CASE s \notin Origins(d, u)
    <3>1. d.items[s].seen = NoSeen
      BY <1>2, <2>3 DEF From
    <3> DEFINE sources == d.items[s].merge
    <3>2. \A n \in 1 .. Len(sources) : /\ sources[n] \in 1 .. N /\ sources[n] < s
                                       /\ d.items[sources[n]].kind = "map"
      BY <1>1, <2>1, ItemFacts
    <3>3. From(d, u, s) # 0
      <4>1. 0 \notin Items(d)
        BY <1>1
      <4>2. Origins(d, u) \in SUBSET Items(d)
        BY ShapeFacts DEF Origins, Entries, Items
      <4> QED BY <1>2, <4>1, <4>2
    <3>4. PICK n \in 1 .. Len(sources) : From(d, u, s) = From(d, u, sources[n])
      BY <2>1, <2>3, <3>1, <3>3, FromFacts
    <3>5. Follower(d, u, sources[n])
      BY <1>2, <3>2, <3>4
    <3> QED BY <1>2, <2>1, <3>1, <3>5, FollowerFacts
  <2> QED BY <2>2, <2>3
<1>3. \A s \in 1 .. N : (\A j \in 1 .. N : j < s => j \in P) => s \in P
  BY <1>2
<1> HIDE DEF P
<1>4. \A s \in 1 .. N : s \in P
  BY <1>1, <1>3, FromBelow
<1> QED BY <1>1, <1>4 DEF P

LEMMA ExactRewrite ==
  ASSUME Shaped(doc), Loads(doc), updates \in Updates, Verified(doc, updates),
         doc' = Edited(doc, updates), applied' = Changed(doc, updates)
  PROVE  Exact
<1> DEFINE R == LoadedRef(doc)
           S == LoadedSeen(doc)
           E == Expected(doc, updates)
           I == Inherited(doc, updates)
           O == InheritedOrigin(doc, Origins(doc, updates))
<1>1. LoadedRef(doc') = R /\ LoadedTail(doc') = LoadedTail(doc) /\ LoadedSeen(doc') = E
  BY DEF Verified
<1>2. ASSUME NEW i \in Items(doc)
      PROVE  \/ E[i] = (IF Selected(doc, updates, i) THEN updates[R[i]] ELSE S[i])
             \/ /\ i \in Entries(doc) /\ ~Selected(doc, updates, i)
                /\ Follower(doc, updates, Object(doc, i))
                /\ E[i] \in {updates[r] : r \in Changed(doc, updates)}
  <2>1. E[i] = IF Selected(doc, updates, i) THEN updates[R[i]]
               ELSE IF Object(doc, i) \in DOMAIN I THEN I[Object(doc, i)] ELSE S[i]
    BY ExpectedIs
  <2>2. CASE ~Selected(doc, updates, i) /\ Object(doc, i) \in DOMAIN I
    <3> DEFINE o == Object(doc, i)
    <3>1. /\ o \in Entries(doc) /\ ~Selected(doc, updates, o) /\ doc.items[o].kind = "map"
          /\ doc.items[o].seen = NoSeen /\ O[o] \in Origins(doc, updates)
          /\ I[o] = updates[R[O[o]]]
      BY <2>2, InheritedFacts
    <3>2. i \in Entries(doc)
      <4>1. CASE doc.items[i].kind = "alias"
        BY <3>1, <4>1, SharedFacts DEF Object
      <4>2. CASE doc.items[i].kind # "alias"
        BY <3>1, <4>2 DEF Object
      <4> QED BY <4>1, <4>2
    <3>3. o \in Items(doc)
      BY <3>1, ShapeFacts DEF Entries, Items
    <3> HIDE DEF o
    <3>4. From(doc, updates, o) = O[o]
      BY <3>1 DEF From, Origins, EditsSeen
    <3>5. Follower(doc, updates, o)
      BY <3>1, <3>3, <3>4, OriginFollows
    <3>6. R[O[o]] \in Changed(doc, updates)
      BY <3>1, OriginsAreItems DEF Changed
    <3>7. E[i] = updates[R[O[o]]]
      BY <2>1, <2>2, <3>1 DEF o
    <3> QED BY <2>2, <3>2, <3>5, <3>6, <3>7 DEF o
  <2>3. CASE Selected(doc, updates, i) \/ Object(doc, i) \notin DOMAIN I
    BY <2>1, <2>3
  <2> QED BY <2>2, <2>3
<1> QED BY <1>1, <1>2 DEF Exact

-----------------------------------------------------------------------------
(* Rewriting settles.                                                        *)

\* After a rewrite: what still differs from its update merges its value, and nothing
\* that is to have a value would lose it once more.
Settling(d, u) ==
  /\ \A i \in Entries(d) : Selected(d, u, i) =>
       d.items[Object(d, i)].seen = NoSeen /\ d.items[Object(d, i)].merge # <<>>
  /\ \A o \in DOMAIN Inherited(d, u) : LoadedRef(d)[o] \notin DOMAIN u

\* What differs after a rewrite did not before, and followed an edited entry.
LEMMA StillSelected ==
  ASSUME NEW d, Shaped(d), Loads(d), NEW u \in Updates, NEW i, Selected(Edited(d, u), u, i)
  PROVE  /\ i \in Items(d) /\ ~Selected(d, u, i) /\ Object(d, i) \in DOMAIN Inherited(d, u)
         /\ Object(Edited(d, u), i) = Object(d, i)
         /\ Edited(d, u).items[Object(d, i)] = d.items[Object(d, i)]
         /\ LoadedRef(d)[i] = LoadedRef(d)[Object(d, i)] /\ LoadedRef(d)[i] \in DOMAIN u
         /\ LoadedSeen(d)[i] = u[LoadedRef(d)[i]] /\ LoadedSeen(d)[i] = LoadedSeen(d)[Object(d, i)]
         /\ Expected(d, u)[i] # u[LoadedRef(d)[i]]
         /\ Expected(d, u)[i] = Inherited(d, u)[Object(d, i)]
<1> DEFINE new == Edited(d, u)
           R == LoadedRef(d)
           S == LoadedSeen(d)
           E == Expected(d, u)
           o == Object(d, i)
<1>1. i \in Entries(d) /\ i \in Items(d) /\ R[i] \in DOMAIN u /\ E[i] # u[R[i]]
  BY EditedShape, RefsKept, SeensAsExpected, SelectedFacts DEF Selected
<1>2. E[i] = IF Selected(d, u, i) THEN u[R[i]]
             ELSE IF o \in DOMAIN Inherited(d, u) THEN Inherited(d, u)[o] ELSE S[i]
  BY <1>1, ExpectedIs
<1>3. ~Selected(d, u, i)
  BY <1>1, <1>2
<1>4. S[i] = u[R[i]]
  BY <1>1, <1>3 DEF Selected
<1>5. o \in DOMAIN Inherited(d, u) /\ E[i] = Inherited(d, u)[o]
  BY <1>1, <1>2, <1>3, <1>4
<1>6. /\ o \in Entries(d) /\ ~Selected(d, u, o) /\ d.items[o].kind = "map"
      /\ d.items[o].seen = NoSeen
  BY <1>5, InheritedFacts
<1>7. R[i] = R[o] /\ S[i] = S[o]
  <2>1. CASE d.items[i].kind = "alias"
    BY <1>1, <2>1, SharedFacts DEF Object
  <2>2. CASE d.items[i].kind # "alias"
    BY <2>2 DEF Object
  <2> QED BY <2>1, <2>2
<1> HIDE DEF R, S, E, o
<1>8. o \in Items(d)
  BY <1>6, ShapeFacts DEF Entries, Items
<1>9. ASSUME NEW k \in Items(d), ~Selected(d, u, k), d.items[k].seen = NoSeen
      PROVE  new.items[k] = d.items[k]
  <2>1. ~EditsAlias(d, u, k) /\ ~EditsSeen(d, u, k)
    BY <1>9 DEF EditsAlias, EditsSeen
  <2>2. ~\E j : Inherits(d, u, j, k)
    BY <1>9, EditedHeir DEF NoSeen
  <2> QED BY <2>1, <2>2, EditedItems
<1>10. new.items[o] = d.items[o]
  BY <1>6, <1>8, <1>9
<1>11. Object(new, i) = o
  <2>1. CASE d.items[i].kind = "alias"
    <3>1. new.items[i] = d.items[i]
      BY <1>1, <1>3, <1>9, <2>1, ItemFacts
    <3> HIDE DEF new
    <3> QED BY <2>1, <3>1 DEF Object, o
  <2>2. CASE d.items[i].kind # "alias"
    <3>1. o = i
      BY <2>2 DEF o, Object
    <3> HIDE DEF new
    <3> QED BY <1>6, <1>10, <3>1 DEF Object
  <2> QED BY <2>1, <2>2
<1> QED BY <1>1, <1>3, <1>4, <1>5, <1>7, <1>10, <1>11 DEF R, S, E, o

\* Where values come from, before and after a rewrite.
Trail(d, u, s) ==
  LET new == Edited(d, u) IN
  /\ From(new, u, s) = 0 <=> From(d, u, s) = 0
  /\ \A j \in Origins(new, u) : From(new, u, s) = j =>
       From(d, u, s) = From(d, u, j) /\ LoadedSeen(d)[s] = LoadedSeen(d)[j]

\* An origin of a second rewrite followed one of the first.
LEMMA LaterOrigin ==
  ASSUME NEW d, Shaped(d), Loads(d), NEW u \in Updates, NEW j \in Origins(Edited(d, u), u)
  PROVE  /\ j \in Items(d) /\ ~Selected(d, u, j) /\ d.items[j].kind = "map" /\ d.items[j].seen = NoSeen
         /\ Edited(d, u).items[j] = d.items[j] /\ LoadedRef(d)[j] \in DOMAIN u
         /\ From(d, u, j) \in Origins(d, u)
         /\ LoadedSeen(d)[j] = u[LoadedRef(d)[j]] /\ LoadedSeen(d)[j] # Absent
         /\ u[LoadedRef(d)[From(d, u, j)]] # u[LoadedRef(d)[j]]
<1> DEFINE new == Edited(d, u)
           O == InheritedOrigin(d, Origins(d, u))
<1>1. Selected(new, u, j) /\ new.items[j].kind = "map"
  BY DEF Origins, EditsSeen
<1>2. Object(d, j) = j
  <2>1. Object(new, j) = j
    <3> HIDE DEF new
    <3> QED BY <1>1 DEF Object
  <2> QED BY <1>1, <2>1, StillSelected
<1>3. /\ j \in Items(d) /\ ~Selected(d, u, j) /\ j \in DOMAIN Inherited(d, u)
      /\ new.items[j] = d.items[j] /\ LoadedRef(d)[j] \in DOMAIN u
      /\ LoadedSeen(d)[j] = u[LoadedRef(d)[j]]
      /\ Inherited(d, u)[j] # u[LoadedRef(d)[j]]
  BY <1>1, <1>2, StillSelected
<1> HIDE DEF new
<1>4. /\ d.items[j].kind = "map" /\ d.items[j].seen = NoSeen
      /\ O[j] \in Origins(d, u) /\ Inherited(d, u)[j] = u[LoadedRef(d)[O[j]]]
  BY <1>3, InheritedFacts
<1>5. From(d, u, j) = O[j]
  BY <1>3, <1>4 DEF From, Origins, EditsSeen
<1>6. u[LoadedRef(d)[j]] # Absent
  BY <1>3, RewriteAssumption DEF Updates
<1> QED BY <1>3, <1>4, <1>5, <1>6 DEF new

\* A mapping without `seen` that is not edited stays, and only such a one has none then.
LEMMA Untouched ==
  ASSUME NEW d, Shaped(d), NEW u, NEW s \in Items(d), d.items[s].kind = "map"
  PROVE  /\ (d.items[s].seen = NoSeen /\ s \notin Origins(d, u)) =>
              Edited(d, u).items[s] = d.items[s]
         /\ Edited(d, u).items[s].seen = NoSeen =>
              /\ Edited(d, u).items[s] = d.items[s] /\ d.items[s].seen = NoSeen
              /\ s \notin Origins(d, u)
<1> DEFINE new == Edited(d, u)
<1>1. ~EditsAlias(d, u, s)
  BY DEF EditsAlias
<1>2. s \in Origins(d, u) <=> EditsSeen(d, u, s)
  BY DEF Origins, EditsSeen, Selected
<1>3. ASSUME EditsSeen(d, u, s) PROVE new.items[s].seen # NoSeen
  <2>1. new.items[s] = Respelt(d.items[s], Written(u[LoadedRef(d)[s]]))
    BY <1>3, EditedItems
  <2> HIDE DEF new
  <2>2. new.items[s].seen = Written(u[LoadedRef(d)[s]])
    BY <2>1, ItemRecord DEF Respelt
  <2> QED BY <2>2 DEF Written, Value, NoSeen
<1>4. ASSUME NEW i, Inherits(d, u, i, s) PROVE d.items[s].seen # NoSeen /\ new.items[s].seen # NoSeen
  <2>1. d.items[s].seen.form = "alias" /\ new.items[s] = Respelt(d.items[s], Moved(d, i))
    BY <1>4, EditedHeir
  <2> HIDE DEF new
  <2>2. new.items[s].seen = Moved(d, i)
    BY <2>1, ItemRecord DEF Respelt
  <2> QED BY <2>1, <2>2 DEF Moved, Value, NoSeen
<1>5. (~EditsSeen(d, u, s) /\ ~\E i : Inherits(d, u, i, s)) => new.items[s] = d.items[s]
  BY <1>1, EditedItems
<1> HIDE DEF new
<1> QED BY <1>2, <1>3, <1>4, <1>5 DEF new

LEMMA Trails ==
  ASSUME NEW d, Shaped(d), Loads(d), NEW u \in Updates
  PROVE  \A s \in Items(d) : d.items[s].kind = "map" => Trail(d, u, s)
<1> DEFINE N == Len(d.items)
           new == Edited(d, u)
           S == LoadedSeen(d)
           P == {s \in 1 .. N : d.items[s].kind = "map" => Trail(d, u, s)}
<1>1. N \in Nat /\ Items(d) = 1 .. N /\ 0 \notin Items(d)
  BY ShapeFacts
<1>2. Shaped(new) /\ Items(new) = Items(d)
  BY EditedShape
<1>3. ASSUME NEW j \in Origins(new, u)
      PROVE  /\ j \in Items(d) /\ j # 0 /\ d.items[j].kind = "map" /\ d.items[j].seen = NoSeen
             /\ From(d, u, j) \in Origins(d, u) /\ From(d, u, j) # 0 /\ S[j] # Absent
  <2>1. /\ j \in Items(d) /\ d.items[j].kind = "map" /\ d.items[j].seen = NoSeen
        /\ From(d, u, j) \in Origins(d, u) /\ S[j] # Absent
    BY LaterOrigin
  <2>2. From(d, u, j) \in Items(d)
    BY <2>1, OriginsAreItems
  <2> QED BY <1>1, <2>1, <2>2
<1> HIDE DEF N, new, S
<1>4. ASSUME NEW s \in 1 .. N, \A j \in 1 .. N : j < s => j \in P, d.items[s].kind = "map"
      PROVE  /\ From(new, u, s) = 0 <=> From(d, u, s) = 0
             /\ \A j \in Origins(new, u) : From(new, u, s) = j =>
                  From(d, u, s) = From(d, u, j) /\ S[s] = S[j]
  <2>1. s \in Items(d) /\ s # 0
    BY <1>1
  <2>2. CASE s \in Origins(new, u)
    BY <1>3, <2>1, <2>2 DEF From
  <2>3. CASE s \notin Origins(new, u) /\ new.items[s].seen # NoSeen
    <3>1. From(new, u, s) = s
      BY <2>3 DEF From
    <3>2. s \in Origins(d, u) \/ d.items[s].seen # NoSeen
      BY <1>4, <2>1, <2>3, Untouched DEF new
    <3>3. From(d, u, s) = s
      BY <3>2 DEF From
    <3> QED BY <2>1, <2>3, <3>1, <3>3
  <2>4. CASE s \notin Origins(new, u) /\ new.items[s].seen = NoSeen
    <3> DEFINE sources == d.items[s].merge
    <3>1. new.items[s] = d.items[s] /\ d.items[s].seen = NoSeen /\ s \notin Origins(d, u)
      BY <1>4, <2>1, <2>4, Untouched DEF new
    <3>2. /\ sources \in Seq(Nat)
          /\ \A n \in 1 .. Len(sources) : /\ sources[n] \in Items(d) /\ sources[n] \in 1 .. N
                                          /\ sources[n] < s /\ d.items[sources[n]].kind = "map"
      <4>1. sources \in Seq(Nat)
        BY <2>1, ShapeFacts
      <4>2. \A n \in 1 .. Len(sources) : /\ sources[n] \in Items(d) /\ sources[n] < s
                                         /\ d.items[sources[n]].kind = "map"
        BY <2>1, ItemFacts
      <4> QED BY <1>1, <4>1, <4>2
    <3>3. \A n \in 1 .. Len(sources) : Trail(d, u, sources[n])
      BY <1>4, <3>2
    <3>4. \A n \in 1 .. Len(sources) : From(d, u, sources[n]) = 0 => S[sources[n]] = Absent
      BY <3>2, AllMeant DEF Meant, S
    <3>5. \/ /\ From(new, u, s) = 0
             /\ \A n \in 1 .. Len(sources) : From(new, u, sources[n]) = 0
          \/ \E n \in 1 .. Len(sources) :
               /\ From(new, u, sources[n]) # 0 /\ From(new, u, s) = From(new, u, sources[n])
               /\ \A o \in 1 .. Len(sources) : o < n => From(new, u, sources[o]) = 0
      <4>1. s \in Items(new) /\ new.items[s].merge = sources
        BY <1>2, <2>1, <3>1
      <4> HIDE DEF sources
      <4> QED BY <1>2, <2>4, <4>1, FromFacts
    <3>6. \/ /\ From(d, u, s) = 0
             /\ \A n \in 1 .. Len(sources) : From(d, u, sources[n]) = 0
          \/ \E n \in 1 .. Len(sources) :
               /\ From(d, u, sources[n]) # 0 /\ From(d, u, s) = From(d, u, sources[n])
               /\ \A o \in 1 .. Len(sources) : o < n => From(d, u, sources[o]) = 0
      BY <2>1, <3>1, FromFacts
    <3>7. S[s] = FirstOf(sources, S, Absent)
      <4>1. OwnSeen(d, s) = Absent
        BY <2>1, <3>1, OwnFacts
      <4> QED BY <1>4, <2>1, <4>1, ValueFacts DEF S
    <3> HIDE DEF sources
    <3>8. \A n \in 1 .. Len(sources) :
            From(new, u, sources[n]) = 0 <=> From(d, u, sources[n]) = 0
      BY <3>3 DEF Trail, new
    <3>9. From(new, u, s) = 0 <=> From(d, u, s) = 0
      BY <3>5, <3>6, <3>8
    <3>10. ASSUME NEW j \in Origins(new, u), From(new, u, s) = j
           PROVE  From(d, u, s) = From(d, u, j) /\ S[s] = S[j]
      <4>1. j # 0 /\ From(d, u, j) # 0 /\ S[j] # Absent
        BY <1>3
      <4>2. PICK n \in 1 .. Len(sources) :
              /\ From(new, u, sources[n]) # 0 /\ From(new, u, s) = From(new, u, sources[n])
              /\ \A o \in 1 .. Len(sources) : o < n => From(new, u, sources[o]) = 0
        BY <3>5, <3>10, <4>1
      <4>3. From(d, u, sources[n]) = From(d, u, j) /\ S[sources[n]] = S[j]
        BY <3>3, <3>10, <4>2 DEF Trail, new, S
      <4>4. \A o \in 1 .. Len(sources) : o < n => From(d, u, sources[o]) = 0
        BY <3>8, <4>2
      <4>5. From(d, u, s) = From(d, u, sources[n])
        <5>1. PICK m \in 1 .. Len(sources) :
                /\ From(d, u, sources[m]) # 0 /\ From(d, u, s) = From(d, u, sources[m])
                /\ \A o \in 1 .. Len(sources) : o < m => From(d, u, sources[o]) = 0
          BY <3>6, <4>1, <4>3
        <5>2. ~(n < m) /\ ~(m < n)
          BY <4>1, <4>3, <4>4, <5>1
        <5>3. n = m
          BY <5>2, <3>2
        <5> QED BY <5>1, <5>3
      <4>6. Leads(sources, S, Absent, n)
        BY <3>4, <4>1, <4>3, <4>4 DEF Leads
      <4>7. S[s] = S[sources[n]]
        BY <3>2, <3>7, <4>6, FirstIs
      <4> QED BY <4>3, <4>5, <4>7
    <3> QED BY <3>9, <3>10
  <2> QED BY <2>2, <2>3, <2>4
<1>5. ASSUME NEW s \in 1 .. N, \A j \in 1 .. N : j < s => j \in P PROVE s \in P
  <2>1. d.items[s].kind = "map" => Trail(d, u, s)
    BY <1>4, <1>5 DEF Trail, new, S
  <2> QED BY <2>1
<1> HIDE DEF P
<1>6. \A s \in 1 .. N : s \in P
  BY <1>1, <1>5, FromBelow
<1> QED BY <1>1, <1>6 DEF P

\* A rewrite leaves a document that settles.
LEMMA SettlingAfter ==
  ASSUME NEW d, Shaped(d), Loads(d), NEW u \in Updates
  PROVE  Settling(Edited(d, u), u)
<1> DEFINE new == Edited(d, u)
           R == LoadedRef(d)
           S == LoadedSeen(d)
           E == Expected(d, u)
<1>1. Shaped(new) /\ Items(new) = Items(d) /\ Entries(new) = Entries(d)
  BY EditedShape
<1>2. LoadedRef(new) = R /\ LoadedSeen(new) = E
  BY RefsKept, SeensAsExpected
<1>3. ASSUME NEW i \in Entries(new), Selected(new, u, i)
      PROVE  new.items[Object(new, i)].seen = NoSeen /\ new.items[Object(new, i)].merge # <<>>
  <2> DEFINE o == Object(d, i)
  <2>1. o \in DOMAIN Inherited(d, u) /\ Object(new, i) = o /\ new.items[o] = d.items[o]
    BY <1>3, StillSelected
  <2>2. /\ o \in Entries(d) /\ ~Selected(d, u, o) /\ d.items[o].seen = NoSeen
        /\ InheritedOrigin(d, Origins(d, u))[o] \in Origins(d, u)
    BY <2>1, InheritedFacts
  <2> HIDE DEF o, new
  <2>3. o \in Items(d) /\ o \notin Origins(d, u)
    BY <2>2, ShapeFacts DEF Entries, Items, Origins, EditsSeen
  <2>4. From(d, u, o) \in Origins(d, u)
    BY <2>2, <2>3 DEF From
  <2>5. From(d, u, o) # 0
    BY <2>4, OriginsAreItems
  <2>6. \E n \in 1 .. Len(d.items[o].merge) : From(d, u, d.items[o].merge[n]) # 0
    BY <2>2, <2>3, <2>5, FromFacts
  <2>7. d.items[o].merge # <<>>
    BY <2>6
  <2> QED BY <2>1, <2>2, <2>7
<1>4. ASSUME NEW o \in DOMAIN Inherited(new, u), LoadedRef(new)[o] \in DOMAIN u PROVE FALSE
  <2> DEFINE j == InheritedOrigin(new, Origins(new, u))[o]
             j0 == From(d, u, j)
  <2>1. /\ o \in Entries(new) /\ ~Selected(new, u, o) /\ new.items[o].kind = "map"
        /\ new.items[o].seen = NoSeen /\ j \in Origins(new, u)
    BY <1>4, InheritedFacts
  <2>2. /\ j \in Items(d) /\ R[j] \in DOMAIN u /\ j0 \in Origins(d, u)
        /\ S[j] = u[R[j]] /\ u[R[j0]] # u[R[j]]
    BY <2>1, LaterOrigin
  <2>3. From(new, u, o) = j
    <3>1. o \notin Origins(new, u)
      BY <2>1 DEF Origins, EditsSeen
    <3> HIDE DEF new
    <3> QED BY <2>1, <3>1 DEF From
  <2>4. o \in Items(d) /\ o \in Entries(d)
    BY <1>1, <2>1, ShapeFacts DEF Entries, Items
  <2>5. d.items[o].kind = "map"
    <3>1. CASE EditsAlias(d, u, o)
      <4>1. new.items[o] = Overridden(d.items[o], u[R[o]])
        BY <2>4, <3>1, EditedItems
      <4> HIDE DEF new
      <4>2. new.items[o].seen.form = "value"
        BY <4>1 DEF Overridden, Mapping, Written, Value
      <4> QED BY <2>1, <4>2 DEF NoSeen
    <3>2. CASE ~EditsAlias(d, u, o)
      BY <2>1, <2>4, <3>2, SameButSeen
    <3> QED BY <3>1, <3>2
  <2>6. o \notin Origins(d, u)
    BY <2>1, <2>4, <2>5, Untouched
  <2>7. ~Selected(d, u, o)
    BY <2>4, <2>5, <2>6 DEF Origins, EditsSeen
  <2>8. Trail(d, u, o) /\ Meant(d, u, o)
    BY <2>4, <2>5, Trails, AllMeant
  <2>9. From(d, u, o) = j0 /\ S[o] = S[j]
    BY <2>1, <2>3, <2>8 DEF Trail
  <2>10. E[o] = u[R[j0]]
    BY <2>2, <2>8, <2>9 DEF Meant
  <2>11. R[o] \in DOMAIN u
    BY <1>2, <1>4
  <2>12. S[o] = u[R[o]]
    BY <2>4, <2>7, <2>11 DEF Selected
  <2>13. E[o] = u[R[o]]
    <3> HIDE DEF new, E, R
    <3> QED BY <1>2, <2>1, <2>11 DEF Selected
  <2> HIDE DEF R, S, E, j, j0, new
  <2> QED BY <2>2, <2>9, <2>10, <2>12, <2>13
<1> HIDE DEF new
<1>5. Settling(new, u)
  BY <1>3, <1>4 DEF Settling
<1> QED BY <1>5 DEF new

\* And a rewrite of one that settles leaves nothing to rewrite.
LEMMA SettledAfter ==
  ASSUME NEW d, Shaped(d), Loads(d), NEW u \in Updates, Settling(d, u)
  PROVE  Changed(Edited(d, u), u) = {}
<1>1. ASSUME NEW i, Selected(Edited(d, u), u, i) PROVE FALSE
  <2>1. /\ Object(d, i) \in DOMAIN Inherited(d, u)
        /\ LoadedRef(d)[i] = LoadedRef(d)[Object(d, i)] /\ LoadedRef(d)[i] \in DOMAIN u
    BY <1>1, StillSelected
  <2> QED BY <2>1 DEF Settling
<1> QED BY <1>1 DEF Changed

-----------------------------------------------------------------------------
(* Every run.                                                                *)

\* The document stays well formed and loads; after a rewrite it settles, after two it
\* has; and a refusal has one of the reasons there are.
RewriteInv ==
  /\ Shaped(doc) /\ updates \in Updates
  /\ TypeOK
  /\ outcome = "none" => rounds = 0
  /\ outcome = "rewritten" => rounds \in {1, 2}
  /\ outcome = "rewritten" /\ rounds = 1 => Settling(doc, updates)
  /\ outcome = "rewritten" /\ rounds = 2 => Changed(doc, updates) = {}
  /\ outcome = "refused" =>
       \/ Malformed(doc, updates) \/ Respelled(doc, updates)
       \/ doc.tail.form = "merge"

LEMMA ChangedFacts ==
  ASSUME NEW d, Shaped(d), NEW u \in Updates
  PROVE  Changed(d, u) \subseteq DOMAIN u
BY SelectedFacts DEF Changed

LEMMA RewriteStarts ==
  ASSUME Init
  PROVE  RewriteInv
<1>1. Shaped(doc)
  <2>1. PICK t \in Templates : \E a \in Entry(t) : \E b \in Entry(Append(t, a)) :
          \E m \in More(t \o <<a, b>>), k \in {"fence", "comment"}, e \in Tails(t \o <<a, b>>) :
            doc = Document(k, t, <<a, b>> \o m, e)
    BY DEF Init
  <2>2. PICK a \in Entry(t) : \E b \in Entry(Append(t, a)) :
          \E m \in More(t \o <<a, b>>), k \in {"fence", "comment"}, e \in Tails(t \o <<a, b>>) :
            doc = Document(k, t, <<a, b>> \o m, e)
    BY <2>1
  <2>3. PICK b \in Entry(Append(t, a)) :
          \E m \in More(t \o <<a, b>>), k \in {"fence", "comment"}, e \in Tails(t \o <<a, b>>) :
            doc = Document(k, t, <<a, b>> \o m, e)
    BY <2>2
  <2>4. PICK m \in More(t \o <<a, b>>), k \in {"fence", "comment"}, e \in Tails(t \o <<a, b>>) :
          doc = Document(k, t, <<a, b>> \o m, e)
    BY <2>3
  <2>5. Shaped(Document(k, t, <<a, b>> \o m, e))
    BY RewriteAssumption
  <2> QED BY <2>4, <2>5
<1>2. updates \in Updates
  BY RewriteAssumption DEF Init, Updates
<1>3. Loads(doc) /\ applied = {} /\ outcome = "none" /\ rounds = 0
  BY DEF Init
<1> QED BY <1>1, <1>2, <1>3 DEF RewriteInv, TypeOK

LEMMA RewriteSteps ==
  ASSUME RewriteInv, [Next]_vars
  PROVE  RewriteInv'
<1>0. /\ Shaped(doc) /\ updates \in Updates /\ Loads(doc) /\ applied \subseteq DOMAIN updates
      /\ outcome \in {"none", "rewritten", "refused", "unchanged"}
      /\ outcome = "rewritten" <=> applied # {}
      /\ outcome = "none" => rounds = 0
      /\ outcome = "rewritten" => rounds \in {1, 2}
  BY DEF RewriteInv, TypeOK
<1>1. ASSUME Rewrite PROVE RewriteInv'
  <2>1. /\ outcome \in {"none", "rewritten"} /\ Changed(doc, updates) # {}
        /\ doc' = Edited(doc, updates) /\ updates' = updates
        /\ outcome' = "rewritten" /\ applied' = Changed(doc, updates) /\ rounds' = rounds + 1
    BY <1>1 DEF Rewrite, Running, Finish
  <2>2. Shaped(doc') /\ Loads(doc')
    BY <1>0, <2>1, EditedShape, NewOwn
  <2>3. applied' \subseteq DOMAIN updates' /\ applied' # {}
    BY <1>0, <2>1, ChangedFacts
  <2>4. outcome = "rewritten" => rounds = 1 /\ Settling(doc, updates)
    BY <1>0, <2>1 DEF RewriteInv
  <2>5. rounds' \in {1, 2} /\ (rounds' = 1 => outcome = "none") /\ (rounds' = 2 => outcome = "rewritten")
    BY <1>0, <2>1, <2>4
  <2>6. Settling(doc', updates')
    BY <1>0, <2>1, SettlingAfter
  <2>7. rounds' = 2 => Changed(doc', updates') = {}
    BY <1>0, <2>1, <2>4, <2>5, SettledAfter
  <2>8. TypeOK'
    BY <2>1, <2>2, <2>3 DEF TypeOK
  <2>9. updates' \in Updates /\ outcome' # "none" /\ outcome' # "refused"
    BY <1>0, <2>1
  <2> QED BY <2>2, <2>5, <2>6, <2>7, <2>8, <2>9 DEF RewriteInv
<1>2. ASSUME Refuse PROVE RewriteInv'
  <2>1. /\ doc' = doc /\ updates' = updates /\ outcome' = "refused" /\ applied' = {}
    BY <1>2 DEF Refuse, Finish
  <2>2. \/ Malformed(doc, updates) \/ Respelled(doc, updates)
        \/ doc.tail.form = "merge"
    BY <1>0, <1>2, PlannedIsVerified DEF Refuse
  <2>3. \/ Malformed(doc', updates') \/ Respelled(doc', updates')
        \/ doc'.tail.form = "merge"
    BY <2>1, <2>2
  <2> QED BY <1>0, <2>1, <2>3 DEF RewriteInv, TypeOK
<1>3. ASSUME Skip PROVE RewriteInv'
  <2>1. /\ doc' = doc /\ updates' = updates /\ outcome' = "unchanged" /\ applied' = {}
    BY <1>3 DEF Skip, Finish
  <2> QED BY <1>0, <2>1 DEF RewriteInv, TypeOK
<1>4. ASSUME UNCHANGED vars PROVE RewriteInv'
  <2>1. /\ doc' = doc /\ updates' = updates /\ outcome' = outcome /\ applied' = applied
        /\ rounds' = rounds
    BY <1>4 DEF vars
  <2> QED BY <2>1 DEF RewriteInv, TypeOK
<1> QED BY <1>1, <1>2, <1>3, <1>4 DEF Next

\* In every state of every run: what is refused spells a value that cannot be edited,
\* would end a comment, or has a member outside the list that merges an entry.  The
\* verification of reconcile.py has nothing else to find in what the planner does.
THEOREM RefusalsExplained == Spec => []RefusalsAreExplained
<1>1. RewriteInv => RefusalsAreExplained
  BY DEF RewriteInv, RefusalsAreExplained
<1> QED BY <1>1, RewriteStarts, RewriteSteps, PTL DEF Spec

\* Every rewrite sets what was selected and nothing else, but for what inherits its
\* value; a second one only sets what the first one changed by inheritance, and there
\* is no third.
THEOREM RewritesExact == Spec => RewriteIsExact
<1>1. ASSUME RewriteInv, [Next]_vars, doc' # doc PROVE Exact /\ Settles
  <2>1. Rewrite
    BY <1>1 DEF Next, Refuse, Skip, vars
  <2>2. /\ Shaped(doc) /\ updates \in Updates /\ Loads(doc)
        /\ outcome = "rewritten" => rounds \in {1, 2}
        /\ outcome = "rewritten" /\ rounds = 1 => Settling(doc, updates)
        /\ outcome = "rewritten" /\ rounds = 2 => Changed(doc, updates) = {}
    BY <1>1 DEF RewriteInv, TypeOK
  <2>3. /\ Changed(doc, updates) # {} /\ Verified(doc, updates)
        /\ doc' = Edited(doc, updates) /\ applied' = Changed(doc, updates)
    BY <2>1 DEF Rewrite, Finish
  <2>4. Exact
    BY <2>2, <2>3, ExactRewrite
  <2>5. outcome = "rewritten" => rounds = 1 /\ Settling(doc, updates)
    BY <2>2, <2>3
  <2>6. Settles
    BY <2>5 DEF Settles, Settling
  <2> QED BY <2>4, <2>6
<1>2. RewriteInv /\ [Next]_vars => (doc' # doc => Exact /\ Settles)
  BY <1>1
<1>3. RewriteInv /\ [Next]_vars => [doc' # doc => Exact /\ Settles]_vars
  BY <1>2
<1> QED BY <1>3, RewriteStarts, RewriteSteps, PTL DEF Spec, RewriteIsExact
=============================================================================
