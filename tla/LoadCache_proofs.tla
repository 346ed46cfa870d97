-------------------------- MODULE LoadCache_proofs --------------------------
(***************************************************************************)
(* Proofs about the load cache: no claim in the slot, or in the memory of a *)
(* command, ever vouches for bytes the file does not hold, and therefore a  *)
(* cached load answers what an uncached one would; and what every command   *)
(* remembers of the slot it loaded, from which the slot it writes is tidy   *)
(* and warm.                                                                *)
(***************************************************************************)
EXTENDS LoadCache, SequenceTheorems, WellFoundedInduction, TLAPS

(***************************************************************************)
(* Operators.                                                               *)
(***************************************************************************)
\* The next document of a command is one of those it has left.
LEMMA FirstIn ==
  ASSUME NEW S \in SUBSET Keys, S # {}
  PROVE  First(S) \in S
<1> DEFINE Less == OpToRel(<, Nat)
<1>1. S \subseteq Nat
  BY DEF Keys
<1>2. \A j, k \in Nat : j < k => <<j, k>> \in Less
  BY DEF OpToRel
<1>3. IsWellFoundedOn(Less, Nat)
  BY NatLessThanWellFounded
<1> HIDE DEF Less
<1>4. PICK k \in S : \A j \in S : ~ (<<j, k>> \in Less)
  BY <1>1, <1>3, WFMin
<1>5. ASSUME NEW j \in S PROVE k <= j
  <2>1. j \in Nat /\ k \in Nat
    BY <1>1
  <2>2. ~ (j < k)
    BY <2>1, <1>2, <1>4, Zenon
  <2> QED BY <2>1, <2>2
<1> QED BY <1>5 DEF First

\* Under the files fl, the files ru that reused a stamp and the newest stamps
\* ti, the stat st vouches for the facts x, and the entry e is sound.
Vouches(st, x, fl, ru, ti) ==
  /\ st.stamp <= ti[st.id]
  /\ \/ st.id \in ru
     \/ fl[st.id].stamp = st.stamp => Parse[fl[st.id].bytes] = x

SoundIn(e, fl, ru, ti) ==
  /\ Parse[e.file_sha256] = e.payload
  /\ \A r \in Roots : e.stats[r] # None => Vouches(e.stats[r], e.payload, fl, ru, ti)

LEMMA ClaimSound ==
  ASSUME NEW fl, NEW ru, NEW ti,
         NEW e \in Entries, SoundIn(e, fl, ru, ti), NEW r \in Roots,
         NEW st \in Stats, Vouches(st, e.payload, fl, ru, ti)
  PROVE  claim(e, r, st) \in Entries /\ SoundIn(claim(e, r, st), fl, ru, ti)
<1> DEFINE c == claim(e, r, st)
<1>1. /\ c.file_sha256 = e.file_sha256 /\ c.payload = e.payload
      /\ c.stats = [e.stats EXCEPT ![r] = st]
      /\ c \in Entries
  BY DEF claim, Entries
<1>2. \A q \in Roots : c.stats[q] # None => Vouches(c.stats[q], c.payload, fl, ru, ti)
  <2> SUFFICES ASSUME NEW q \in Roots, c.stats[q] # None PROVE Vouches(c.stats[q], c.payload, fl, ru, ti)
    OBVIOUS
  <2>1. e.stats \in [Roots -> Stats \cup {None}]
    BY DEF Entries
  <2>2. CASE q = r
    <3>1. c.stats[q] = st
      BY <1>1, <2>1, <2>2
    <3> QED BY <3>1, <1>1
  <2>3. CASE q # r
    <3>1. c.stats[q] = e.stats[q]
      BY <1>1, <2>1, <2>3
    <3> QED BY <3>1, <1>1 DEF SoundIn
  <2> QED BY <2>2, <2>3
<1>3. Parse[c.file_sha256] = c.payload
  BY <1>1 DEF SoundIn
<1> HIDE DEF c
<1>4. c \in Entries /\ SoundIn(c, fl, ru, ti)
  BY <1>1, <1>2, <1>3 DEF SoundIn
<1> QED BY <1>4 DEF c

LEMMA FreshSound ==
  ASSUME NEW fl, NEW ru, NEW ti,
         NEW b \in Bytes, Parse[b] # Malformed, NEW r \in Roots, NEW st \in Stats,
         Vouches(st, Parse[b], fl, ru, ti)
  PROVE  make_entry(b, st, r) \in Entries /\ SoundIn(make_entry(b, st, r), fl, ru, ti)
<1> DEFINE e == make_entry(b, st, r)
<1>1. Parse[b] \in Facts
  BY ParseAssumption
<1>2. /\ e.file_sha256 = b /\ e.payload = Parse[b]
      /\ e.stats = [q \in Roots |-> IF q = r THEN st ELSE None]
      /\ e \in Entries
  BY <1>1 DEF make_entry, Entries
<1>3. \A q \in Roots : e.stats[q] # None => Vouches(e.stats[q], e.payload, fl, ru, ti)
  BY <1>2
<1> HIDE DEF e
<1>4. SoundIn(e, fl, ru, ti)
  BY <1>2, <1>3 DEF SoundIn
<1> QED BY <1>2, <1>4 DEF e

\* A cache of sound entries.
Good(es, fl, ru, ti) ==
  /\ es \in [Keys -> Entries \cup {None}]
  /\ \A k \in Keys : es[k] # None => SoundIn(es[k], fl, ru, ti)

LEMMA NoneGood ==
  ASSUME NEW fl, NEW ru, NEW ti
  PROVE  Good(NoEntries, fl, ru, ti)
  BY DEF Good, NoEntries

LEMMA ClaimGood ==
  ASSUME NEW fl, NEW ru, NEW ti, NEW es, Good(es, fl, ru, ti),
         NEW k \in Keys, es[k] # None, NEW r \in Roots,
         NEW st \in Stats, Vouches(st, es[k].payload, fl, ru, ti)
  PROVE  Good([es EXCEPT ![k] = claim(@, r, st)], fl, ru, ti)
<1>1. es[k] \in Entries /\ SoundIn(es[k], fl, ru, ti)
  BY DEF Good
<1>2. claim(es[k], r, st) \in Entries /\ SoundIn(claim(es[k], r, st), fl, ru, ti)
  BY <1>1, ClaimSound
<1> QED BY <1>2 DEF Good

LEMMA FreshGood ==
  ASSUME NEW fl, NEW ru, NEW ti, NEW es, Good(es, fl, ru, ti),
         NEW k \in Keys, NEW b \in Bytes, Parse[b] # Malformed, NEW r \in Roots,
         NEW st \in Stats, Vouches(st, Parse[b], fl, ru, ti)
  PROVE  Good([es EXCEPT ![k] = make_entry(b, st, r)], fl, ru, ti)
<1>1. make_entry(b, st, r) \in Entries /\ SoundIn(make_entry(b, st, r), fl, ru, ti)
  BY FreshSound
<1> QED BY <1>1 DEF Good

\* A finished run only takes claims away.
LEMMA CompleteGood ==
  ASSUME NEW fl, NEW ru, NEW ti, NEW old, NEW es, Good(es, fl, ru, ti), NEW r, NEW found
  PROVE  Good(complete(old, es, r, found).entries, fl, ru, ti)
<1> DEFINE touched == touch_current_root(IF old = None THEN <<>> ELSE old.roots, r)
           evicted == ToSet(touched) \ ToSet(kept_roots(touched))
           gone(k) == withdrawn(k, r, found, evicted)
           less(k) == without_claims(es[k], gone(k))
           left == [k \in Keys |-> IF es[k] = None THEN None ELSE drop_unclaimed(less(k))]
<1>1. complete(old, es, r, found).entries = left
  BY DEF complete
<1>2. ASSUME NEW k \in Keys, es[k] # None
      PROVE  less(k) \in Entries /\ SoundIn(less(k), fl, ru, ti)
  <2> DEFINE g == gone(k)
  <2> HIDE DEF g
  <2>1. es[k] \in Entries /\ SoundIn(es[k], fl, ru, ti)
    BY <1>2 DEF Good
  <2> DEFINE e == es[k]
             w == without_claims(e, g)
  <2> HIDE DEF e
  <2>2. e \in Entries /\ SoundIn(e, fl, ru, ti)
    BY <2>1 DEF e
  <2>3. /\ w.file_sha256 = e.file_sha256 /\ w.payload = e.payload
        /\ w.stats = [q \in Roots |-> IF q \in g THEN None ELSE e.stats[q]]
        /\ w \in Entries
    BY <2>2 DEF without_claims, Entries
  <2>4. \A q \in Roots : w.stats[q] # None => Vouches(w.stats[q], w.payload, fl, ru, ti)
    BY <2>2, <2>3 DEF SoundIn
  <2> HIDE DEF w
  <2>5. SoundIn(w, fl, ru, ti)
    BY <2>2, <2>3, <2>4 DEF SoundIn
  <2> QED BY <2>3, <2>5 DEF w, e, g
<1>3. ASSUME NEW k \in Keys
      PROVE  left[k] \in Entries \cup {None} /\ (left[k] # None => SoundIn(left[k], fl, ru, ti))
  BY <1>2 DEF drop_unclaimed
<1> HIDE DEF left
<1>4. left \in [Keys -> Entries \cup {None}]
  BY <1>3 DEF left
<1> QED BY <1>1, <1>3, <1>4 DEF Good

\* A rewrite takes nothing away from what a stat vouches for: under a new
\* stamp the file no longer has the stat, under an old one it is in ru.
LEMMA WriteGood ==
  ASSUME NEW fl \in [Files -> [bytes : Bytes, stamp : Nat]], NEW ru \in SUBSET Files,
         NEW ti \in [Files -> Nat],
         NEW f \in Files, NEW b \in Bytes, NEW t \in Nat,
         NEW es, Good(es, fl, ru, ti)
  PROVE  Good(es, [fl EXCEPT ![f] = [bytes |-> b, stamp |-> t]],
              IF t <= ti[f] THEN ru \cup {f} ELSE ru,
              [ti EXCEPT ![f] = IF t <= ti[f] THEN @ ELSE t])
<1> DEFINE fl2 == [fl EXCEPT ![f] = [bytes |-> b, stamp |-> t]]
           ru2 == IF t <= ti[f] THEN ru \cup {f} ELSE ru
           ti2 == [ti EXCEPT ![f] = IF t <= ti[f] THEN @ ELSE t]
<1>1. ASSUME NEW st \in Stats, NEW x, Vouches(st, x, fl, ru, ti)
      PROVE  Vouches(st, x, fl2, ru2, ti2)
  <2>1. st.id \in Files /\ st.stamp \in Nat /\ st.stamp <= ti[st.id]
    BY <1>1 DEF Stats, Vouches
  <2>2. st.stamp <= ti2[st.id]
    BY <2>1
  <2>3. CASE st.id # f
    <3>1. fl2[st.id] = fl[st.id] /\ (st.id \in ru => st.id \in ru2)
      BY <2>1, <2>3
    <3> QED BY <1>1, <2>2, <3>1 DEF Vouches
  <2>4. CASE st.id = f /\ t <= ti[f]
    BY <2>2, <2>4 DEF Vouches
  <2>5. CASE st.id = f /\ ~ (t <= ti[f])
    <3>1. fl2[st.id].stamp = t
      BY <2>1, <2>5
    <3>2. fl2[st.id].stamp # st.stamp
      BY <2>1, <2>5, <3>1
    <3> QED BY <2>2, <3>2 DEF Vouches
  <2> QED BY <2>3, <2>4, <2>5
<1> HIDE DEF fl2, ru2, ti2
<1>2. ASSUME NEW k \in Keys, es[k] # None
      PROVE  SoundIn(es[k], fl2, ru2, ti2)
  <2>1. es[k] \in Entries /\ SoundIn(es[k], fl, ru, ti)
    BY <1>2 DEF Good
  <2> DEFINE e == es[k]
  <2> HIDE DEF e
  <2>2. e \in Entries /\ SoundIn(e, fl, ru, ti)
    BY <2>1 DEF e
  <2>3. ASSUME NEW r \in Roots, e.stats[r] # None
        PROVE  Vouches(e.stats[r], e.payload, fl2, ru2, ti2)
    <3>1. e.stats[r] \in Stats
      BY <2>2, <2>3 DEF Entries
    <3>2. Vouches(e.stats[r], e.payload, fl, ru, ti)
      BY <2>2, <2>3 DEF SoundIn
    <3> QED BY <3>1, <3>2, <1>1
  <2>4. SoundIn(e, fl2, ru2, ti2)
    BY <2>2, <2>3 DEF SoundIn
  <2> QED BY <2>4 DEF e
<1>3. Good(es, fl2, ru2, ti2)
  BY <1>2 DEF Good
<1> QED BY <1>3 DEF fl2, ru2, ti2

(***************************************************************************)
(* The inductive invariant.                                                 *)
(***************************************************************************)
Shape ==
  /\ file \in [Files -> [bytes : Bytes, stamp : Nat]]
  /\ path \in [Roots -> [Keys -> Files \cup {None}]]
  /\ phase \in [Processes -> Phases]
  /\ command \in [Processes -> Commands]
  /\ todo \in [Processes -> SUBSET Keys]
  /\ handle \in [Processes -> Stats \cup {None}]
  /\ baseline = [p \in Processes |-> baseline[p]]
  /\ entries \in [Processes -> [Keys -> Entries \cup {None}]]
  /\ result \in [Processes -> [Keys -> Facts \cup {None}]]
  /\ denied \in SUBSET Files
  /\ reused \in SUBSET Files
  /\ ticks \in [Files -> Nat]

\* No stat is from the future: not a file's, not an open document's.
Timely ==
  /\ \A f \in Files : file[f].stamp <= ticks[f]
  /\ \A p \in Processes : handle[p] # None => handle[p].stamp <= ticks[handle[p].id]

\* A cache file, or none, whose entries are sound.
GoodFile(c, fl, ru, ti) == c # None => Good(c.entries, fl, ru, ti)

AllGood ==
  /\ GoodFile(slot, file, reused, ticks)
  /\ \A p \in Processes : GoodFile(baseline[p], file, reused, ticks)
  /\ \A p \in Processes : Good(entries[p], file, reused, ticks)

\* What a command has in its hands in each phase.
Working ==
  \A p \in Processes :
    /\ phase[p] \notin Idle => command[p].root \in Roots
    /\ phase[p] \in {"stat", "open", "read"} => todo[p] # {}
    /\ phase[p] = "read" <=> handle[p] # None
    /\ phase[p] = "stat" => /\ command[p].trust
                            /\ entries[p][doc(p)] # None
                            /\ entries[p][doc(p)].stats[command[p].root] # None

CacheInv == Shape /\ Timely /\ AllGood /\ Working

LEMMA InitInv == Init => CacheInv
<1> SUFFICES ASSUME Init PROVE CacheInv
  OBVIOUS
<1> USE DEF Init
<1>1. Shape
  <2>1. NoCommand \in Commands
    BY DEF NoCommand, Commands
  <2>2. file \in [Files -> [bytes : Bytes, stamp : Nat]] /\ path \in [Roots -> [Keys -> Files \cup {None}]]
    BY CheckoutAssumption
  <2> QED BY <2>1, <2>2 DEF Shape, Phases, Idle, NoEntries
<1>2. Timely
  BY DEF Timely
<1>3. AllGood
  BY NoneGood DEF AllGood, GoodFile
<1>4. Working
  BY DEF Working, Idle
<1> QED BY <1>1, <1>2, <1>3, <1>4 DEF CacheInv

\* The document at hand is one of the checkout's.
LEMMA DocType ==
  ASSUME Shape, Working, NEW p \in Processes, phase[p] \in {"stat", "open", "read"}
  PROVE  /\ doc(p) \in Keys /\ doc(p) \in todo[p]
         /\ Reached(p) \in Files \cup {None}
         /\ command[p].root \in Roots
<1>1. todo[p] \in SUBSET Keys /\ todo[p] # {}
  BY DEF Shape, Working
<1>2. First(todo[p]) \in todo[p]
  BY <1>1, FirstIn
<1>3. command[p].root \in Roots
  BY DEF Working, Idle
<1> QED BY <1>1, <1>2, <1>3 DEF doc, Reached, Shape

\* The tier of the next document is one the command can take.
LEMMA Tier ==
  ASSUME NEW p, NEW es, NEW k
  PROVE  /\ FirstTier(p, es, k) \in {"stat", "open"}
         /\ FirstTier(p, es, k) = "stat" =>
              /\ command'[p].trust /\ es[k] # None
              /\ es[k].stats[command'[p].root] # None
  BY DEF FirstTier

LEMMA LoadInv ==
  ASSUME CacheInv, NEW p \in Processes, phase[p] \in {"stat", "open", "read"},
         NEW x \in Facts, NEW es, Good(es, file, reused, ticks), Load(p, x, es)
  PROVE  CacheInv'
<1> USE DEF CacheInv
<1>1. doc(p) \in Keys /\ command[p].root \in Roots
  BY DocType
<1> DEFINE rest == todo[p] \ {doc(p)}
           next == IF rest = {} THEN "build" ELSE FirstTier(p, es, First(rest))
<1>2. /\ result' = [result EXCEPT ![p][doc(p)] = x]
      /\ entries' = [entries EXCEPT ![p] = es]
      /\ handle' = [handle EXCEPT ![p] = None]
      /\ todo' = [todo EXCEPT ![p] = rest]
      /\ phase' = [phase EXCEPT ![p] = next]
      /\ UNCHANGED <<file, path, denied, reused, ticks, slot, command, baseline>>
  BY DEF Load, Proceed, disk
<1>3. next \in {"build", "stat", "open"}
  BY Tier
<1>4. next = "stat" => /\ rest # {} /\ command'[p].trust /\ es[First(rest)] # None
                       /\ es[First(rest)].stats[command'[p].root] # None
  BY Tier
<1>5. next # "build" => rest # {}
  BY Tier
<1>6. es \in [Keys -> Entries \cup {None}]
  BY DEF Good
<1> HIDE DEF next
<1>7. rest \in SUBSET Keys
  BY DEF Shape
<1> HIDE DEF rest
<1>8. Shape'
  BY <1>1, <1>2, <1>3, <1>6, <1>7 DEF Shape, Phases
<1>9. Timely'
  BY <1>2 DEF Timely, Shape
<1>10. AllGood'
  BY <1>2 DEF AllGood, Shape
<1>11. Working'
  <2> SUFFICES ASSUME NEW q \in Processes
      PROVE  /\ phase'[q] \notin Idle => command'[q].root \in Roots
             /\ phase'[q] \in {"stat", "open", "read"} => todo'[q] # {}
             /\ phase'[q] = "read" <=> handle'[q] # None
             /\ phase'[q] = "stat" => /\ command'[q].trust
                                      /\ entries'[q][First(todo'[q])] # None
                                      /\ entries'[q][First(todo'[q])].stats[command'[q].root] # None
    BY DEF Working, doc
  <2>1. CASE q = p
    <3>1. phase'[p] = next /\ todo'[p] = rest /\ handle'[p] = None /\ entries'[p] = es
      BY <1>2 DEF Shape
    <3> QED BY <2>1, <3>1, <1>1, <1>2, <1>3, <1>4, <1>5
  <2>2. CASE q # p
    <3>1. /\ phase'[q] = phase[q] /\ todo'[q] = todo[q] /\ handle'[q] = handle[q]
          /\ entries'[q] = entries[q] /\ command'[q] = command[q]
      BY <2>2, <1>2 DEF Shape
    <3> QED BY <3>1 DEF Working, doc
  <2> QED BY <2>1, <2>2
<1> QED BY <1>8, <1>9, <1>10, <1>11

LEMMA EndInv ==
  ASSUME CacheInv, NEW p \in Processes, NEW how \in Idle, End(p, how),
         GoodFile(slot', file, reused, ticks)
  PROVE  CacheInv'
<1> USE DEF CacheInv
<1>1. /\ phase' = [phase EXCEPT ![p] = how]
      /\ todo' = [todo EXCEPT ![p] = {}]
      /\ handle' = [handle EXCEPT ![p] = None]
      /\ baseline' = [baseline EXCEPT ![p] = None]
      /\ entries' = [entries EXCEPT ![p] = NoEntries]
      /\ result' = [result EXCEPT ![p] = NoEntries]
      /\ command' = [command EXCEPT ![p] = NoCommand]
      /\ UNCHANGED <<file, path, denied, reused, ticks>>
  BY DEF End, disk
<1>2. NoCommand \in Commands
  BY DEF NoCommand, Commands
<1>3. Shape'
  BY <1>1, <1>2 DEF Shape, Phases, NoEntries
<1>4. Timely'
  BY <1>1 DEF Timely, Shape
<1>5. AllGood'
  BY <1>1, NoneGood DEF AllGood, Shape, GoodFile
<1>6. Working'
  <2> SUFFICES ASSUME NEW q \in Processes
      PROVE  /\ phase'[q] \notin Idle => command'[q].root \in Roots
             /\ phase'[q] \in {"stat", "open", "read"} => todo'[q] # {}
             /\ phase'[q] = "read" <=> handle'[q] # None
             /\ phase'[q] = "stat" => /\ command'[q].trust
                                      /\ entries'[q][First(todo'[q])] # None
                                      /\ entries'[q][First(todo'[q])].stats[command'[q].root] # None
    BY DEF Working, doc
  <2>1. CASE q = p
    <3>1. phase'[p] = how /\ handle'[p] = None
      BY <1>1 DEF Shape
    <3> QED BY <2>1, <3>1 DEF Idle
  <2>2. CASE q # p
    <3>1. /\ phase'[q] = phase[q] /\ todo'[q] = todo[q] /\ handle'[q] = handle[q]
          /\ entries'[q] = entries[q] /\ command'[q] = command[q]
      BY <2>2, <1>1 DEF Shape
    <3> QED BY <3>1 DEF Working, doc
  <2> QED BY <2>1, <2>2
<1> QED BY <1>3, <1>4, <1>5, <1>6

LEMMA StepInv ==
  ASSUME CacheInv, NEW p \in Processes, Step(p)
  PROVE  CacheInv'
<1> USE DEF CacheInv
<1>0. UNCHANGED <<file, path, denied, reused, ticks>>
  BY DEF Step, Begin, StatHit, StatMiss, Open, Unreadable, VerifiedHit, Miss, ParseFails, Build,
         BuildFails, Save, Load, End, disk
<1>e. Good(entries[p], file, reused, ticks) /\ entries[p] \in [Keys -> Entries \cup {None}]
  BY DEF AllGood, Good
<1>r. phase[p] = "read" => /\ handle[p] \in Stats /\ handle[p].id \in Files
                           /\ handle[p].stamp <= ticks[handle[p].id]
                           /\ file[handle[p].id].bytes \in Bytes
  BY DEF Working, Timely, Shape, Stats
<1>1. ASSUME NEW r \in Roots, NEW v \in BOOLEAN, NEW w \in BOOLEAN, Begin(p, r, v, w)
      PROVE  CacheInv'
  <2> DEFINE es == IF slot = None THEN NoEntries ELSE slot.entries
             found == {k \in Keys : path[r][k] # None}
             next == IF found = {} THEN "build" ELSE FirstTier(p, es, First(found))
             made == [root |-> r, trust |-> cache_trust_stat /\ ~v, persist |-> w]
  <2>1. /\ command' = [command EXCEPT ![p] = made]
        /\ baseline' = [baseline EXCEPT ![p] = slot]
        /\ entries' = [entries EXCEPT ![p] = es]
        /\ todo' = [todo EXCEPT ![p] = found]
        /\ phase' = [phase EXCEPT ![p] = next]
        /\ phase[p] \in Idle
        /\ UNCHANGED <<slot, handle, result>>
    BY <1>1 DEF Begin, Proceed
  <2>2. Good(es, file, reused, ticks)
    BY NoneGood DEF AllGood, GoodFile
  <2>3. es \in [Keys -> Entries \cup {None}]
    BY <2>2 DEF Good
  <2>4. next \in {"build", "stat", "open"} /\ (next # "build" => found # {})
    BY Tier
  <2>5. next = "stat" => /\ command'[p].trust /\ es[First(found)] # None
                         /\ es[First(found)].stats[command'[p].root] # None
    BY Tier
  <2>6. made \in Commands /\ made.root = r
    BY CacheBoundsAssumption DEF Commands
  <2>7. command'[p].root = r
    BY <2>1, <2>6 DEF Shape
  <2>h. handle[p] = None
    BY <2>1 DEF Working, Idle
  <2> HIDE DEF es, next, made
  <2>8. found \in SUBSET Keys
    OBVIOUS
  <2> HIDE DEF found
  <2>9. Shape'
    BY <1>0, <2>1, <2>3, <2>4, <2>6, <2>8 DEF Shape, Phases
  <2>10. Timely'
    BY <1>0, <2>1 DEF Timely
  <2>11. AllGood'
    BY <1>0, <2>1, <2>2 DEF AllGood, Shape
  <2>12. Working'
    <3> SUFFICES ASSUME NEW q \in Processes
        PROVE  /\ phase'[q] \notin Idle => command'[q].root \in Roots
               /\ phase'[q] \in {"stat", "open", "read"} => todo'[q] # {}
               /\ phase'[q] = "read" <=> handle'[q] # None
               /\ phase'[q] = "stat" => /\ command'[q].trust
                                        /\ entries'[q][First(todo'[q])] # None
                                        /\ entries'[q][First(todo'[q])].stats[command'[q].root] # None
      BY DEF Working, doc
    <3>1. CASE q = p
      <4>1. phase'[p] = next /\ todo'[p] = found /\ handle'[p] = None /\ entries'[p] = es
        BY <2>1, <2>h DEF Shape
      <4> QED BY <3>1, <4>1, <2>4, <2>5, <2>7
    <3>2. CASE q # p
      <4>1. /\ phase'[q] = phase[q] /\ todo'[q] = todo[q] /\ handle'[q] = handle[q]
            /\ entries'[q] = entries[q] /\ command'[q] = command[q]
        BY <3>2, <2>1 DEF Shape
      <4> QED BY <4>1 DEF Working, doc
    <3> QED BY <3>1, <3>2
  <2> QED BY <2>9, <2>10, <2>11, <2>12
<1>2. CASE StatHit(p)
  <2>1. doc(p) \in Keys /\ entries[p][doc(p)] # None
    BY <1>2, DocType DEF StatHit, Working
  <2>2. entries[p][doc(p)].payload \in Facts
    BY <2>1, <1>e DEF Entries
  <2> QED BY <1>2, <2>2, <1>e, LoadInv DEF StatHit
<1>3. CASE StatMiss(p)
  <2>1. phase' = [phase EXCEPT ![p] = "open"] /\ phase[p] = "stat"
    BY <1>3 DEF StatMiss
  <2>2. UNCHANGED <<file, path, slot, command, todo, handle, baseline, entries, result,
                    denied, reused, ticks>>
    BY <1>3 DEF StatMiss, progress, disk
  <2>3. Working'
    <3> SUFFICES ASSUME NEW q \in Processes
        PROVE  /\ phase'[q] \notin Idle => command[q].root \in Roots
               /\ phase'[q] \in {"stat", "open", "read"} => todo[q] # {}
               /\ phase'[q] = "read" <=> handle[q] # None
               /\ phase'[q] = "stat" => /\ command[q].trust
                                        /\ entries[q][First(todo[q])] # None
                                        /\ entries[q][First(todo[q])].stats[command[q].root] # None
      BY <2>2 DEF Working, doc
    <3> QED BY <2>1 DEF Working, doc, Shape, Idle
  <2> QED BY <2>1, <2>2, <2>3 DEF Shape, Phases, Timely, AllGood
<1>4. CASE Open(p)
  <2> DEFINE st == stat_record(Reached(p))
  <2>1. phase' = [phase EXCEPT ![p] = "read"] /\ phase[p] = "open"
        /\ handle' = [handle EXCEPT ![p] = st] /\ Reached(p) # None
    BY <1>4 DEF Open
  <2>2. UNCHANGED <<file, path, slot, command, todo, baseline, entries, result, denied, reused, ticks>>
    BY <1>4 DEF Open, disk
  <2>3. Reached(p) \in Files
    BY <2>1, DocType
  <2>4. st \in Stats /\ st.stamp <= ticks[st.id]
    BY <2>3 DEF stat_record, Stats, Timely, Shape
  <2>5. st # None
    BY <2>4, ValuesAssumption
  <2> HIDE DEF st
  <2>6. Working'
    <3> SUFFICES ASSUME NEW q \in Processes
        PROVE  /\ phase'[q] \notin Idle => command[q].root \in Roots
               /\ phase'[q] \in {"stat", "open", "read"} => todo[q] # {}
               /\ phase'[q] = "read" <=> handle'[q] # None
               /\ phase'[q] = "stat" => /\ command[q].trust
                                        /\ entries[q][First(todo[q])] # None
                                        /\ entries[q][First(todo[q])].stats[command[q].root] # None
      BY <2>2 DEF Working, doc
    <3> QED BY <2>1, <2>5 DEF Working, doc, Shape, Idle
  <2>7. Timely'
    BY <2>1, <2>2, <2>4 DEF Timely, Shape
  <2> QED BY <2>1, <2>2, <2>4, <2>6, <2>7 DEF Shape, Phases, AllGood
<1>5. CASE Unreadable(p)
  BY <1>5, EndInv DEF Unreadable, Idle, AllGood
<1>6. CASE VerifiedHit(p)
  <2> DEFINE e == entries[p][doc(p)]
             b == file[handle[p].id].bytes
  <2>1. doc(p) \in Keys /\ command[p].root \in Roots /\ phase[p] = "read"
    BY <1>6, DocType DEF VerifiedHit
  <2>2. e # None /\ e.file_sha256 = b
    BY <1>6 DEF VerifiedHit, Verified
  <2>3. e \in Entries /\ SoundIn(e, file, reused, ticks)
    BY <2>1, <2>2, <1>e DEF Good
  <2>4. e.payload \in Facts /\ Parse[b] = e.payload
    BY <2>2, <2>3 DEF Entries, SoundIn
  <2>5. Vouches(handle[p], e.payload, file, reused, ticks)
    BY <2>1, <2>4, <1>r DEF Vouches
  <2>6. Good([entries[p] EXCEPT ![doc(p)] = claim(@, command[p].root, handle[p])], file, reused, ticks)
    BY <2>1, <2>2, <2>5, <1>e, <1>r, ClaimGood
  <2> QED BY <1>6, <2>1, <2>4, <2>6, LoadInv DEF VerifiedHit
<1>7. CASE Miss(p)
  <2> DEFINE b == file[handle[p].id].bytes
  <2>1. doc(p) \in Keys /\ command[p].root \in Roots /\ phase[p] = "read" /\ Parse[b] # Malformed
    BY <1>7, DocType DEF Miss
  <2>2. Parse[b] \in Facts
    BY <2>1, <1>r, ParseAssumption
  <2>3. Vouches(handle[p], Parse[b], file, reused, ticks)
    BY <2>1, <1>r DEF Vouches
  <2>4. Good([entries[p] EXCEPT ![doc(p)] = make_entry(b, handle[p], command[p].root)],
             file, reused, ticks)
    BY <2>1, <2>3, <1>e, <1>r, FreshGood
  <2> QED BY <1>7, <2>1, <2>2, <2>4, LoadInv DEF Miss
<1>8. CASE ParseFails(p)
  BY <1>8, EndInv DEF ParseFails, Idle, AllGood
<1>9. CASE Build(p)
  <2>1. phase' = [phase EXCEPT ![p] = "save"] /\ phase[p] = "build"
    BY <1>9 DEF Build
  <2>2. UNCHANGED <<file, path, slot, command, todo, handle, baseline, entries, result,
                    denied, reused, ticks>>
    BY <1>9 DEF Build, progress, disk
  <2>3. Working'
    <3> SUFFICES ASSUME NEW q \in Processes
        PROVE  /\ phase'[q] \notin Idle => command[q].root \in Roots
               /\ phase'[q] \in {"stat", "open", "read"} => todo[q] # {}
               /\ phase'[q] = "read" <=> handle[q] # None
               /\ phase'[q] = "stat" => /\ command[q].trust
                                        /\ entries[q][First(todo[q])] # None
                                        /\ entries[q][First(todo[q])].stats[command[q].root] # None
      BY <2>2 DEF Working, doc
    <3> QED BY <2>1 DEF Working, doc, Shape, Idle
  <2> QED BY <2>1, <2>2, <2>3 DEF Shape, Phases, Timely, AllGood
<1>10. CASE BuildFails(p)
  BY <1>10, EndInv DEF BuildFails, Idle, AllGood
<1>11. CASE Save(p)
  <2>1. Good(Final(p).entries, file, reused, ticks)
    BY <1>e, CompleteGood DEF Final
  <2>2. slot' = slot \/ slot' = Final(p)
    BY <1>11 DEF Save
  <2>3. GoodFile(slot', file, reused, ticks)
    BY <2>1, <2>2 DEF AllGood, GoodFile
  <2> QED BY <1>11, <2>3, EndInv DEF Save, Idle
<1> QED BY <1>1, <1>2, <1>3, <1>4, <1>5, <1>6, <1>7, <1>8, <1>9, <1>10, <1>11 DEF Step

LEMMA EnvironmentInv ==
  ASSUME CacheInv, Environment
  PROVE  CacheInv'
<1> USE DEF CacheInv
<1>1. ASSUME NEW p \in Processes, Kill(p) PROVE CacheInv'
  BY <1>1, EndInv DEF Kill, Idle, AllGood
<1>2. ASSUME NEW f \in Files, NEW b \in Bytes, NEW t \in 0..(ticks[f] + 1), Write(f, b, t)
      PROVE  CacheInv'
  <2>1. t \in Nat
    BY DEF Shape
  <2>2. /\ file' = [file EXCEPT ![f] = [bytes |-> b, stamp |-> t]]
        /\ reused' = IF t <= ticks[f] THEN reused \cup {f} ELSE reused
        /\ ticks' = [ticks EXCEPT ![f] = IF t <= ticks[f] THEN @ ELSE t]
        /\ UNCHANGED <<path, denied, slot, phase, command, todo, handle, baseline, entries, result>>
    BY <1>2 DEF Write, progress
  <2>3. \A es : Good(es, file, reused, ticks) => Good(es, file', reused', ticks')
    BY <2>1, <2>2, WriteGood DEF Shape
  <2>4. Shape'
    BY <2>1, <2>2 DEF Shape
  <2>5. Timely'
    <3>1. \A g \in Files : file'[g].stamp <= ticks'[g]
      BY <2>1, <2>2 DEF Timely, Shape
    <3>2. \A g \in Files : ticks[g] <= ticks'[g] /\ ticks[g] \in Nat /\ ticks'[g] \in Nat
      BY <2>1, <2>2 DEF Shape
    <3>3. ASSUME NEW p \in Processes, handle[p] # None
          PROVE  handle[p].stamp <= ticks'[handle[p].id]
      <4>1. handle[p].stamp \in Nat /\ handle[p].id \in Files /\ handle[p].stamp <= ticks[handle[p].id]
        BY <3>3 DEF Timely, Shape, Stats
      <4> QED BY <4>1, <3>2
    <3> QED BY <3>1, <3>3, <2>2 DEF Timely
  <2>6. AllGood'
    BY <2>2, <2>3 DEF AllGood, GoodFile
  <2>7. Working'
    BY <2>2 DEF Working, doc
  <2> QED BY <2>4, <2>5, <2>6, <2>7
<1>3. ASSUME NEW r \in Roots, NEW k \in Keys, NEW f \in Files \cup {None}, Link(r, k, f)
      PROVE  CacheInv'
  <2>1. /\ path' = [path EXCEPT ![r][k] = f]
        /\ UNCHANGED <<file, denied, reused, ticks, slot, phase, command, todo, handle, baseline,
                       entries, result>>
    BY <1>3 DEF Link, progress
  <2> QED BY <2>1 DEF Shape, Timely, AllGood, Working, doc
<1>4. CASE Discard
  <2>1. slot' = None /\ UNCHANGED <<file, path, denied, reused, ticks, phase, command, todo, handle,
                                    baseline, entries, result>>
    BY <1>4 DEF Discard, progress, disk
  <2> QED BY <2>1 DEF Shape, Timely, AllGood, GoodFile, Working, doc
<1>5. ASSUME NEW f \in Files, Chmod(f) PROVE CacheInv'
  <2>1. /\ denied' = IF f \in denied THEN denied \ {f} ELSE denied \cup {f}
        /\ UNCHANGED <<file, path, reused, ticks, slot, phase, command, todo, handle, baseline,
                       entries, result>>
    BY <1>5 DEF Chmod, progress
  <2> QED BY <2>1 DEF Shape, Timely, AllGood, Working, doc
<1> QED BY <1>1, <1>2, <1>3, <1>4, <1>5 DEF Environment

LEMMA CacheInvAlways == Spec => []CacheInv
<1>1. CacheInv /\ [Next]_vars => CacheInv'
  <2> SUFFICES ASSUME CacheInv, [Next]_vars PROVE CacheInv'
    OBVIOUS
  <2>1. CASE UNCHANGED vars
    BY <2>1 DEF vars, progress, disk, CacheInv, Shape, Timely, AllGood, Working, doc
  <2> QED BY <2>1, StepInv, EnvironmentInv DEF Next
<1> QED BY <1>1, InitInv, PTL DEF Spec

\* No claim in the slot or in a command's memory vouches for other bytes than
\* the file holds, unless the file was rewritten under a stamp it had before.
THEOREM ClaimsNeverMislead == Spec => []ClaimsAreSound
<1>1. CacheInv => ClaimsAreSound
  <2> SUFFICES ASSUME CacheInv PROVE ClaimsAreSound
    OBVIOUS
  <2>1. ASSUME NEW es, Good(es, file, reused, ticks), NEW k \in Keys, es[k] # None
        PROVE  Sound(es[k])
    <3> DEFINE e == es[k]
    <3>1. e \in Entries /\ SoundIn(e, file, reused, ticks)
      BY <2>1 DEF Good
    <3> HIDE DEF e
    <3>2. Sound(e)
      BY <3>1 DEF Sound, SoundIn, Vouches
    <3> QED BY <3>2 DEF e
  <2>2. ASSUME NEW c \in Sources \ {None}, NEW k \in Keys, c.entries[k] # None
        PROVE  Sound(c.entries[k])
    <3>1. Good(c.entries, file, reused, ticks)
      BY <2>2 DEF Sources, CacheInv, AllGood, GoodFile
    <3> QED BY <3>1, <2>1, <2>2
  <2>3. ASSUME NEW p \in Processes, NEW k \in Keys, entries[p][k] # None
        PROVE  Sound(entries[p][k])
    BY <2>1, <2>3 DEF CacheInv, AllGood
  <2> QED BY <2>2, <2>3 DEF ClaimsAreSound
<1> QED BY <1>1, CacheInvAlways, PTL

(***************************************************************************)
(* The cached load implements the uncached one.                             *)
(***************************************************************************)
bytesU == [f \in Files |-> file[f].bytes]
phaseU == [p \in Processes |-> UncachedPhase(phase[p])]
rootU == [p \in Processes |-> command[p].root]
trustingU == [p \in Processes |-> command[p].trust]
openedU == [p \in Processes |-> OpenFile(handle[p])]

LEMMA SameNames ==
  /\ Uncached!Keys = Keys
  /\ \A S : Uncached!First(S) = First(S)
  BY DEF Uncached!Keys, Keys, Uncached!First, First

LEMMA InitMaps == Init => Uncached!UInit
<1> SUFFICES ASSUME Init PROVE Uncached!UInit
  OBVIOUS
<1>1. bytesU \in [Files -> Bytes]
  BY CheckoutAssumption DEF Init, bytesU
<1>2. path \in [Roots -> [Keys -> Files \cup {None}]]
  BY CheckoutAssumption DEF Init
<1>3. phaseU = [p \in Processes |-> "ready"]
  BY DEF Init, phaseU, UncachedPhase
<1>4. openedU = [p \in Processes |-> None]
  BY DEF Init, openedU, OpenFile
<1>5. rootU = [p \in Processes |-> None] /\ trustingU = [p \in Processes |-> FALSE]
  BY DEF Init, rootU, trustingU, NoCommand
<1>6. result = [p \in Processes |-> [k \in Keys |-> None]]
  BY DEF Init, NoEntries
<1> QED BY <1>1, <1>2, <1>3, <1>4, <1>5, <1>6, SameNames
        DEF Uncached!UInit, Init, bytesU, phaseU, openedU, rootU, trustingU

\* What a change of one command does to the mapped state.
LEMMA Moves ==
  ASSUME NEW p \in Processes, NEW v
  PROVE  /\ phase' = [phase EXCEPT ![p] = v] /\ phase \in [Processes -> Phases]
              => phaseU' = [phaseU EXCEPT ![p] = UncachedPhase(v)]
         /\ handle' = [handle EXCEPT ![p] = v] /\ handle \in [Processes -> Stats \cup {None}]
              => openedU' = [openedU EXCEPT ![p] = OpenFile(v)]
         /\ command' = [command EXCEPT ![p] = v] /\ command \in [Processes -> Commands]
              => /\ rootU' = [rootU EXCEPT ![p] = v.root]
                 /\ trustingU' = [trustingU EXCEPT ![p] = v.trust]
<1>1. ASSUME phase' = [phase EXCEPT ![p] = v], phase \in [Processes -> Phases]
      PROVE  phaseU' = [phaseU EXCEPT ![p] = UncachedPhase(v)]
  BY <1>1 DEF phaseU
<1>2. ASSUME handle' = [handle EXCEPT ![p] = v], handle \in [Processes -> Stats \cup {None}]
      PROVE  openedU' = [openedU EXCEPT ![p] = OpenFile(v)]
  BY <1>2 DEF openedU
<1>3. ASSUME command' = [command EXCEPT ![p] = v], command \in [Processes -> Commands]
      PROVE  /\ rootU' = [rootU EXCEPT ![p] = v.root]
             /\ trustingU' = [trustingU EXCEPT ![p] = v.trust]
  BY <1>3 DEF rootU, trustingU
<1> QED BY <1>1, <1>2, <1>3

\* A command whose files stay as they are.
LEMMA Stays ==
  /\ UNCHANGED file => UNCHANGED bytesU
  /\ UNCHANGED command => UNCHANGED <<rootU, trustingU>>
  /\ UNCHANGED phase => UNCHANGED phaseU
  /\ UNCHANGED handle => UNCHANGED openedU
  BY DEF bytesU, rootU, trustingU, phaseU, openedU

\* The actions of the uncached load, over the mapped state.
LEMMA StartForm ==
  ASSUME NEW p \in Processes, NEW r \in Roots, NEW t \in BOOLEAN,
         phaseU[p] \in Uncached!Idle,
         rootU' = [rootU EXCEPT ![p] = r],
         trustingU' = [trustingU EXCEPT ![p] = t],
         todo' = [todo EXCEPT ![p] = {k \in Uncached!Keys : path[r][k] # None}],
         phaseU' = [phaseU EXCEPT ![p] = IF todo'[p] = {} THEN "build" ELSE "load"],
         UNCHANGED <<bytesU, path, denied, reused, openedU, result>>
  PROVE  Uncached!Start(p, r, t)
  BY Zenon DEF Uncached!Start, phaseU, openedU, rootU, trustingU, bytesU

LEMMA AnswerForm ==
  ASSUME NEW p \in Processes, NEW x \in Facts, NEW f \in Files,
         f = IF openedU[p] # None THEN openedU[p] ELSE path[rootU[p]][Uncached!First(todo[p])],
         phaseU[p] = "load",
         f # None,
         openedU[p] = None /\ f \in denied => trustingU[p],
         x = Parse[bytesU[f]] \/ (trustingU[p] /\ openedU[p] = None /\ f \in reused),
         result' = [result EXCEPT ![p][Uncached!First(todo[p])] = x],
         todo' = [todo EXCEPT ![p] = todo[p] \ {Uncached!First(todo[p])}],
         phaseU' = [phaseU EXCEPT ![p] = IF todo'[p] = {} THEN "build" ELSE "load"],
         openedU' = [openedU EXCEPT ![p] = None],
         UNCHANGED <<bytesU, path, denied, reused, rootU, trustingU>>
  PROVE  Uncached!Answer(p, x)
  BY Zenon DEF Uncached!Answer, Uncached!Current, phaseU, openedU, rootU, trustingU, bytesU

LEMMA EndForm ==
  ASSUME NEW p \in Processes, NEW how \in Idle,
         phaseU' = [phaseU EXCEPT ![p] = how],
         todo' = [todo EXCEPT ![p] = {}],
         openedU' = [openedU EXCEPT ![p] = None],
         result' = [result EXCEPT ![p] = [k \in Uncached!Keys |-> None]],
         rootU' = [rootU EXCEPT ![p] = None],
         trustingU' = [trustingU EXCEPT ![p] = FALSE],
         UNCHANGED <<bytesU, path, denied, reused>>
  PROVE  Uncached!End(p, how)
  BY Zenon DEF Uncached!End, phaseU, openedU, rootU, trustingU, bytesU

LEMMA OpenForm ==
  ASSUME NEW p \in Processes,
         phaseU[p] = "load" /\ openedU[p] = None,
         path[rootU[p]][Uncached!First(todo[p])] \notin {None} \cup denied,
         openedU' = [openedU EXCEPT ![p] = path[rootU[p]][Uncached!First(todo[p])]],
         UNCHANGED <<bytesU, path, denied, reused, phaseU, rootU, trustingU, todo, result>>
  PROVE  Uncached!Open(p)
  BY Zenon DEF Uncached!Open, phaseU, openedU, rootU, trustingU, bytesU

LEMMA RefuseForm ==
  ASSUME NEW p \in Processes, Uncached!End(p, "error"),
         \/ phaseU[p] = "build"
         \/ phaseU[p] = "load" /\ openedU[p] = None /\ path[rootU[p]][Uncached!First(todo[p])] \in {None} \cup denied
         \/ phaseU[p] = "load" /\ openedU[p] # None /\ Parse[bytesU[openedU[p]]] = Malformed
  PROVE  Uncached!Refuse(p)
  BY Zenon DEF Uncached!Refuse, Uncached!Current, phaseU, openedU, rootU, trustingU, bytesU

LEMMA BuildForm ==
  ASSUME NEW p \in Processes,
         phaseU[p] = "build",
         phaseU' = [phaseU EXCEPT ![p] = "built"],
         UNCHANGED <<bytesU, path, denied, reused, rootU, trustingU, todo, openedU, result>>
  PROVE  Uncached!Build(p)
  BY Zenon DEF Uncached!Build, phaseU, openedU, rootU, trustingU, bytesU

LEMMA FinishForm ==
  ASSUME NEW p \in Processes, phaseU[p] = "built", Uncached!End(p, "ok")
  PROVE  Uncached!Finish(p)
  BY Zenon DEF Uncached!Finish, phaseU, openedU, rootU, trustingU, bytesU

LEMMA KillForm ==
  ASSUME NEW p \in Processes, phaseU[p] \notin Uncached!Idle, Uncached!End(p, "killed")
  PROVE  Uncached!Kill(p)
  BY Zenon DEF Uncached!Kill, phaseU, openedU, rootU, trustingU, bytesU

LEMMA WriteForm ==
  ASSUME NEW f \in Files, NEW b \in Bytes, NEW again \in BOOLEAN,
         bytesU' = [bytesU EXCEPT ![f] = b],
         reused' = IF again THEN reused \cup {f} ELSE reused,
         UNCHANGED <<path, denied, phaseU, rootU, trustingU, todo, openedU, result>>
  PROVE  Uncached!Write(f, b, again)
  BY Zenon DEF Uncached!Write, phaseU, openedU, rootU, trustingU, bytesU

LEMMA LinkForm ==
  ASSUME NEW r \in Roots, NEW k \in Keys, NEW f \in Files \cup {None},
         path' = [path EXCEPT ![r][k] = f],
         UNCHANGED <<bytesU, denied, reused, phaseU, rootU, trustingU, todo, openedU, result>>
  PROVE  Uncached!Link(r, k, f)
  BY Zenon DEF Uncached!Link, phaseU, openedU, rootU, trustingU, bytesU

LEMMA ChmodForm ==
  ASSUME NEW f \in Files,
         denied' = IF f \in denied THEN denied \ {f} ELSE denied \cup {f},
         UNCHANGED <<bytesU, path, reused, phaseU, rootU, trustingU, todo, openedU, result>>
  PROVE  Uncached!Chmod(f)
  BY Zenon DEF Uncached!Chmod, phaseU, openedU, rootU, trustingU, bytesU

LEMMA StutterForm ==
  ASSUME UNCHANGED <<bytesU, path, denied, reused, phaseU, rootU, trustingU, todo, openedU, result>>
  PROVE  UNCHANGED Uncached!uvars
  BY Zenon DEF Uncached!uvars, phaseU, openedU, rootU, trustingU, bytesU

LEMMA LoadMaps ==
  ASSUME CacheInv, NEW p \in Processes, phase[p] \in {"stat", "open", "read"},
         NEW x \in Facts, NEW es, Load(p, x, es), NEW f \in Files,
         IF handle[p] # None THEN f = handle[p].id ELSE f = Reached(p) /\ command[p].trust,
         \/ x = Parse[file[f].bytes]
         \/ command[p].trust /\ handle[p] = None /\ f \in reused
  PROVE  Uncached!Answer(p, x)
<1> USE DEF CacheInv
<1> DEFINE rest == todo[p] \ {doc(p)}
           next == IF rest = {} THEN "build" ELSE FirstTier(p, es, First(rest))
<1>1. /\ result' = [result EXCEPT ![p][doc(p)] = x]
      /\ handle' = [handle EXCEPT ![p] = None]
      /\ todo' = [todo EXCEPT ![p] = rest]
      /\ phase' = [phase EXCEPT ![p] = next]
      /\ UNCHANGED <<file, path, denied, reused, command>>
  BY DEF Load, Proceed, disk
<1>2. UncachedPhase(next) = IF rest = {} THEN "build" ELSE "load"
  BY Tier DEF UncachedPhase
<1>3. phaseU[p] = "load"
  BY DEF phaseU, UncachedPhase
<1>4. openedU[p] = IF handle[p] # None THEN f ELSE None
  BY DEF openedU, OpenFile
<1>5. f # None
  BY CheckoutAssumption
<1>6. Reached(p) = path[rootU[p]][doc(p)]
  BY DEF Reached, rootU
<1>7. bytesU[f] = file[f].bytes /\ trustingU[p] = command[p].trust
  BY DEF bytesU, trustingU
<1> HIDE DEF next
<1>8. phaseU' = [phaseU EXCEPT ![p] = IF rest = {} THEN "build" ELSE "load"]
  BY <1>1, <1>2, Moves DEF Shape
<1>9. openedU' = [openedU EXCEPT ![p] = None]
  BY <1>1, Moves DEF Shape, OpenFile
<1>10. UNCHANGED <<bytesU, rootU, trustingU>>
  BY <1>1, Stays
<1>11. todo'[p] = rest
  BY <1>1 DEF Shape
<1>12. (IF openedU[p] # None THEN openedU[p] ELSE path[rootU[p]][doc(p)]) = f
  BY <1>4, <1>5, <1>6
<1>13. Uncached!First(todo[p]) = doc(p)
  BY SameNames DEF doc
<1>14. \/ x = Parse[bytesU[f]]
       \/ trustingU[p] /\ openedU[p] = None /\ f \in reused
  BY <1>4, <1>7
<1>16. openedU[p] = None /\ f \in denied => trustingU[p]
  BY <1>4, <1>5, <1>7
<1>15. rest = todo[p] \ {doc(p)}
  OBVIOUS
<1> HIDE DEF rest
<1> QED BY <1>1, <1>3, <1>5, <1>8, <1>9, <1>10, <1>11, <1>12, <1>13, <1>14, <1>15, <1>16, AnswerForm

LEMMA EndMaps ==
  ASSUME CacheInv, NEW p \in Processes, NEW how \in Idle, End(p, how)
  PROVE  Uncached!End(p, how)
<1> USE DEF CacheInv
<1>1. /\ phase' = [phase EXCEPT ![p] = how]
      /\ todo' = [todo EXCEPT ![p] = {}]
      /\ handle' = [handle EXCEPT ![p] = None]
      /\ result' = [result EXCEPT ![p] = [k \in Keys |-> None]]
      /\ command' = [command EXCEPT ![p] = NoCommand]
      /\ UNCHANGED <<file, path, denied, reused>>
  BY DEF End, disk, NoEntries
<1>2. UncachedPhase(how) = how
  BY DEF UncachedPhase, Idle
<1>3. phaseU' = [phaseU EXCEPT ![p] = how]
  <2>1. phaseU' = [phaseU EXCEPT ![p] = UncachedPhase(how)]
    BY <1>1, Moves DEF Shape
  <2> QED BY <1>2, <2>1
<1>4. openedU' = [openedU EXCEPT ![p] = None]
  BY <1>1, Moves DEF Shape, OpenFile
<1>5. rootU' = [rootU EXCEPT ![p] = None] /\ trustingU' = [trustingU EXCEPT ![p] = FALSE]
  <2>1. NoCommand.root = None /\ NoCommand.trust = FALSE
    BY DEF NoCommand
  <2>2. rootU' = [rootU EXCEPT ![p] = NoCommand.root] /\ trustingU' = [trustingU EXCEPT ![p] = NoCommand.trust]
    BY <1>1, Moves DEF Shape
  <2> QED BY <2>1, <2>2, Zenon
<1>6. UNCHANGED bytesU
  BY <1>1, Stays
<1> QED BY <1>1, <1>3, <1>4, <1>5, <1>6, SameNames, EndForm

LEMMA StepMaps ==
  ASSUME CacheInv, NEW p \in Processes, Step(p)
  PROVE  Uncached!UNext \/ UNCHANGED Uncached!uvars
<1> USE DEF CacheInv
<1>e. Good(entries[p], file, reused, ticks) /\ entries[p] \in [Keys -> Entries \cup {None}]
  BY DEF AllGood, Good
<1>r. phase[p] = "read" => /\ handle[p] # None /\ handle[p].id \in Files
                           /\ file[handle[p].id].bytes \in Bytes
  BY DEF Working, Shape, Stats
<1>a. ASSUME NEW x \in Facts, Uncached!Answer(p, x) PROVE Uncached!UNext
  BY <1>a DEF Uncached!UNext
<1>b. Uncached!Refuse(p) \/ Uncached!Open(p) \/ Uncached!Build(p) \/ Uncached!Finish(p)
        => Uncached!UNext
  BY DEF Uncached!UNext
<1>1. ASSUME NEW r \in Roots, NEW v \in BOOLEAN, NEW w \in BOOLEAN, Begin(p, r, v, w)
      PROVE  Uncached!UNext
  <2> DEFINE es == IF slot = None THEN NoEntries ELSE slot.entries
             found == {k \in Keys : path[r][k] # None}
             next == IF found = {} THEN "build" ELSE FirstTier(p, es, First(found))
             trust == cache_trust_stat /\ ~v
             made == [root |-> r, trust |-> trust, persist |-> w]
  <2>1. /\ command' = [command EXCEPT ![p] = made]
        /\ todo' = [todo EXCEPT ![p] = found]
        /\ phase' = [phase EXCEPT ![p] = next]
        /\ phase[p] \in Idle
        /\ UNCHANGED <<file, path, denied, reused, handle, result>>
    BY <1>1 DEF Begin, Proceed, disk
  <2>2. made.root = r /\ made.trust = trust /\ trust \in BOOLEAN
    BY CacheBoundsAssumption
  <2>3. UncachedPhase(next) = IF found = {} THEN "build" ELSE "load"
    BY Tier DEF UncachedPhase
  <2> HIDE DEF next, made, trust
  <2>4. phaseU' = [phaseU EXCEPT ![p] = IF found = {} THEN "build" ELSE "load"]
    BY <2>1, <2>3, Moves DEF Shape
  <2>5. rootU' = [rootU EXCEPT ![p] = r] /\ trustingU' = [trustingU EXCEPT ![p] = trust]
    BY <2>1, <2>2, Moves DEF Shape
  <2>6. phaseU[p] \in Idle
    BY <2>1 DEF phaseU, UncachedPhase, Idle
  <2>7. UNCHANGED <<bytesU, openedU>>
    BY <2>1, Stays
  <2>8. todo'[p] = found
    BY <2>1 DEF Shape
  <2>9. Uncached!Start(p, r, trust)
    <3>1. phaseU[p] \in Uncached!Idle
      BY <2>6 DEF Uncached!Idle, Idle
    <3>2. todo' = [todo EXCEPT ![p] = {k \in Uncached!Keys : path[r][k] # None}]
      BY <2>1, SameNames
    <3> HIDE DEF found
    <3>3. phaseU' = [phaseU EXCEPT ![p] = IF todo'[p] = {} THEN "build" ELSE "load"]
      BY <2>4, <2>8
    <3> QED BY <2>1, <2>2, <2>5, <2>7, <3>1, <3>2, <3>3, StartForm, Zenon
  <2> QED BY <2>2, <2>9 DEF Uncached!UNext
<1>2. CASE StatHit(p)
  <2>1. doc(p) \in Keys /\ entries[p][doc(p)] # None /\ phase[p] = "stat" /\ command[p].trust
    BY <1>2, DocType DEF StatHit, Working
  <2>2. entries[p][doc(p)].payload \in Facts
    BY <2>1, <1>e DEF Entries
  <2> DEFINE e == entries[p][doc(p)]
             f == Reached(p)
             r == command[p].root
  <2>3. f \in Files /\ f # None
    BY <1>2, DocType DEF StatHit
  <2>4. handle[p] = None
    BY <2>1 DEF Working
  <2>5. r \in Roots
    BY <2>1, DocType
  <2>6. stat_record(f) = e.stats[r] /\ stat_record(f) \in Stats
    BY <1>2, <2>3 DEF StatHit, stat_record, Stats, Shape
  <2>7. e \in Entries /\ SoundIn(e, file, reused, ticks)
    BY <2>1, <1>e DEF Good
  <2>8. Vouches(stat_record(f), e.payload, file, reused, ticks)
    BY <2>5, <2>6, <2>7, ValuesAssumption DEF SoundIn
  <2>9. stat_record(f).id = f /\ stat_record(f).stamp = file[f].stamp
    BY DEF stat_record
  <2>10. e.payload = Parse[file[f].bytes] \/ f \in reused
    BY <2>8, <2>9 DEF Vouches
  <2>11. Load(p, e.payload, entries[p])
    BY <1>2 DEF StatHit
  <2> HIDE DEF e, f
  <2>12. f = Reached(p)
    BY DEF f
  <2>13. e.payload \in Facts
    BY <2>2 DEF e
  <2> QED BY <2>1, <2>3, <2>4, <2>10, <2>11, <2>12, <2>13, LoadMaps, <1>a
<1>3. CASE StatMiss(p)
  <2>1. phase' = [phase EXCEPT ![p] = "open"] /\ phase[p] = "stat"
        /\ UNCHANGED <<file, path, denied, reused, command, todo, handle, result>>
    BY <1>3 DEF StatMiss, progress, disk
  <2>2. phaseU' = phaseU
    BY <2>1 DEF phaseU, UncachedPhase, Shape
  <2> QED BY <2>1, <2>2, Stays, StutterForm
<1>4. CASE Open(p)
  <2> DEFINE st == stat_record(Reached(p))
  <2>1. phase' = [phase EXCEPT ![p] = "read"] /\ phase[p] = "open"
        /\ handle' = [handle EXCEPT ![p] = st] /\ Reached(p) \notin {None} \cup denied
        /\ UNCHANGED <<file, path, denied, reused, command, todo, result>>
    BY <1>4 DEF Open, disk
  <2>2. phaseU' = phaseU /\ phaseU[p] = "load"
    BY <2>1 DEF phaseU, UncachedPhase, Shape
  <2>3. Reached(p) \in Files
    BY <2>1, DocType
  <2>4. st \in Stats /\ st.id = Reached(p)
    BY <2>3 DEF stat_record, Stats, Shape
  <2>5. OpenFile(st) = Reached(p)
    BY <2>4, ValuesAssumption DEF OpenFile
  <2>6. openedU[p] = None
    BY <2>1 DEF openedU, OpenFile, Working
  <2>7. Reached(p) = path[rootU[p]][Uncached!First(todo[p])]
    BY SameNames DEF Reached, rootU, doc
  <2> HIDE DEF st
  <2>8. openedU' = [openedU EXCEPT ![p] = OpenFile(st)]
    BY <2>1, Moves DEF Shape
  <2>9. openedU' = [openedU EXCEPT ![p] = path[rootU[p]][Uncached!First(todo[p])]]
    BY <2>5, <2>7, <2>8
  <2> QED BY <2>1, <2>2, <2>6, <2>7, <2>9, Stays, OpenForm, <1>b
<1>5. CASE Unreadable(p)
  <2>1. phase[p] \in {"stat", "open"} /\ Reached(p) \in {None} \cup denied /\ End(p, "error")
    BY <1>5 DEF Unreadable
  <2>2. Uncached!End(p, "error")
    BY <2>1, EndMaps DEF Idle
  <2>3. phaseU[p] = "load"
    BY <2>1 DEF phaseU, UncachedPhase
  <2>4. openedU[p] = None
    BY <2>1 DEF openedU, OpenFile, Working
  <2>5. path[rootU[p]][Uncached!First(todo[p])] \in {None} \cup denied
    BY <2>1, SameNames DEF Reached, rootU, doc
  <2> QED BY <2>2, <2>3, <2>4, <2>5, RefuseForm, <1>b
<1>6. CASE VerifiedHit(p)
  <2> DEFINE e == entries[p][doc(p)]
             f == handle[p].id
             es == [entries[p] EXCEPT ![doc(p)] = claim(@, command[p].root, handle[p])]
  <2>1. doc(p) \in Keys /\ phase[p] = "read" /\ e # None /\ e.file_sha256 = file[f].bytes
        /\ Load(p, e.payload, es)
    BY <1>6, DocType DEF VerifiedHit, Verified
  <2>2. e \in Entries /\ SoundIn(e, file, reused, ticks)
    BY <2>1, <1>e DEF Good
  <2>3. e.payload \in Facts /\ e.payload = Parse[file[f].bytes]
    BY <2>1, <2>2 DEF Entries, SoundIn
  <2>4. handle[p] # None /\ f \in Files
    BY <2>1, <1>r
  <2> DEFINE x == e.payload
  <2>5. x \in Facts /\ x = Parse[file[f].bytes] /\ Load(p, x, es)
    BY <2>1, <2>3
  <2> HIDE DEF x, es
  <2>6. Uncached!Answer(p, x)
    BY <2>1, <2>4, <2>5, LoadMaps
  <2> QED BY <2>5, <2>6, <1>a
<1>7. CASE Miss(p)
  <2> DEFINE f == handle[p].id
             x == Parse[file[f].bytes]
             es == [entries[p] EXCEPT ![doc(p)] =
                      make_entry(file[f].bytes, handle[p], command[p].root)]
  <2>1. phase[p] = "read" /\ x # Malformed /\ Load(p, x, es)
    BY <1>7 DEF Miss
  <2>2. x \in Facts
    BY <2>1, <1>r, ParseAssumption
  <2>3. handle[p] # None /\ f \in Files
    BY <2>1, <1>r
  <2>4. x = Parse[file[f].bytes]
    OBVIOUS
  <2> HIDE DEF x, es
  <2>5. Uncached!Answer(p, x)
    BY <2>1, <2>2, <2>3, <2>4, LoadMaps
  <2> QED BY <2>2, <2>5, <1>a
<1>8. CASE ParseFails(p)
  <2>1. phase[p] = "read" /\ Parse[file[handle[p].id].bytes] = Malformed /\ End(p, "error")
    BY <1>8 DEF ParseFails
  <2>2. Uncached!End(p, "error")
    BY <2>1, EndMaps DEF Idle
  <2>3. phaseU[p] = "load"
    BY <2>1 DEF phaseU, UncachedPhase
  <2>4. handle[p] # None /\ handle[p].id \in Files /\ handle[p].id # None
    BY <2>1, <1>r, CheckoutAssumption
  <2>5. openedU[p] = handle[p].id /\ openedU[p] # None
    BY <2>4 DEF openedU, OpenFile
  <2>6. Parse[bytesU[openedU[p]]] = Malformed
    BY <2>1, <2>4, <2>5 DEF bytesU
  <2> QED BY <2>2, <2>3, <2>5, <2>6, RefuseForm, <1>b
<1>10. CASE Build(p)
  <2>1. phase' = [phase EXCEPT ![p] = "save"] /\ phase[p] = "build"
        /\ UNCHANGED <<file, path, denied, reused, command, todo, handle, result>>
    BY <1>10 DEF Build, progress, disk
  <2>2. phaseU[p] = "build" /\ UncachedPhase("save") = "built"
    BY <2>1 DEF phaseU, UncachedPhase
  <2>3. phaseU' = [phaseU EXCEPT ![p] = UncachedPhase("save")]
    BY <2>1, Moves DEF Shape
  <2>4. phaseU' = [phaseU EXCEPT ![p] = "built"]
    BY <2>2, <2>3
  <2> QED BY <2>1, <2>2, <2>4, Stays, BuildForm, <1>b
<1>11. CASE BuildFails(p)
  <2>1. phase[p] = "build" /\ End(p, "error")
    BY <1>11 DEF BuildFails
  <2>2. Uncached!End(p, "error")
    BY <2>1, EndMaps DEF Idle
  <2>3. phaseU[p] = "build"
    BY <2>1 DEF phaseU, UncachedPhase
  <2> QED BY <2>2, <2>3, RefuseForm, <1>b
<1>12. CASE Save(p)
  <2>1. phase[p] = "save" /\ End(p, "ok")
    BY <1>12 DEF Save
  <2>2. Uncached!End(p, "ok")
    BY <2>1, EndMaps DEF Idle
  <2>3. phaseU[p] = "built"
    BY <2>1 DEF phaseU, UncachedPhase
  <2> QED BY <2>2, <2>3, FinishForm, <1>b
<1> QED BY <1>1, <1>2, <1>3, <1>4, <1>5, <1>6, <1>7, <1>8, <1>10, <1>11, <1>12 DEF Step

LEMMA EnvironmentMaps ==
  ASSUME CacheInv, Environment
  PROVE  Uncached!UNext \/ UNCHANGED Uncached!uvars
<1> USE DEF CacheInv
<1>1. ASSUME NEW p \in Processes, Kill(p) PROVE Uncached!UNext
  <2>1. phase[p] \notin Idle /\ phase[p] \in Phases /\ End(p, "killed")
    BY <1>1 DEF Kill, Shape
  <2>2. Uncached!End(p, "killed")
    BY <2>1, EndMaps DEF Idle
  <2>3. phaseU[p] \notin Uncached!Idle
    BY <2>1 DEF phaseU, UncachedPhase, Uncached!Idle, Idle, Phases
  <2>4. Uncached!Kill(p)
    BY <2>2, <2>3, KillForm
  <2> QED BY <2>4 DEF Uncached!UNext
<1>2. ASSUME NEW f \in Files, NEW b \in Bytes, NEW t \in 0..(ticks[f] + 1), Write(f, b, t)
      PROVE  Uncached!UNext
  <2>1. /\ file' = [file EXCEPT ![f] = [bytes |-> b, stamp |-> t]]
        /\ reused' = IF t <= ticks[f] THEN reused \cup {f} ELSE reused
        /\ UNCHANGED <<path, denied, phase, command, todo, handle, result>>
    BY <1>2 DEF Write, progress
  <2>2. bytesU' = [bytesU EXCEPT ![f] = b]
    BY <2>1 DEF bytesU, Shape
  <2>3. CASE t <= ticks[f]
    <3>1. reused' = IF TRUE THEN reused \cup {f} ELSE reused
      BY <2>1, <2>3
    <3>2. Uncached!Write(f, b, TRUE)
      BY <2>1, <2>2, <3>1, Stays, WriteForm, Zenon
    <3> QED BY <3>2, Zenon DEF Uncached!UNext
  <2>4. CASE ~(t <= ticks[f])
    <3>1. reused' = IF FALSE THEN reused \cup {f} ELSE reused
      BY <2>1, <2>4
    <3>2. Uncached!Write(f, b, FALSE)
      BY <2>1, <2>2, <3>1, Stays, WriteForm, Zenon
    <3> QED BY <3>2, Zenon DEF Uncached!UNext
  <2> QED BY <2>3, <2>4
<1>3. ASSUME NEW r \in Roots, NEW k \in Keys, NEW f \in Files \cup {None}, Link(r, k, f)
      PROVE  Uncached!UNext
  <2>1. /\ path' = [path EXCEPT ![r][k] = f]
        /\ UNCHANGED <<file, denied, reused, phase, command, todo, handle, result>>
    BY <1>3 DEF Link, progress
  <2>2. Uncached!Link(r, k, f)
    BY <2>1, Stays, LinkForm
  <2> QED BY <2>2, SameNames DEF Uncached!UNext
<1>4. ASSUME Discard PROVE UNCHANGED Uncached!uvars
  BY <1>4, Stays, StutterForm DEF Discard, disk, progress
<1>5. ASSUME NEW f \in Files, Chmod(f) PROVE Uncached!UNext
  <2>1. /\ denied' = IF f \in denied THEN denied \ {f} ELSE denied \cup {f}
        /\ UNCHANGED <<file, path, reused, phase, command, todo, handle, result>>
    BY <1>5 DEF Chmod, progress
  <2>2. Uncached!Chmod(f)
    BY <2>1, Stays, ChmodForm
  <2> QED BY <2>2 DEF Uncached!UNext
<1> QED BY <1>1, <1>2, <1>3, <1>4, <1>5 DEF Environment

\* Every step of a cached load is a step of an uncached one or changes
\* nothing of it: with the cache a command answers, fails and succeeds as it
\* would without, but for what trusting stats accepts (AD-12): the facts of a file
\* that had its stat before, and an answer for one that cannot be opened.
THEOREM CachedIsUncached == Spec => ImplementsUncachedLoad
<1>1. CacheInv /\ [Next]_vars => [Uncached!UNext]_(Uncached!uvars)
  <2> SUFFICES ASSUME CacheInv, [Next]_vars PROVE Uncached!UNext \/ UNCHANGED Uncached!uvars
    OBVIOUS
  <2>1. CASE UNCHANGED vars
    BY <2>1, Stays, StutterForm DEF vars, disk, progress
  <2>2. CASE Next
    BY <2>2, StepMaps, EnvironmentMaps DEF Next
  <2> QED BY <2>1, <2>2
<1> QED BY <1>1, InitMaps, CacheInvAlways, PTL DEF Spec, ImplementsUncachedLoad, Uncached!USpec

(***************************************************************************)
(* The ledger of roots.                                                     *)
(***************************************************************************)
\* list.remove on a list that holds nothing twice.
LEMMA RemoveFirstFacts ==
  ASSUME NEW s \in Seq(Roots), IsInjective(s), NEW r, NEW t, t = RemoveFirst(s, r)
  PROVE  t \in Seq(Roots) /\ IsInjective(t) /\ ToSet(t) = ToSet(s) \ {r}
<1>1. CASE ~ \E i \in 1..Len(s) : s[i] = r
  <2>1. t = s
    BY <1>1, Zenon DEF RemoveFirst
  <2> QED BY <1>1, <2>1 DEF ToSet
<1>2. CASE \E i \in 1..Len(s) : s[i] = r
  <2>1. PICK i \in 1..Len(s) : s[i] = r
    BY <1>2
  <2>2. {j \in 1..Len(s) : s[j] = r} = {i}
    BY <2>1 DEF IsInjective
  <2>3. Min({i}) = i
    BY DEF Min
  <2>4. t = RemoveAt(s, i)
    BY <1>2, <2>2, <2>3, Zenon DEF RemoveFirst, SelectInSeq
  <2> DEFINE before == SubSeq(s, 1, i - 1)
             after == SubSeq(s, i + 1, Len(s))
  <2>5. /\ before \in Seq(Roots) /\ Len(before) = i - 1
        /\ \A j \in 1..(i - 1) : before[j] = s[j]
    OBVIOUS
  <2>6. /\ after \in Seq(Roots) /\ Len(after) = Len(s) - i
        /\ \A j \in 1..(Len(s) - i) : after[j] = s[i + j]
    <3>1. CASE i = Len(s)
      BY <3>1
    <3>2. CASE i # Len(s)
      BY <3>2
    <3> QED BY <3>1, <3>2
  <2>7. t = before \o after
    BY <2>4 DEF RemoveAt
  <2> HIDE DEF before, after
  <2>8. /\ t \in Seq(Roots) /\ Len(t) = Len(s) - 1
        /\ \A j \in 1..(Len(s) - 1) : t[j] = IF j < i THEN s[j] ELSE s[j + 1]
    <3>1. t \in Seq(Roots) /\ Len(t) = Len(s) - 1
      <4>1. before \o after \in Seq(Roots) /\ Len(before \o after) = Len(before) + Len(after)
        <5>1. before \in Seq(Roots) /\ after \in Seq(Roots)
          BY <2>5, <2>6
        <5> QED BY <5>1, ConcatProperties
      <4> QED BY <2>1, <2>5, <2>6, <2>7, <4>1
    <3>2. ASSUME NEW j \in 1..(Len(s) - 1), j < i PROVE t[j] = s[j]
      <4>1. t[j] = before[j]
        BY <2>5, <2>6, <2>7, <3>2
      <4> QED BY <2>5, <3>2, <4>1
    <3>3. ASSUME NEW j \in 1..(Len(s) - 1), ~ (j < i) PROVE t[j] = s[j + 1]
      <4>1. t[j] = after[j - (i - 1)]
        BY <2>5, <2>6, <2>7, <3>3
      <4>2. j - (i - 1) \in 1..(Len(s) - i) /\ i + (j - (i - 1)) = j + 1
        BY <3>3
      <4> QED BY <2>6, <4>1, <4>2
    <3> QED BY <3>1, <3>2, <3>3
  <2>9. IsInjective(t)
    <3> SUFFICES ASSUME NEW a \in 1..(Len(s) - 1), NEW b \in 1..(Len(s) - 1), t[a] = t[b]
                 PROVE  a = b
      BY <2>8 DEF IsInjective
    <3> DEFINE at(j) == IF j < i THEN j ELSE j + 1
    <3>1. ASSUME NEW j \in 1..(Len(s) - 1) PROVE at(j) \in 1..Len(s) /\ t[j] = s[at(j)]
      <4>1. CASE j < i
        BY <2>1, <2>8, <4>1
      <4>2. CASE ~ (j < i)
        BY <2>1, <2>8, <4>2
      <4> QED BY <4>1, <4>2
    <3>2. at(a) = at(b)
      BY <3>1 DEF IsInjective
    <3> QED BY <3>2
  <2>10. ASSUME NEW x \in ToSet(t) PROVE x \in ToSet(s) \ {r}
    BY <2>1, <2>8, <2>10 DEF ToSet, IsInjective
  <2>11. ASSUME NEW x \in ToSet(s), x # r PROVE x \in ToSet(t)
    <3>1. PICK j \in 1..Len(s) : x = s[j]
      BY DEF ToSet
    <3>2. CASE j < i
      <4>1. j \in 1..Len(t) /\ t[j] = x
        BY <2>8, <3>1, <3>2
      <4> QED BY <2>8, <4>1 DEF ToSet
    <3>3. CASE j > i
      <4>1. j - 1 \in 1..Len(t) /\ t[j - 1] = x
        BY <2>8, <3>1, <3>3
      <4> QED BY <2>8, <4>1 DEF ToSet
    <3> QED BY <2>1, <2>11, <3>1, <3>2, <3>3
  <2> QED BY <2>8, <2>9, <2>10, <2>11
<1> QED BY <1>1, <1>2

\* A finished run's ledger: short, without repetition, the run's root last.
LEMMA LedgerFacts ==
  ASSUME NEW s \in Seq(Roots), IsInjective(s), NEW r \in Roots,
         NEW t, t = touch_current_root(s, r), NEW u, u = kept_roots(t)
  PROVE  /\ ToSet(t) = ToSet(s) \cup {r} /\ ToSet(u) \subseteq ToSet(t)
         /\ u \in Seq(Roots) /\ IsInjective(u)
         /\ Len(u) \in 1..MAX_STAT_ROOTS /\ u[Len(u)] = r
<1> DEFINE w == RemoveFirst(s, r)
<1>1. w \in Seq(Roots) /\ IsInjective(w) /\ ToSet(w) = ToSet(s) \ {r}
  BY RemoveFirstFacts
<1>2. t = Append(w, r)
  BY DEF touch_current_root
<1> HIDE DEF w
<1>3. /\ t \in Seq(Roots) /\ Len(t) = Len(w) + 1 /\ t[Len(t)] = r
      /\ \A j \in 1..Len(w) : t[j] = w[j]
  BY <1>1, <1>2
<1>4. ToSet(t) = ToSet(s) \cup {r}
  <2>1. ToSet(t) = ToSet(w) \cup {r}
    BY <1>1, <1>3 DEF ToSet
  <2> QED BY <1>1, <2>1
<1>5. IsInjective(t)
  <2>1. \A j \in 1..Len(w) : w[j] # r
    <3>1. \A j \in 1..Len(w) : w[j] \in ToSet(w)
      BY <1>1 DEF ToSet
    <3> QED BY <1>1, <3>1
  <2> QED BY <1>1, <1>3, <2>1 DEF IsInjective
<1>6. CASE Len(t) <= MAX_STAT_ROOTS
  <2>1. u = t
    BY <1>6 DEF kept_roots
  <2> QED BY <1>1, <1>3, <1>4, <1>5, <1>6, <2>1
<1>7. CASE ~ (Len(t) <= MAX_STAT_ROOTS)
  <2> DEFINE n == Len(t) - MAX_STAT_ROOTS
  <2>1. u = SubSeq(t, n + 1, Len(t)) /\ n \in Nat /\ n < Len(t) /\ Len(t) - n = MAX_STAT_ROOTS
        /\ MAX_STAT_ROOTS \in Nat /\ MAX_STAT_ROOTS >= 1
    BY <1>3, <1>7, CacheBoundsAssumption DEF kept_roots
  <2> HIDE DEF n
  <2>2. /\ u \in Seq(Roots) /\ Len(u) = MAX_STAT_ROOTS
        /\ \A j \in 1..MAX_STAT_ROOTS : u[j] = t[n + j]
    BY <1>3, <2>1
  <2>3. \A j \in 1..MAX_STAT_ROOTS : n + j \in 1..Len(t)
    BY <1>3, <2>1
  <2>4. ToSet(u) \subseteq ToSet(t)
    BY <1>3, <2>2, <2>3 DEF ToSet
  <2>5. IsInjective(u)
    BY <1>3, <1>5, <2>1, <2>2, <2>3 DEF IsInjective
  <2>6. u[Len(u)] = r
    <3>1. u[MAX_STAT_ROOTS] = t[n + MAX_STAT_ROOTS] /\ n + MAX_STAT_ROOTS = Len(t)
      BY <1>3, <2>1, <2>2
    <3> QED BY <1>3, <2>2, <3>1
  <2>7. Len(u) \in 1..MAX_STAT_ROOTS
    BY <2>1, <2>2
  <2> QED BY <1>4, <2>2, <2>4, <2>5, <2>6, <2>7
<1> QED BY <1>6, <1>7

(***************************************************************************)
(* What a command remembers of the slot it loaded.                          *)
(***************************************************************************)
Claimants(e) == {r \in Roots : e.stats[r] # None}

LedgerOf(c) == IF c = None THEN <<>> ELSE c.roots
EntryOf(c, k) == IF c = None THEN None ELSE c.entries[k]

\* A cache file, or none, as RunState.complete leaves it.
Tidy(c) ==
  c # None =>
    /\ c \in CacheFiles
    /\ Len(c.roots) \in 1..MAX_STAT_ROOTS
    /\ IsInjective(c.roots)
    /\ \A k \in Keys : c.entries[k] # None =>
         Claimants(c.entries[k]) # {} /\ Claimants(c.entries[k]) \subseteq ToSet(c.roots)

\* The entry e that a run of the root r has for a document where the slot it
\* loaded had the entry old: nobody else's claim is lost while the bytes are
\* the same.
Succeeds(e, old, r) ==
  old # None => /\ e # None
                /\ e.file_sha256 = old.file_sha256 =>
                     \A q \in Roots \ {r} : e.stats[q] = old.stats[q]

\* A run of the root r that loaded the slot c: its entries es and the facts rs
\* it has, with the documents td to go.
Known(es, c, r, td, rs) ==
  \A k \in Keys :
    /\ es[k] # None => Claimants(es[k]) \subseteq ToSet(LedgerOf(c)) \cup {r}
    /\ rs[k] = None => es[k] = EntryOf(c, k)
    /\ rs[k] # None => /\ k \notin td
                       /\ es[k] # None
                       /\ es[k].stats[r] # None
                       /\ es[k].payload = rs[k]
    /\ Succeeds(es[k], EntryOf(c, k), r)

TidyInv ==
  /\ Tidy(slot)
  /\ \A p \in Processes :
       /\ Tidy(baseline[p])
       /\ Known(entries[p], baseline[p], command[p].root, todo[p], result[p])
       /\ phase[p] \in Idle => result[p] = NoEntries

\* A run that begins knows what the slot holds.
LEMMA BeginKnows ==
  ASSUME NEW c, Tidy(c), NEW es, es = (IF c = None THEN NoEntries ELSE c.entries), NEW r, NEW td
  PROVE  Known(es, c, r, td, NoEntries)
<1> SUFFICES ASSUME NEW k \in Keys
             PROVE  /\ es[k] # None => Claimants(es[k]) \subseteq ToSet(LedgerOf(c))
                    /\ es[k] = EntryOf(c, k)
  BY DEF Known, Succeeds, NoEntries
<1> QED BY DEF EntryOf, LedgerOf, Tidy, NoEntries

\* A run that is over knows nothing.
LEMMA OverKnows == Known(NoEntries, None, None, {}, NoEntries)
  BY DEF Known, NoEntries, EntryOf, Succeeds

\* A run that loads a document puts its own claim on it.
LEMMA LoadKnows ==
  ASSUME NEW es \in [Keys -> Entries \cup {None}], NEW c, NEW r \in Roots, NEW td,
         NEW rs \in [Keys -> Facts \cup {None}], Known(es, c, r, td, rs),
         NEW k \in Keys, k \in td, NEW x \in Facts, NEW e \in Entries,
         e.payload = x, e.stats[r] # None,
         Claimants(e) \subseteq {r} \cup (IF es[k] = None THEN {} ELSE Claimants(es[k])),
         Succeeds(e, es[k], r)
  PROVE  Known([es EXCEPT ![k] = e], c, r, td \ {k}, [rs EXCEPT ![k] = x])
<1> DEFINE es2 == [es EXCEPT ![k] = e]
           rs2 == [rs EXCEPT ![k] = x]
<1>1. es2[k] = e /\ rs2[k] = x /\ \A j \in Keys \ {k} : es2[j] = es[j] /\ rs2[j] = rs[j]
  OBVIOUS
<1>2. x # None /\ e # None
  BY CheckoutAssumption, ValuesAssumption
<1>3. es[k] = EntryOf(c, k)
  BY DEF Known
<1>4. Claimants(e) \subseteq ToSet(LedgerOf(c)) \cup {r}
  BY DEF Known
<1>5. Succeeds(e, EntryOf(c, k), r)
  BY <1>3
<1> HIDE DEF es2, rs2
<1>6. ASSUME NEW j \in Keys
      PROVE  /\ es2[j] # None => Claimants(es2[j]) \subseteq ToSet(LedgerOf(c)) \cup {r}
             /\ rs2[j] = None => es2[j] = EntryOf(c, j)
             /\ rs2[j] # None => /\ j \notin td \ {k}
                                 /\ es2[j] # None
                                 /\ es2[j].stats[r] # None
                                 /\ es2[j].payload = rs2[j]
             /\ Succeeds(es2[j], EntryOf(c, j), r)
  <2>1. CASE j = k
    BY <1>1, <1>2, <1>4, <1>5, <2>1
  <2>2. CASE j # k
    <3>1. es2[j] = es[j] /\ rs2[j] = rs[j]
      BY <1>1, <2>2
    <3> QED BY <3>1 DEF Known
  <2> QED BY <2>1, <2>2
<1>7. Known(es2, c, r, td \ {k}, rs2)
  BY <1>6 DEF Known
<1> QED BY <1>7 DEF es2, rs2

\* What a verified hit and a miss put in place of an entry.
LEMMA ClaimFacts ==
  ASSUME NEW e \in Entries, NEW r \in Roots, NEW st \in Stats, NEW d, d = claim(e, r, st)
  PROVE  /\ d \in Entries /\ d.payload = e.payload /\ d.stats[r] # None
         /\ Claimants(d) \subseteq {r} \cup Claimants(e) /\ Succeeds(d, e, r)
<1>1. /\ d \in Entries /\ d.payload = e.payload /\ d.file_sha256 = e.file_sha256
      /\ d.stats = [e.stats EXCEPT ![r] = st] /\ e.stats \in [Roots -> Stats \cup {None}]
  BY DEF claim, Entries
<1>2. d.stats[r] = st /\ \A q \in Roots \ {r} : d.stats[q] = e.stats[q]
  BY <1>1
<1>3. st # None /\ d # None
  BY <1>1, ValuesAssumption
<1> QED BY <1>1, <1>2, <1>3 DEF Claimants, Succeeds

LEMMA FreshFacts ==
  ASSUME NEW b \in Bytes, Parse[b] # Malformed, NEW r \in Roots, NEW st \in Stats,
         NEW d, d = make_entry(b, st, r)
  PROVE  /\ d \in Entries /\ d.payload = Parse[b] /\ d.file_sha256 = b
         /\ d.stats[r] # None /\ Claimants(d) \subseteq {r}
<1>1. Parse[b] \in Facts /\ st # None
  BY ParseAssumption, ValuesAssumption
<1>2. /\ d.file_sha256 = b /\ d.payload = Parse[b]
      /\ d.stats = [q \in Roots |-> IF q = r THEN st ELSE None]
      /\ d \in Entries
  BY <1>1 DEF make_entry, Entries
<1> QED BY <1>1, <1>2 DEF Claimants

(***************************************************************************)
(* A finished run.                                                          *)
(***************************************************************************)
\* An entry without the claims of the roots g.
LEMMA StrippedFacts ==
  ASSUME NEW e \in Entries, NEW g, NEW w, w = without_claims(e, g)
  PROVE  /\ w \in Entries /\ w.file_sha256 = e.file_sha256 /\ w.payload = e.payload
         /\ Claimants(w) = Claimants(e) \ g
         /\ \A q \in Roots \ g : w.stats[q] = e.stats[q]
<1>1. /\ w \in Entries /\ w.file_sha256 = e.file_sha256 /\ w.payload = e.payload
      /\ w.stats = [q \in Roots |-> IF q \in g THEN None ELSE e.stats[q]]
  BY DEF without_claims, Entries
<1> QED BY <1>1 DEF Claimants

\* What complete makes of each entry, where t is the ledger with the root r
\* appended.
Completed(new, es, r, found, t) ==
  /\ new.roots = kept_roots(t)
  /\ new.entries \in [Keys -> Entries \cup {None}]
  /\ new = [roots |-> new.roots, entries |-> new.entries]
  /\ \A k \in Keys :
       LET e == es[k]
           d == new.entries[k]
           g == (ToSet(t) \ ToSet(new.roots)) \cup (IF k \in found THEN {} ELSE {r})
       IN  /\ d = None <=> (e = None \/ Claimants(e) \subseteq g)
           /\ d # None => /\ d.file_sha256 = e.file_sha256 /\ d.payload = e.payload
                          /\ Claimants(d) = Claimants(e) \ g
                          /\ \A q \in Roots \ g : d.stats[q] = e.stats[q]

LEMMA CompleteFacts ==
  ASSUME NEW c, NEW es \in [Keys -> Entries \cup {None}], NEW r, NEW found,
         NEW t, t = touch_current_root(LedgerOf(c), r),
         NEW new, new = complete(c, es, r, found)
  PROVE  Completed(new, es, r, found, t)
<1> DEFINE u == kept_roots(t)
           g(k) == (ToSet(t) \ ToSet(u)) \cup (IF k \in found THEN {} ELSE {r})
           w(k) == without_claims(es[k], g(k))
           left == [k \in Keys |-> IF es[k] = None THEN None ELSE drop_unclaimed(w(k))]
<1>1. new = [roots |-> u, entries |-> left]
  BY DEF complete, LedgerOf, withdrawn
<1>2. ASSUME NEW k \in Keys
      PROVE  /\ left[k] \in Entries \cup {None}
             /\ left[k] = None <=> (es[k] = None \/ Claimants(es[k]) \subseteq g(k))
             /\ left[k] # None => /\ left[k].file_sha256 = es[k].file_sha256
                                  /\ left[k].payload = es[k].payload
                                  /\ Claimants(left[k]) = Claimants(es[k]) \ g(k)
                                  /\ \A q \in Roots \ g(k) : left[k].stats[q] = es[k].stats[q]
  <2> DEFINE e == es[k]
             h == g(k)
             v == without_claims(e, h)
             d == left[k]
  <2>1. d = IF e = None THEN None ELSE IF Claimants(v) = {} THEN None ELSE v
    BY DEF drop_unclaimed, Claimants
  <2> HIDE DEF d, h, e
  <2>2. CASE e = None
    BY <2>1, <2>2 DEF d, h, e
  <2>3. CASE e # None
    <3>1. e \in Entries
      BY <2>3 DEF e
    <3>2. /\ v \in Entries /\ v.file_sha256 = e.file_sha256 /\ v.payload = e.payload
          /\ Claimants(v) = Claimants(e) \ h
          /\ \A q \in Roots \ h : v.stats[q] = e.stats[q]
      BY <3>1, StrippedFacts
    <3>3. v # None
      BY <3>2, ValuesAssumption
    <3> HIDE DEF v
    <3>4. d = IF Claimants(v) = {} THEN None ELSE v
      BY <2>1, <2>3
    <3>5. /\ d \in Entries \cup {None}
          /\ d = None <=> (e = None \/ Claimants(e) \subseteq h)
          /\ d # None => /\ d.file_sha256 = e.file_sha256 /\ d.payload = e.payload
                         /\ Claimants(d) = Claimants(e) \ h
                         /\ \A q \in Roots \ h : d.stats[q] = e.stats[q]
      BY <2>3, <3>2, <3>3, <3>4
    <3> QED BY <3>5 DEF d, h, e
  <2> QED BY <2>2, <2>3
<1> HIDE DEF left, u
<1>3. new.roots = u /\ new.entries = left
  BY <1>1
<1>4. left \in [Keys -> Entries \cup {None}]
  BY <1>2 DEF left
<1> QED BY <1>1, <1>2, <1>3, <1>4 DEF u, Completed

\* The ledger of the slot a finished run leaves.
LEMMA LedgerAfter ==
  ASSUME NEW c, Tidy(c), NEW r \in Roots,
         NEW t, t = touch_current_root(LedgerOf(c), r), NEW u, u = kept_roots(t)
  PROVE  /\ ToSet(t) = ToSet(LedgerOf(c)) \cup {r} /\ ToSet(u) \subseteq ToSet(t)
         /\ u \in Seq(Roots) /\ IsInjective(u)
         /\ Len(u) \in 1..MAX_STAT_ROOTS /\ u[Len(u)] = r
<1> DEFINE s == LedgerOf(c)
<1>1. s \in Seq(Roots) /\ IsInjective(s)
  BY DEF Tidy, LedgerOf, CacheFiles, IsInjective
<1>2. t = touch_current_root(s, r)
  OBVIOUS
<1> HIDE DEF s
<1>3. /\ ToSet(t) = ToSet(s) \cup {r} /\ ToSet(u) \subseteq ToSet(t)
      /\ u \in Seq(Roots) /\ IsInjective(u)
      /\ Len(u) \in 1..MAX_STAT_ROOTS /\ u[Len(u)] = r
  BY <1>1, <1>2, LedgerFacts
<1> QED BY <1>3 DEF s

\* The slot a finished run leaves is tidy, warm for its own checkout, and
\* keeps the claims of the others.
LEMMA FinishFacts ==
  ASSUME NEW c, Tidy(c), NEW es \in [Keys -> Entries \cup {None}], NEW r \in Roots, NEW td,
         NEW rs, Known(es, c, r, td, rs), NEW found, found = {k \in Keys : rs[k] # None},
         NEW new, new = complete(c, es, r, found)
  PROVE  /\ new # None /\ Tidy(new)
         /\ new.roots[Len(new.roots)] = r
         /\ {k \in Keys : new.entries[k] # None /\ new.entries[k].stats[r] # None} = found
         /\ \A k \in found : new.entries[k].payload = rs[k]
         /\ \A k \in Keys, q \in Roots \ {r} :
              /\ EntryOf(c, k) # None
              /\ EntryOf(c, k).stats[q] # None
              /\ q \in ToSet(new.roots)
              => /\ new.entries[k] # None
                 /\ \/ new.entries[k].stats[q] = EntryOf(c, k).stats[q]
                    \/ k \in found /\ new.entries[k].file_sha256 # EntryOf(c, k).file_sha256
<1> DEFINE s == LedgerOf(c)
           t == touch_current_root(s, r)
           g(k) == (ToSet(t) \ ToSet(new.roots)) \cup (IF k \in found THEN {} ELSE {r})
<1>t. t = touch_current_root(LedgerOf(c), r) /\ s = LedgerOf(c)
  OBVIOUS
<1>u. Completed(new, es, r, found, t)
  BY <1>t, CompleteFacts
<1> HIDE DEF s, t
<1>2. /\ new.roots = kept_roots(t)
      /\ new.entries \in [Keys -> Entries \cup {None}]
      /\ new = [roots |-> new.roots, entries |-> new.entries]
  BY <1>u DEF Completed
<1>3. ASSUME NEW k \in Keys
      PROVE  /\ new.entries[k] = None <=> (es[k] = None \/ Claimants(es[k]) \subseteq g(k))
             /\ new.entries[k] # None =>
                  /\ new.entries[k].file_sha256 = es[k].file_sha256
                  /\ new.entries[k].payload = es[k].payload
                  /\ Claimants(new.entries[k]) = Claimants(es[k]) \ g(k)
                  /\ \A q \in Roots \ g(k) : new.entries[k].stats[q] = es[k].stats[q]
  BY <1>u DEF Completed
<1>4. /\ ToSet(t) = ToSet(s) \cup {r} /\ ToSet(new.roots) \subseteq ToSet(t)
      /\ new.roots \in Seq(Roots) /\ IsInjective(new.roots)
      /\ Len(new.roots) \in 1..MAX_STAT_ROOTS /\ new.roots[Len(new.roots)] = r
  <2> DEFINE u == new.roots
  <2>1. u = kept_roots(t)
    BY <1>2
  <2> HIDE DEF u
  <2>2. /\ ToSet(t) = ToSet(LedgerOf(c)) \cup {r} /\ ToSet(u) \subseteq ToSet(t)
        /\ u \in Seq(Roots) /\ IsInjective(u)
        /\ Len(u) \in 1..MAX_STAT_ROOTS /\ u[Len(u)] = r
    BY <1>t, <2>1, LedgerAfter
  <2> QED BY <1>t, <2>2 DEF u
<1>5. r \in ToSet(new.roots)
  <2>1. Len(new.roots) \in DOMAIN new.roots
    BY <1>4
  <2> QED BY <1>4, <2>1 DEF ToSet
<1>6. new \in CacheFiles /\ new # None
  BY <1>2, <1>4, ValuesAssumption DEF CacheFiles
<1>7. ASSUME NEW k \in Keys, new.entries[k] # None
      PROVE  /\ Claimants(new.entries[k]) # {}
             /\ Claimants(new.entries[k]) \subseteq ToSet(new.roots)
  <2>1. Claimants(es[k]) \subseteq ToSet(t)
    BY <1>3, <1>4, <1>7 DEF Known, s
  <2> QED BY <1>3, <1>7, <2>1
<1>8. Tidy(new)
  BY <1>4, <1>6, <1>7 DEF Tidy
<1>9. ASSUME NEW k \in found
      PROVE  /\ new.entries[k] # None /\ new.entries[k].stats[r] # None
             /\ new.entries[k].payload = rs[k]
  <2>1. k \in Keys /\ es[k] # None /\ es[k].stats[r] # None /\ es[k].payload = rs[k]
    BY DEF Known
  <2>2. r \notin g(k) /\ r \in Claimants(es[k])
    BY <1>5, <2>1 DEF Claimants
  <2>3. new.entries[k] # None
    BY <1>3, <2>1, <2>2
  <2> QED BY <1>3, <2>1, <2>2, <2>3
<1>10. ASSUME NEW k \in Keys \ found, new.entries[k] # None
       PROVE  new.entries[k].stats[r] = None
  <2>1. r \notin Claimants(new.entries[k])
    BY <1>3, <1>10
  <2> QED BY <2>1 DEF Claimants
<1>11. ASSUME NEW k \in Keys, NEW q \in Roots \ {r}, EntryOf(c, k) # None,
              EntryOf(c, k).stats[q] # None, q \in ToSet(new.roots)
       PROVE  /\ new.entries[k] # None
              /\ \/ new.entries[k].stats[q] = EntryOf(c, k).stats[q]
                 \/ k \in found /\ new.entries[k].file_sha256 # EntryOf(c, k).file_sha256
  <2>1. q \notin g(k)
    BY <1>11
  <2>2. Succeeds(es[k], EntryOf(c, k), r) /\ (k \notin found => es[k] = EntryOf(c, k))
    BY DEF Known
  <2>3. CASE es[k].file_sha256 = EntryOf(c, k).file_sha256
    <3>1. es[k] # None /\ es[k].stats[q] = EntryOf(c, k).stats[q]
      BY <1>11, <2>2, <2>3 DEF Succeeds
    <3>2. q \in Claimants(es[k])
      BY <1>11, <3>1 DEF Claimants
    <3>3. new.entries[k] # None
      BY <1>3, <2>1, <3>1, <3>2
    <3> QED BY <1>3, <2>1, <3>1, <3>3
  <2>4. CASE es[k].file_sha256 # EntryOf(c, k).file_sha256
    <3>1. k \in found
      BY <2>2, <2>4
    <3> QED BY <1>3, <1>9, <2>4, <3>1
  <2> QED BY <2>3, <2>4
<1>12. {k \in Keys : new.entries[k] # None /\ new.entries[k].stats[r] # None} = found
  BY <1>9, <1>10
<1> QED BY <1>4, <1>6, <1>8, <1>9, <1>11, <1>12

(***************************************************************************)
(* The slot stays tidy.                                                     *)
(***************************************************************************)
LEMMA InitTidy == Init => TidyInv
<1> SUFFICES ASSUME Init PROVE TidyInv
  OBVIOUS
<1>1. ASSUME NEW p \in Processes
      PROVE  /\ entries[p] = NoEntries /\ baseline[p] = None /\ command[p] = NoCommand
             /\ todo[p] = {} /\ result[p] = NoEntries
  BY DEF Init
<1>2. slot = None /\ NoCommand.root = None
  BY DEF Init, NoCommand
<1> QED BY <1>1, <1>2, OverKnows DEF TidyInv, Tidy

\* A step of a command that leaves the other commands and the slot alone.
LEMMA OwnStepTidy ==
  ASSUME TidyInv, Tidy(slot'), NEW p \in Processes,
         \A q \in Processes \ {p} :
           /\ entries'[q] = entries[q] /\ baseline'[q] = baseline[q] /\ command'[q] = command[q]
           /\ todo'[q] = todo[q] /\ result'[q] = result[q] /\ phase'[q] = phase[q],
         Tidy(baseline'[p]),
         Known(entries'[p], baseline'[p], command'[p].root, todo'[p], result'[p]),
         phase'[p] \in Idle => result'[p] = NoEntries
  PROVE  TidyInv'
<1> SUFFICES ASSUME NEW q \in Processes
             PROVE  /\ Tidy(baseline'[q])
                    /\ Known(entries'[q], baseline'[q], command'[q].root, todo'[q], result'[q])
                    /\ phase'[q] \in Idle => result'[q] = NoEntries
  BY DEF TidyInv, Idle
<1>1. CASE q = p
  BY <1>1
<1>2. CASE q # p
  <2>1. /\ entries'[q] = entries[q] /\ baseline'[q] = baseline[q] /\ command'[q] = command[q]
        /\ todo'[q] = todo[q] /\ result'[q] = result[q] /\ phase'[q] = phase[q]
    BY <1>2
  <2> QED BY <2>1 DEF TidyInv
<1> QED BY <1>1, <1>2

LEMMA EndTidy ==
  ASSUME CacheInv, TidyInv, NEW p \in Processes, NEW how \in Idle, End(p, how), Tidy(slot')
  PROVE  TidyInv'
<1>1. /\ phase' = [phase EXCEPT ![p] = how]
      /\ todo' = [todo EXCEPT ![p] = {}]
      /\ baseline' = [baseline EXCEPT ![p] = None]
      /\ entries' = [entries EXCEPT ![p] = NoEntries]
      /\ result' = [result EXCEPT ![p] = NoEntries]
      /\ command' = [command EXCEPT ![p] = NoCommand]
  BY DEF End
<1>2. /\ entries'[p] = NoEntries /\ baseline'[p] = None /\ command'[p].root = None
      /\ todo'[p] = {} /\ result'[p] = NoEntries
  BY <1>1 DEF CacheInv, Shape, NoCommand
<1>3. \A q \in Processes \ {p} :
        /\ entries'[q] = entries[q] /\ baseline'[q] = baseline[q] /\ command'[q] = command[q]
        /\ todo'[q] = todo[q] /\ result'[q] = result[q] /\ phase'[q] = phase[q]
  BY <1>1 DEF CacheInv, Shape
<1>4. Known(entries'[p], baseline'[p], command'[p].root, todo'[p], result'[p])
  BY <1>2, OverKnows
<1>5. Tidy(baseline'[p])
  BY <1>2 DEF Tidy
<1> QED BY <1>2, <1>3, <1>4, <1>5, OwnStepTidy

LEMMA LoadTidy ==
  ASSUME CacheInv, TidyInv, NEW p \in Processes, phase[p] \in {"stat", "open", "read"},
         NEW x \in Facts, NEW e \in Entries, Load(p, x, [entries[p] EXCEPT ![doc(p)] = e]),
         e.payload = x, e.stats[command[p].root] # None,
         Claimants(e) \subseteq {command[p].root} \cup
           (IF entries[p][doc(p)] = None THEN {} ELSE Claimants(entries[p][doc(p)])),
         Succeeds(e, entries[p][doc(p)], command[p].root)
  PROVE  TidyInv'
<1> DEFINE d == doc(p)
           r == command[p].root
           es == [entries[p] EXCEPT ![d] = e]
           rest == todo[p] \ {d}
           next == IF rest = {} THEN "build" ELSE FirstTier(p, es, First(rest))
<1>1. d \in Keys /\ d \in todo[p] /\ r \in Roots
  BY DocType DEF CacheInv
<1>2. /\ result' = [result EXCEPT ![p][d] = x]
      /\ entries' = [entries EXCEPT ![p] = es]
      /\ todo' = [todo EXCEPT ![p] = rest]
      /\ phase' = [phase EXCEPT ![p] = next]
      /\ UNCHANGED <<slot, command, baseline>>
  BY DEF Load, Proceed
<1>3. next \notin Idle
  BY Tier DEF Idle
<1>4. entries[p] \in [Keys -> Entries \cup {None}] /\ result[p] \in [Keys -> Facts \cup {None}]
  BY DEF CacheInv, Shape
<1>5. Known(es, baseline[p], r, rest, [result[p] EXCEPT ![d] = x])
  <2>1. Known(entries[p], baseline[p], r, todo[p], result[p])
    BY DEF TidyInv
  <2> HIDE DEF d, r
  <2>2. /\ Claimants(e) \subseteq {r} \cup (IF entries[p][d] = None THEN {} ELSE Claimants(entries[p][d]))
        /\ Succeeds(e, entries[p][d], r) /\ e.stats[r] # None
    BY DEF d, r
  <2> QED BY <1>1, <1>4, <2>1, <2>2, LoadKnows
<1> HIDE DEF d, next, es, rest
<1>6. /\ entries'[p] = es /\ result'[p] = [result[p] EXCEPT ![d] = x] /\ todo'[p] = rest
      /\ phase'[p] = next /\ baseline'[p] = baseline[p] /\ command'[p] = command[p]
  BY <1>2 DEF CacheInv, Shape
<1>7. \A q \in Processes \ {p} :
        /\ entries'[q] = entries[q] /\ baseline'[q] = baseline[q] /\ command'[q] = command[q]
        /\ todo'[q] = todo[q] /\ result'[q] = result[q] /\ phase'[q] = phase[q]
  BY <1>2 DEF CacheInv, Shape
<1>8. Known(entries'[p], baseline'[p], command'[p].root, todo'[p], result'[p])
  BY <1>5, <1>6
<1>9. Tidy(baseline'[p]) /\ Tidy(slot')
  BY <1>2, <1>6 DEF TidyInv
<1>10. phase'[p] \notin Idle
  BY <1>3, <1>6
<1> QED BY <1>7, <1>8, <1>9, <1>10, OwnStepTidy

\* A step that changes nothing a command remembers.
LEMMA OtherTidy ==
  ASSUME TidyInv, Tidy(slot'), UNCHANGED <<entries, baseline, command, todo, result>>,
         \A q \in Processes : phase'[q] \in Idle => phase[q] \in Idle
  PROVE  TidyInv'
  BY DEF TidyInv, Idle

LEMMA FinalFacts ==
  ASSUME CacheInv, TidyInv, NEW p \in Processes, phase[p] \notin Idle,
         NEW new, new = Final(p)
  PROVE  /\ new # None /\ Tidy(new)
         /\ new.roots[Len(new.roots)] = command[p].root
         /\ {k \in Keys : new.entries[k] # None /\ new.entries[k].stats[command[p].root] # None}
              = Discovered(p)
         /\ \A k \in Discovered(p) : new.entries[k].payload = result[p][k]
         /\ \A k \in Keys, q \in Roots \ {command[p].root} :
              /\ EntryOf(baseline[p], k) # None
              /\ EntryOf(baseline[p], k).stats[q] # None
              /\ q \in ToSet(new.roots)
              => /\ new.entries[k] # None
                 /\ \/ new.entries[k].stats[q] = EntryOf(baseline[p], k).stats[q]
                    \/ /\ k \in Discovered(p)
                       /\ new.entries[k].file_sha256 # EntryOf(baseline[p], k).file_sha256
<1> DEFINE r == command[p].root
           found == Discovered(p)
           es == entries[p]
           c == baseline[p]
           rs == result[p]
<1>1. r \in Roots
  BY DEF CacheInv, Working
<1>2. es \in [Keys -> Entries \cup {None}]
  BY DEF CacheInv, Shape
<1>3. Tidy(c) /\ Known(es, c, r, todo[p], rs)
  BY DEF TidyInv
<1>4. found = {k \in Keys : rs[k] # None}
  BY DEF Discovered
<1>5. new = complete(c, es, r, found)
  BY DEF Final
<1> HIDE DEF r, found, es, c, rs
<1>6. /\ new # None /\ Tidy(new)
      /\ new.roots[Len(new.roots)] = r
      /\ {k \in Keys : new.entries[k] # None /\ new.entries[k].stats[r] # None} = found
      /\ \A k \in found : new.entries[k].payload = rs[k]
      /\ \A k \in Keys, q \in Roots \ {r} :
           /\ EntryOf(c, k) # None
           /\ EntryOf(c, k).stats[q] # None
           /\ q \in ToSet(new.roots)
           => /\ new.entries[k] # None
              /\ \/ new.entries[k].stats[q] = EntryOf(c, k).stats[q]
                 \/ k \in found /\ new.entries[k].file_sha256 # EntryOf(c, k).file_sha256
  BY <1>1, <1>2, <1>3, <1>4, <1>5, FinishFacts
<1> QED BY <1>6 DEF r, found, es, c, rs

LEMMA StepTidy ==
  ASSUME CacheInv, TidyInv, NEW p \in Processes, Step(p)
  PROVE  TidyInv'
<1>s. Tidy(slot)
  BY DEF TidyInv
<1>1. ASSUME NEW r \in Roots, NEW v \in BOOLEAN, NEW w \in BOOLEAN, Begin(p, r, v, w)
      PROVE  TidyInv'
  <2> DEFINE es == IF slot = None THEN NoEntries ELSE slot.entries
             found == {k \in Keys : path[r][k] # None}
             next == IF found = {} THEN "build" ELSE FirstTier(p, es, First(found))
             made == [root |-> r, trust |-> cache_trust_stat /\ ~v, persist |-> w]
  <2>1. /\ command' = [command EXCEPT ![p] = made]
        /\ baseline' = [baseline EXCEPT ![p] = slot]
        /\ entries' = [entries EXCEPT ![p] = es]
        /\ todo' = [todo EXCEPT ![p] = found]
        /\ phase' = [phase EXCEPT ![p] = next]
        /\ phase[p] \in Idle
        /\ UNCHANGED <<slot, result>>
    BY <1>1 DEF Begin, Proceed
  <2>2. next \notin Idle
    BY Tier DEF Idle
  <2>3. es = (IF slot = None THEN NoEntries ELSE slot.entries)
    OBVIOUS
  <2> HIDE DEF es, found, next, made
  <2>4. /\ entries'[p] = es /\ baseline'[p] = slot /\ todo'[p] = found /\ phase'[p] = next
        /\ result'[p] = NoEntries
    BY <2>1 DEF CacheInv, Shape, TidyInv
  <2>5. \A q \in Processes \ {p} :
          /\ entries'[q] = entries[q] /\ baseline'[q] = baseline[q] /\ command'[q] = command[q]
          /\ todo'[q] = todo[q] /\ result'[q] = result[q] /\ phase'[q] = phase[q]
    BY <2>1 DEF CacheInv, Shape
  <2>6. Known(es, slot, command'[p].root, found, NoEntries)
    BY <1>s, <2>3, BeginKnows
  <2>7. Known(entries'[p], baseline'[p], command'[p].root, todo'[p], result'[p])
    BY <2>4, <2>6
  <2>8. Tidy(slot') /\ Tidy(baseline'[p]) /\ phase'[p] \notin Idle
    BY <1>s, <2>1, <2>2, <2>4
  <2> QED BY <2>5, <2>7, <2>8, OwnStepTidy
<1>2. CASE StatHit(p) \/ VerifiedHit(p) \/ Miss(p)
  <2> DEFINE old == entries[p][doc(p)]
             r == command[p].root
             b == file[handle[p].id].bytes
  <2>1. /\ phase[p] \in {"stat", "open", "read"}
        /\ phase[p] = "stat" => old # None /\ old.stats[r] # None
        /\ phase[p] = "read" => handle[p] \in Stats /\ b \in Bytes
    BY <1>2 DEF StatHit, VerifiedHit, Miss, CacheInv, Working, Shape, Stats
  <2>2. doc(p) \in Keys /\ r \in Roots
    BY <2>1, DocType DEF CacheInv
  <2>3. entries[p] \in [Keys -> Entries \cup {None}]
    BY DEF CacheInv, Shape
  <2>4. old \in Entries \cup {None} /\ [entries[p] EXCEPT ![doc(p)] = old] = entries[p]
    BY <2>2, <2>3
  <2>5. CASE StatHit(p)
    <3>1. phase[p] = "stat" /\ Load(p, old.payload, [entries[p] EXCEPT ![doc(p)] = old])
      BY <2>4, <2>5 DEF StatHit
    <3>2. old \in Entries /\ old.payload \in Facts
      BY <2>1, <2>4, <3>1 DEF Entries
    <3>3. Succeeds(old, old, r)
      BY DEF Succeeds
    <3>4. Claimants(old) \subseteq {r} \cup (IF old = None THEN {} ELSE Claimants(old))
      BY <2>1, <3>1
    <3> QED BY <2>1, <3>1, <3>2, <3>3, <3>4, LoadTidy
  <2>6. CASE VerifiedHit(p)
    <3> DEFINE d == claim(old, r, handle[p])
    <3>1. phase[p] = "read" /\ old # None /\ Load(p, old.payload, [entries[p] EXCEPT ![doc(p)] = d])
      BY <2>2, <2>3, <2>6 DEF VerifiedHit, Verified
    <3>2. old \in Entries /\ old.payload \in Facts
      BY <2>4, <3>1 DEF Entries
    <3>3. /\ d \in Entries /\ d.payload = old.payload /\ d.stats[r] # None
          /\ Claimants(d) \subseteq {r} \cup Claimants(old) /\ Succeeds(d, old, r)
      BY <2>1, <2>2, <3>1, <3>2, ClaimFacts
    <3> HIDE DEF d
    <3>4. Claimants(d) \subseteq {r} \cup (IF old = None THEN {} ELSE Claimants(old))
      BY <3>1, <3>3
    <3> QED BY <2>1, <3>1, <3>2, <3>3, <3>4, LoadTidy
  <2>7. CASE Miss(p)
    <3> DEFINE d == make_entry(b, handle[p], r)
    <3>1. /\ phase[p] = "read" /\ Parse[b] # Malformed
          /\ Load(p, Parse[b], [entries[p] EXCEPT ![doc(p)] = d])
          /\ old # None => old.file_sha256 # b
      BY <2>7 DEF Miss, Verified
    <3>2. Parse[b] \in Facts
      BY <2>1, <3>1, ParseAssumption
    <3>3. /\ d \in Entries /\ d.payload = Parse[b] /\ d.file_sha256 = b
          /\ d.stats[r] # None /\ Claimants(d) \subseteq {r}
      BY <2>1, <2>2, <3>1, FreshFacts
    <3> HIDE DEF d
    <3>4. Succeeds(d, old, r)
      BY <3>1, <3>3, ValuesAssumption DEF Succeeds
    <3>5. Claimants(d) \subseteq {r} \cup (IF old = None THEN {} ELSE Claimants(old))
      BY <3>3
    <3> QED BY <2>1, <3>1, <3>2, <3>3, <3>4, <3>5, LoadTidy
  <2> QED BY <1>2, <2>5, <2>6, <2>7
<1>3. CASE StatMiss(p) \/ Open(p) \/ Build(p)
  <2>1. /\ UNCHANGED <<slot, entries, baseline, command, todo, result>>
        /\ phase' = [phase EXCEPT ![p] = phase'[p]] /\ phase'[p] \notin Idle
    BY <1>3 DEF StatMiss, Open, Build, progress, Idle, CacheInv, Shape
  <2>2. \A q \in Processes : phase'[q] \in Idle => phase[q] \in Idle
    <3> SUFFICES ASSUME NEW q \in Processes, phase'[q] \in Idle PROVE phase[q] \in Idle
      OBVIOUS
    <3>1. q # p
      BY <2>1
    <3> QED BY <2>1, <3>1 DEF CacheInv, Shape
  <2> QED BY <1>s, <2>1, <2>2, OtherTidy
<1>4. CASE Unreadable(p) \/ ParseFails(p) \/ BuildFails(p)
  <2>1. End(p, "error") /\ slot' = slot
    BY <1>4 DEF Unreadable, ParseFails, BuildFails
  <2> QED BY <1>s, <2>1, EndTidy DEF Idle
<1>5. CASE Save(p)
  <2>1. End(p, "ok") /\ (slot' = slot \/ slot' = Final(p)) /\ phase[p] \notin Idle
    BY <1>5 DEF Save, Idle
  <2>2. Tidy(Final(p))
    BY <2>1, FinalFacts
  <2> QED BY <1>s, <2>1, <2>2, EndTidy DEF Idle
<1> QED BY <1>1, <1>2, <1>3, <1>4, <1>5 DEF Step

LEMMA EnvironmentTidy ==
  ASSUME CacheInv, TidyInv, Environment
  PROVE  TidyInv'
<1>s. Tidy(slot) /\ Tidy(None)
  BY DEF TidyInv, Tidy
<1>1. ASSUME NEW p \in Processes, Kill(p) PROVE TidyInv'
  BY <1>1, <1>s, EndTidy DEF Kill, Idle
<1>2. CASE \/ \E f \in Files : \E b \in Bytes, t \in 0..(ticks[f] + 1) : Write(f, b, t)
           \/ \E r \in Roots, k \in Keys, f \in Files \cup {None} : Link(r, k, f)
           \/ \E f \in Files : Chmod(f)
           \/ Discard
  <2>1. /\ slot' = slot \/ slot' = None
        /\ UNCHANGED <<phase, entries, baseline, command, todo, result>>
    BY <1>2 DEF Write, Link, Chmod, Discard, progress
  <2> QED BY <1>s, <2>1, OtherTidy
<1> QED BY <1>1, <1>2 DEF Environment

LEMMA TidyInvAlways == Spec => [](CacheInv /\ TidyInv)
<1>1. CacheInv /\ TidyInv /\ [Next]_vars => TidyInv'
  <2> SUFFICES ASSUME CacheInv, TidyInv, [Next]_vars PROVE TidyInv'
    OBVIOUS
  <2>1. CASE UNCHANGED vars
    BY <2>1 DEF vars, progress, TidyInv
  <2> QED BY <2>1, StepTidy, EnvironmentTidy DEF Next
<1> QED BY <1>1, InitTidy, CacheInvAlways, PTL DEF Spec

\* Whatever commands of whatever checkouts wrote the slot, one over the other,
\* it holds at most MAX_STAT_ROOTS roots, none twice, no claim of a root that
\* left the ledger and no entry that nobody claims.
THEOREM SlotStaysTidy == Spec => []SlotIsTidy
<1>1. CacheInv /\ TidyInv => SlotIsTidy
  <2> SUFFICES ASSUME CacheInv, TidyInv PROVE SlotIsTidy
    OBVIOUS
  <2>1. slot \in CacheFiles \cup {None} /\ baseline \in [Processes -> CacheFiles \cup {None}]
    BY DEF CacheInv, Shape, TidyInv, Tidy
  <2>2. TypeOK
    BY <2>1 DEF TypeOK, CacheInv, Shape
  <2> QED BY <2>2 DEF SlotIsTidy, TidyInv, Tidy, Claimants
<1> QED BY <1>1, TidyInvAlways, PTL

\* A command that writes the slot claims there what it discovered, with the
\* facts it answered, and leaves the claims of the other checkouts as it found
\* them except on documents whose bytes differ in its own.
THEOREM SavesDoKeepTheSlotWarm == Spec => SavesKeepTheSlotWarm
<1>1. ASSUME CacheInv, TidyInv, [Next]_vars, NEW p \in Processes, Saves(p)
      PROVE  OthersKeepTheirClaims(p) /\ WriterIsWarm(p)
  <2>1. slot' = Final(p) /\ phase[p] \notin Idle
    <3>1. phase[p] = "save" /\ phase'[p] = "ok" /\ slot' # slot
      BY <1>1 DEF Saves
    <3>2. ASSUME NEW q \in Processes, Step(q) PROVE slot' = Final(p)
      <4>1. Save(q)
        BY <3>1, <3>2 DEF Step, Begin, StatHit, StatMiss, Open, Unreadable, VerifiedHit, Miss,
           ParseFails, Build, BuildFails, Load
      <4>2. q = p
        <5>1. phase' = [phase EXCEPT ![q] = "ok"]
          BY <4>1 DEF Save, End
        <5> QED BY <3>1, <5>1 DEF CacheInv, Shape
      <4> QED BY <3>1, <4>1, <4>2 DEF Save
    <3>3. ~ Environment
      <4>1. ASSUME NEW q \in Processes, Kill(q) PROVE FALSE
        BY <3>1, <4>1 DEF Kill
      <4>2. ASSUME \/ \E f \in Files : \E b \in Bytes, t \in 0..(ticks[f] + 1) : Write(f, b, t)
                   \/ \E r \in Roots, k \in Keys, f \in Files \cup {None} : Link(r, k, f)
                   \/ \E f \in Files : Chmod(f)
                   \/ Discard
            PROVE  FALSE
        BY <3>1, <4>2 DEF Write, Link, Chmod, Discard
      <4> QED BY <4>1, <4>2 DEF Environment
    <3>4. vars' # vars
      BY <3>1 DEF vars
    <3> QED BY <1>1, <3>1, <3>2, <3>3, <3>4 DEF Next, Idle
  <2> DEFINE new == Final(p)
  <2>2. /\ new.roots[Len(new.roots)] = command[p].root
        /\ {k \in Keys : new.entries[k] # None /\ new.entries[k].stats[command[p].root] # None}
             = Discovered(p)
        /\ \A k \in Discovered(p) : new.entries[k].payload = result[p][k]
        /\ \A k \in Keys, q \in Roots \ {command[p].root} :
             /\ EntryOf(baseline[p], k) # None
             /\ EntryOf(baseline[p], k).stats[q] # None
             /\ q \in ToSet(new.roots)
             => /\ new.entries[k] # None
                /\ \/ new.entries[k].stats[q] = EntryOf(baseline[p], k).stats[q]
                   \/ /\ k \in Discovered(p)
                      /\ new.entries[k].file_sha256 # EntryOf(baseline[p], k).file_sha256
    BY <1>1, <2>1, FinalFacts
  <2> HIDE DEF new
  <2>3. slot' = new
    BY <2>1 DEF new
  <2>4. OthersKeepTheirClaims(p)
    BY <2>2, <2>3 DEF OthersKeepTheirClaims, EntryOf
  <2>5. WriterIsWarm(p)
    BY <2>2, <2>3 DEF WriterIsWarm
  <2> QED BY <2>4, <2>5
<1>2. CacheInv /\ TidyInv /\ [Next]_vars =>
        [\A p \in Processes : Saves(p) => OthersKeepTheirClaims(p) /\ WriterIsWarm(p)]_vars
  BY <1>1
<1> QED BY <1>2, TidyInvAlways, PTL DEF Spec, SavesKeepTheSlotWarm
=============================================================================
