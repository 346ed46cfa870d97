--------------------------- MODULE FrontmatterRewrite ---------------------------
(* How reconcile rewrites the `seen` values of one document's frontmatter: the    *)
(* planner works on the source (anchors, aliases and merge keys), the loader on   *)
(* data, and the rewrite is refused unless the edited source loads as the data    *)
(* that was meant.                                                                *)
EXTENDS Naturals, Sequences, FiniteSets

CONSTANTS
  Refs,         \* upstream references
  Hashes,       \* values of `seen`
  Dashes,       \* a hash whose source is escaped and whose plain spelling has `--`
  Names,        \* anchor names of scalars; a name may be used again
  NoName, Absent, Null,
  Templates,    \* the documents of an instance: sequences of mappings to start with,
  Entry(_),     \* the entries that may follow a sequence,
  More(_),      \* the sequences of further entries,
  Tails(_),     \* and the members after the list
  Selections    \* the requested updates of an instance: functions from Refs to Hashes

VARIABLES doc, updates, applied, outcome, rounds

vars == <<doc, updates, applied, outcome, rounds>>

(* A document is a sequence of mappings, of which those before `first` are       *)
(* templates and the others the entries of `derives_from`, and one more member   *)
(* after the list.  A mapping is written out ("map") or an alias of an earlier   *)
(* one.  Where an anchor names a mapping it is identified by the mapping's       *)
(* position; the anchors of scalars have names.                                  *)

NoSeen == [form |-> "none", v |-> Absent, a |-> NoName]
Value(v, a) == [form |-> "value", v |-> v, a |-> a]
Written(v) == Value(v, NoName)
AliasOf(a) == [form |-> "alias", v |-> Absent, a |-> a]
Listed == [form |-> "list", v |-> Null, a |-> NoName]

Mapping(ref, seen, merge) == [kind |-> "map", ref |-> ref, seen |-> seen,
                              merge |-> merge, of |-> 0]
ItemAlias(j) == [kind |-> "alias", ref |-> Absent, seen |-> NoSeen,
                 merge |-> <<>>, of |-> j]

NoTail == [form |-> "none", v |-> Absent, a |-> NoName, of |-> 0]
ScalarTail(a) == [form |-> "alias", v |-> Absent, a |-> a, of |-> 0]
MergeTail(j) == [form |-> "merge", v |-> Absent, a |-> NoName, of |-> j]

-----------------------------------------------------------------------------
(* The loader.                                                               *)

Items(d) == 1 .. Len(d.items)
Entries(d) == d.first .. Len(d.items)

\* Where name a is defined in source, and the definition that an alias at i reads.
Definitions(d, a) ==
  {j \in Items(d) : d.items[j].seen.form = "value" /\ d.items[j].seen.a = a}

Latest(S) == IF S = {} THEN 0 ELSE CHOOSE j \in S : \A k \in S : k <= j

Binding(d, i, a) == Latest({j \in Definitions(d, a) : j < i})

OwnSeen(d, i) ==
  LET s == d.items[i].seen IN
  IF s.form = "alias" THEN d.items[Binding(d, i, s.a)].seen.v ELSE s.v

\* What the first source of a merge key has that has any.
FirstOf(sources, member, none) ==
  LET has == {n \in 1 .. Len(sources) : member[sources[n]] # none}
  IN  IF has = {} THEN none
      ELSE member[sources[CHOOSE n \in has : \A o \in has : n <= o]]

Loaded(d, own) ==
  LET f[i \in Items(d)] ==
        LET item == d.items[i] IN
        IF item.kind = "alias" THEN f[item.of]
        ELSE IF own[i] # Absent THEN own[i]
        ELSE FirstOf(item.merge, f, Absent)
  IN  f

LoadedRef(d) == Loaded(d, [i \in Items(d) |-> d.items[i].ref])
LoadedSeen(d) == Loaded(d, [i \in Items(d) |-> OwnSeen(d, i)])

\* An alias and its definition are one loaded object; a merge copies.
Object(d, i) == IF d.items[i].kind = "alias" THEN d.items[i].of ELSE i

LoadedTail(d) ==
  IF d.tail.form = "alias"
    THEN d.items[Binding(d, Len(d.items) + 1, d.tail.a)].seen.v
  ELSE IF d.tail.form = "merge" THEN LoadedSeen(d)[d.tail.of]
  ELSE d.tail.v

\* Every alias has a definition before it.
Loads(d) ==
  /\ \A i \in Items(d) : d.items[i].seen.form = "alias" =>
       Binding(d, i, d.items[i].seen.a) # 0
  /\ d.tail.form = "alias" => Binding(d, Len(d.items) + 1, d.tail.a) # 0

-----------------------------------------------------------------------------
(* What there is to start with: entries alias and merge mappings before them. *)

Seens == {NoSeen, Listed} \cup {AliasOf(a) : a \in Names}
         \cup {Value(v, a) : v \in Hashes \cup {Null}, a \in Names \cup {NoName}}

Mappings(d, i) == {j \in Items(d) : j < i /\ d.items[j].kind = "map"}

Shaped(d) ==
  /\ d \in [kind : {"fence", "comment"}, first : Nat,
            items : Seq([kind : {"map", "alias"}, ref : Refs \cup {Absent}, seen : Seens,
                         merge : Seq(Nat), of : Nat]),
            tail : [form : {"none", "alias", "merge"}, v : Hashes \cup {Null, Absent},
                    a : Names \cup {NoName}, of : Nat]]
  /\ d.first > 0
  /\ \A i \in Items(d) :
       LET item == d.items[i] IN
       /\ item.kind = "alias" => item = ItemAlias(item.of) /\ item.of \in Mappings(d, i)
       /\ \A n \in DOMAIN item.merge : item.merge[n] \in Mappings(d, i)
  /\ d.tail.form = "alias" => d.tail.a \in Names
  /\ d.tail.form = "merge" => d.tail.of \in Items(d)

Document(k, templates, entries, tail) ==
  [kind |-> k, items |-> templates \o entries, first |-> Len(templates) + 1, tail |-> tail]

ASSUME RewriteAssumption ==
  /\ Dashes \in Hashes /\ NoName \notin Names
  /\ Absent \notin Hashes \cup Refs /\ Null \notin Hashes /\ Absent # Null
  /\ Selections \subseteq UNION {[R -> Hashes] : R \in SUBSET Refs}
  /\ \A t \in Templates : \A a \in Entry(t) : \A b \in Entry(Append(t, a)) :
       \A m \in More(t \o <<a, b>>), k \in {"fence", "comment"}, e \in Tails(t \o <<a, b>>) :
         Shaped(Document(k, t, <<a, b>> \o m, e))

-----------------------------------------------------------------------------
(* The planner: which entries are edited, and how.                           *)

\* An entry that holds its planned value already is left alone.
Selected(d, u, i) ==
  LET ref == LoadedRef(d)[i] IN
  /\ i \in Entries(d) /\ ref \in DOMAIN u
  /\ LoadedSeen(d)[i] # u[ref]

\* Entries whose own source was edited before entry i came up.
updated_definitions(d, u, i) ==
  {j \in Entries(d) : j < i /\ Selected(d, u, j) /\ d.items[j].kind = "map"}

EditsAlias(d, u, i) ==
  /\ Selected(d, u, i) /\ d.items[i].kind = "alias"
  /\ d.items[i].of \notin updated_definitions(d, u, i)

EditsSeen(d, u, i) == Selected(d, u, i) /\ d.items[i].kind = "map"

\* A value that is a collection is refused, as is an entry without a reference.
Malformed(d, u) ==
  \/ \E i \in Entries(d) : LoadedRef(d)[i] = Absent
  \/ \E i \in Entries(d) : EditsSeen(d, u, i) /\ d.items[i].seen.form = "list"

\* A replaced scalar leaves its anchor behind.  The first alias that read it and
\* is not edited itself takes over the anchor and the old value.  A later
\* definition of the same name ends the reach of this one.
Displaced(d, u) ==
  {i \in Entries(d) : /\ EditsSeen(d, u, i) /\ d.items[i].seen.form = "value"
                      /\ d.items[i].seen.a # NoName}

Readers(d, i) ==
  LET a == d.items[i].seen.a IN
  {k \in Items(d) : /\ d.items[k].seen.form = "alias" /\ d.items[k].seen.a = a
                    /\ Binding(d, k, a) = i}
  \cup {k \in {Len(d.items) + 1} : /\ d.tail.form = "alias" /\ d.tail.a = a
                                   /\ Binding(d, k, a) = i}

\* (wrong: the alias that takes over may be one that is edited itself)
HeirEdited(d, u, i) ==
  IF Readers(d, i) = {} THEN 0
  ELSE CHOOSE k \in Readers(d, i) : \A o \in Readers(d, i) : k <= o

Heir(d, u, i) ==
  LET untouched == {k \in Readers(d, i) : ~EditsSeen(d, u, k)}
  IN  IF untouched = {} THEN 0
      ELSE CHOOSE k \in untouched : \A o \in untouched : k <= o

Moved(d, i) == Value(d.items[i].seen.v, d.items[i].seen.a)

\* A value is replaced where it stands, without its anchor and tag, and an alias of
\* a value by a value.
Replaced(item, v) == [item EXCEPT !.seen = Written(v)]

\* An entry that spells no `seen` gets one as its last member.
Appended(item, v) == [item EXCEPT !.seen = Written(v)]

\* An alias becomes a mapping of its own that merges what it was an alias of.
Overridden(item, v) == Mapping(Absent, Written(v), <<item.of>>)

EditedItem(d, u, k) ==
  LET item == d.items[k]
      new == u[LoadedRef(d)[k]]
      left == {i \in Displaced(d, u) : Heir(d, u, i) = k}
  IN  IF EditsAlias(d, u, k) THEN Overridden(item, new)
      ELSE IF EditsSeen(d, u, k)
        THEN IF item.seen = NoSeen THEN Appended(item, new) ELSE Replaced(item, new)
      ELSE IF left # {} THEN [item EXCEPT !.seen = Moved(d, CHOOSE i \in left : TRUE)]
      ELSE item

EditedTail(d, u) ==
  LET left == {i \in Displaced(d, u) : Heir(d, u, i) = Len(d.items) + 1}
  IN  IF left = {} THEN d.tail
      ELSE [d.tail EXCEPT !.form = "none", !.v = d.items[CHOOSE i \in left : TRUE].seen.v]

\* All edits are measured against the old source and applied at once.
Edited(d, u) == [kind |-> d.kind, first |-> d.first, tail |-> EditedTail(d, u),
                 items |-> [k \in Items(d) |-> EditedItem(d, u, k)]]

-----------------------------------------------------------------------------
(* The data that the edited source has to load as.                           *)

\* Where an entry that spells no `seen` takes it from once the edits are made.
InheritedOrigin(d, origins) ==
  LET f[i \in Items(d)] ==
        LET from == [s \in Mappings(d, i) |->
                       IF s \in origins \/ d.items[s].seen # NoSeen THEN s ELSE f[s]]
        IN  FirstOf(d.items[i].merge, from, 0)
  IN  f

\* Entries that change because their merge source does, with the entry they follow.
Inherited(d, u) ==
  LET origins == {j \in Entries(d) : EditsSeen(d, u, j)}
      from == InheritedOrigin(d, origins)
  IN  [i \in {k \in Entries(d) : /\ ~Selected(d, u, k) /\ d.items[k].kind = "map"
                                 /\ d.items[k].seen = NoSeen /\ from[k] \in origins}
        |-> u[LoadedRef(d)[from[i]]]]

\* An alias site that gets a mapping of its own leaves the object it shared.
Class(d, u, i) ==
  IF Selected(d, u, i) THEN i ELSE Object(d, i)

Expected(d, u) ==
  LET direct == {i \in Entries(d) : Selected(d, u, i)}
      inherited == Inherited(d, u)
      now(i) == IF i \in direct THEN u[LoadedRef(d)[i]] ELSE inherited[i]
      all == direct \cup DOMAIN inherited
  IN  [k \in Items(d) |->
        LET here == {i \in all : Class(d, u, i) = Class(d, u, k)}
        IN  IF here = {} THEN LoadedSeen(d)[k]
            ELSE now(CHOOSE i \in here : \A j \in here : j <= i)]

\* (wrong: only the entries are compared with what was meant)
VerifiedEntries(d, u) ==
  LET new == Edited(d, u) IN
  /\ Loads(new)
  /\ \A i \in Entries(d) : LoadedSeen(new)[i] = Expected(d, u)[i]

Verified(d, u) ==
  LET new == Edited(d, u) IN
  /\ Loads(new)
  /\ LoadedSeen(new) = Expected(d, u)
  /\ LoadedRef(new) = LoadedRef(d)
  /\ LoadedTail(new) = LoadedTail(d)

\* In a comment envelope a relocated value must not spell the comment's end.
Respelled(d, u) ==
  /\ d.kind = "comment"
  /\ \E i \in Displaced(d, u) : Heir(d, u, i) # 0 /\ d.items[i].seen.v = Dashes

-----------------------------------------------------------------------------
(* apply_reconcile, run as often as somebody runs it.                        *)

Changed(d, u) == {LoadedRef(d)[i] : i \in {j \in Entries(d) : Selected(d, u, j)}}

Init ==
  /\ \E t \in Templates : \E a \in Entry(t) : \E b \in Entry(Append(t, a)) :
       \E m \in More(t \o <<a, b>>), k \in {"fence", "comment"}, e \in Tails(t \o <<a, b>>) :
         doc = Document(k, t, <<a, b>> \o m, e)
  /\ Loads(doc)
  /\ updates \in Selections
  /\ applied = {} /\ outcome = "none" /\ rounds = 0

Finish(o, set) == /\ outcome' = o /\ applied' = set
                  /\ rounds' = rounds + 1
                  /\ UNCHANGED updates

Running == outcome \in {"none", "rewritten"}

Rewrite ==
  /\ Running /\ ~Malformed(doc, updates) /\ Changed(doc, updates) # {}
  /\ Verified(doc, updates) /\ ~Respelled(doc, updates)
  /\ doc' = Edited(doc, updates)
  /\ Finish("rewritten", Changed(doc, updates))

Refuse ==
  /\ Running
  /\ \/ Malformed(doc, updates)
     \/ /\ Changed(doc, updates) # {}
        /\ ~Verified(doc, updates) \/ Respelled(doc, updates)
  /\ Finish("refused", {})
  /\ UNCHANGED doc

Skip ==
  /\ Running /\ ~Malformed(doc, updates) /\ Changed(doc, updates) = {}
  /\ Finish("unchanged", {})
  /\ UNCHANGED doc

Next == Rewrite \/ Refuse \/ Skip

Spec == Init /\ [][Next]_vars

-----------------------------------------------------------------------------
\* Types, and an outcome that says what happened.
TypeOK ==
  /\ outcome \in {"none", "rewritten", "refused", "unchanged"}
  /\ Loads(doc) /\ applied \subseteq DOMAIN updates
  /\ outcome = "rewritten" <=> applied # {}

\* Entries that spell no `seen` and reach a changed entry through merge keys.
Follower(d, u, i) ==
  LET f[k \in Items(d)] ==
        \/ EditsSeen(d, u, k)
        \/ /\ d.items[k].kind = "map" /\ d.items[k].seen = NoSeen
           /\ \E n \in DOMAIN d.items[k].merge : f[d.items[k].merge[n]]
  IN  f[i]

\* Whatever the document does with anchors, aliases and merge keys, a rewrite sets
\* what was selected and leaves every other value, reference and member as it was;
\* only an entry that inherits its `seen` may follow the entry it inherits from
\* (and an alias of such an entry with it).
Exact ==
  /\ LoadedRef(doc') = LoadedRef(doc) /\ LoadedTail(doc') = LoadedTail(doc)
  /\ \A i \in Items(doc) :
       \/ LoadedSeen(doc')[i] = (IF Selected(doc, updates, i)
                                   THEN updates[LoadedRef(doc)[i]]
                                   ELSE LoadedSeen(doc)[i])
       \/ /\ i \in Entries(doc) /\ ~Selected(doc, updates, i)
          /\ Follower(doc, updates, Object(doc, i))
          /\ LoadedSeen(doc')[i] \in {updates[r] : r \in applied'}

\* Applying the same updates again changes nothing more, but for entries that had
\* their value already and lost it to the entry they inherit it from; a third
\* application never changes anything.
Settles ==
  outcome = "rewritten" =>
    /\ rounds = 1
    /\ \A i \in Entries(doc) : Selected(doc, updates, i) =>
         LET k == Object(doc, i) IN doc.items[k].seen = NoSeen /\ doc.items[k].merge # <<>>

\* Both, of every rewrite.
RewriteIsExact == [][doc' # doc => Exact /\ Settles]_vars

\* The planner and the loader agree: the verification only stops a rewrite for a
\* member outside the list that inherits from an entry by a merge key.
RefusalsAreExplained ==
  /\ TypeOK
  /\ outcome = "refused" =>
       \/ Malformed(doc, updates) \/ Respelled(doc, updates)
       \/ doc.tail.form = "merge"
=============================================================================
