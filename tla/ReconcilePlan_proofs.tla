-------------------------- MODULE ReconcilePlan_proofs --------------------------
(* What a run of reconcile writes, for any number of documents, manifests, runs   *)
(* and edits.                                                                      *)
EXTENDS ReconcilePlan, FiniteSetTheorems, SequenceTheorems, WellFoundedInduction, TLAPS

USE PlanAssumption, ProjectAssumption DEF Endings

-----------------------------------------------------------------------------
(* Sets of positions.                                                        *)

\* Numbers have a least one, positions of a sequence a latest one.
LEMMA HasLeast ==
  ASSUME NEW S \in SUBSET Nat, S # {}
  PROVE  \E k \in S : \A j \in S : k <= j
<1>1. PICK k \in S : \A j \in S : <<j, k>> \notin OpToRel(<, Nat)
  BY WFMin, NatLessThanWellFounded, Zenon
<1>2. \A j \in S : ~(j < k)
  BY <1>1, Zenon DEF OpToRel
<1> QED BY <1>2

LEMMA HasLatest ==
  ASSUME NEW n \in Nat, NEW S \in SUBSET (1 .. n), S # {}
  PROVE  Latest(S) \in S /\ \A j \in S : j <= Latest(S)
<1> DEFINE T == {m \in Nat : \E j \in S : m = n - j}
<1>1. T # {}
  <2>1. PICK j \in S : TRUE
    OBVIOUS
  <2>2. n - j \in Nat
    OBVIOUS
  <2> QED BY <2>2
<1>2. PICK m \in T : \A j \in T : m <= j
  <2>1. T \in SUBSET Nat
    OBVIOUS
  <2> HIDE DEF T
  <2> QED BY <1>1, <2>1, HasLeast
<1>3. \E k \in S : \A j \in S : j <= k
  <2>1. PICK k \in S : m = n - k
    BY <1>2
  <2>2. ASSUME NEW j \in S PROVE j <= k
    <3>1. n - j \in T
      BY <2>2
    <3>2. m <= n - j
      BY <1>2, <3>1
    <3> QED BY <2>1, <3>2
  <2> QED BY <2>2
<1> QED BY <1>3, Zenon DEF Latest

\* A set of positions that has one member has no other.
LEMMA OnePosition ==
  ASSUME NEW n \in Nat, NEW S \in SUBSET (1 .. n), Cardinality(S) = 1, NEW k \in S
  PROVE  Latest(S) = k
<1>1. IsFiniteSet(S)
  <2>1. IsFiniteSet(1 .. n)
    BY FS_Interval
  <2> QED BY <2>1, FS_Subset
<1>2. \E x : S = {x}
  BY <1>1, FS_Singleton
<1> QED BY <1>2, HasLatest

-----------------------------------------------------------------------------
(* The ways to put hashes into entries.                                      *)

Sameness(old, new) ==
  /\ new \in Entries
  /\ DOMAIN new = DOMAIN old
  /\ \A k \in DOMAIN old : new[k] = Edge(old[k].ref, new[k].seen)

\* They keep the references where they are.
LEMMA EntriesKept ==
  ASSUME NEW old \in Entries, NEW new, new = [k \in DOMAIN old |-> new[k]],
         \A k \in DOMAIN old : \E s \in Seq(Nat) : new[k] = Edge(old[k].ref, s)
  PROVE  Sameness(old, new)
<1> DEFINE E == [ref : Refs, seen : Seq(Nat)]
<1>1. old \in Seq(E) /\ Entries = Seq(E)
  BY DEF Entries
<1>2. Len(old) \in Nat /\ DOMAIN old = 1 .. Len(old)
      /\ \A k \in DOMAIN old : old[k] \in E
  <2> HIDE DEF E
  <2> QED BY <1>1, LenProperties, ElementOfSeq
<1>3. ASSUME NEW k \in DOMAIN old PROVE new[k] \in E /\ new[k] = Edge(old[k].ref, new[k].seen)
  <2>1. old[k].ref \in Refs
    BY <1>2
  <2>2. PICK s \in Seq(Nat) : new[k] = Edge(old[k].ref, s)
    OBVIOUS
  <2> QED BY <2>1, <2>2 DEF Edge
<1>4. DOMAIN new = DOMAIN old /\ new = [k \in 1 .. Len(old) |-> new[k]]
  <2> HIDE DEF E
  <2>1. DOMAIN old = 1 .. Len(old)
    BY <1>2
  <2> QED BY <2>1
<1> HIDE DEF E
<1>5. new \in [1 .. Len(old) -> E]
  BY <1>2, <1>3, <1>4
<1>6. new \in Seq(E)
  BY <1>2, <1>5, SeqDef
<1> QED BY <1>1, <1>3, <1>4, <1>6 DEF Sameness

LEMMA SeenTyped ==
  ASSUME NEW entries \in Entries, NEW k \in DOMAIN entries
  PROVE  /\ entries[k].ref \in Refs /\ entries[k].seen \in Seq(Nat)
         /\ entries[k] = Edge(entries[k].ref, entries[k].seen)
<1>1. entries[k] \in [ref : Refs, seen : Seq(Nat)]
  <2> DEFINE E == [ref : Refs, seen : Seq(Nat)]
  <2>1. entries \in Seq(E)
    BY DEF Entries
  <2> HIDE DEF E
  <2>2. entries[k] \in E
    BY <2>1, LenProperties, ElementOfSeq
  <2> QED BY <2>2 DEF E
<1> QED BY <1>1 DEF Edge

\* What a rewrite makes of entry k of a document.
Applied(doc, u, new, k) ==
  \/ k \in Edited(doc, u) /\ new[k] = Edge(doc.entries[k].ref, u[doc.entries[k].ref])
  \/ /\ k \notin Edited(doc, u)
     /\ \E j \in Sources(doc, u, k) : new[k] = Edge(doc.entries[k].ref, u[doc.entries[j].ref])
  \/ k \notin Edited(doc, u) /\ Sources(doc, u, k) = {} /\ new[k] = doc.entries[k]

LEMMA ApplyFacts ==
  ASSUME NEW doc \in Documents, NEW u, \A r \in DOMAIN u : u[r] \in Seq(Nat),
         NEW new, new = apply_reconcile(doc, u)
  PROVE  /\ Sameness(doc.entries, new)
         /\ \A k \in DOMAIN doc.entries : Applied(doc, u, new, k)
<1> DEFINE old == doc.entries
           Val(k) == IF k \in Edited(doc, u) THEN Edge(old[k].ref, u[old[k].ref])
                     ELSE IF Sources(doc, u, k) # {}
                       THEN Edge(old[k].ref,
                                 u[old[CHOOSE j \in Sources(doc, u, k) : TRUE].ref])
                     ELSE old[k]
<1>1. old \in Entries
  BY DEF Documents
<1>2. new = [k \in DOMAIN old |-> Val(k)]
  BY DEF apply_reconcile
<1>3. \A k \in DOMAIN old : new[k] = Val(k)
  BY <1>2
<1>4. ASSUME NEW k \in DOMAIN old PROVE Applied(doc, u, new, k)
  <2>1. CASE k \in Edited(doc, u)
    BY <1>3, <1>4, <2>1 DEF Applied
  <2>2. CASE k \notin Edited(doc, u) /\ Sources(doc, u, k) # {}
    <3>1. (CHOOSE j \in Sources(doc, u, k) : TRUE) \in Sources(doc, u, k)
      BY <2>2
    <3> QED BY <1>3, <1>4, <2>2, <3>1 DEF Applied
  <2>3. CASE k \notin Edited(doc, u) /\ Sources(doc, u, k) = {}
    BY <1>3, <1>4, <2>3 DEF Applied
  <2> QED BY <2>1, <2>2, <2>3
<1>5. ASSUME NEW k \in DOMAIN old PROVE \E s \in Seq(Nat) : new[k] = Edge(old[k].ref, s)
  <2>1. \A j \in Edited(doc, u) : u[old[j].ref] \in Seq(Nat)
    BY DEF Edited
  <2>2. Sources(doc, u, k) \subseteq Edited(doc, u)
    BY DEF Sources
  <2>3. old[k].seen \in Seq(Nat) /\ old[k] = Edge(old[k].ref, old[k].seen)
    BY <1>1, <1>5, SeenTyped
  <2>4. Applied(doc, u, new, k)
    BY <1>4, <1>5
  <2> QED BY <2>1, <2>2, <2>3, <2>4 DEF Applied
<1> HIDE DEF Val
<1>6. Sameness(old, new)
  <2>1. new = [k \in DOMAIN old |-> new[k]]
    BY <1>2
  <2> QED BY <1>1, <1>5, <2>1, EntriesKept
<1> QED BY <1>4, <1>6

LEMMA AcknowledgedTyped ==
  ASSUME NEW entries \in Entries
  PROVE  Acknowledged(entries) \in Entries
<1> DEFINE new == Acknowledged(entries)
<1>1. <<1>> \in Seq(Nat)
  OBVIOUS
<1>2. /\ \A k \in DOMAIN entries : new[k] = Edge(entries[k].ref, <<1>>)
      /\ new = [k \in DOMAIN entries |-> new[k]]
  BY DEF Acknowledged
<1> HIDE DEF new
<1>3. Sameness(entries, new)
  BY <1>1, <1>2, EntriesKept
<1> QED BY <1>3 DEF Sameness, new

LEMMA SetLastFacts ==
  ASSUME NEW edges \in Entries, NEW u, \A r \in DOMAIN u : u[r] \in Seq(Nat)
  PROVE  /\ Sameness(edges, SetLast(edges, u))
         /\ \A k \in DOMAIN edges :
              SetLast(edges, u)[k] =
                IF edges[k].ref \in DOMAIN u /\ k = Latest(Positions(edges, edges[k].ref))
                  THEN Edge(edges[k].ref, u[edges[k].ref]) ELSE edges[k]
<1> DEFINE E == [ref : Refs, seen : Seq(Nat)]
           new == SetLast(edges, u)
<1>1. edges \in Seq(E) /\ Entries = Seq(E)
  BY DEF Entries
<1>2. Len(edges) \in Nat /\ DOMAIN edges = 1 .. Len(edges)
      /\ \A k \in DOMAIN edges : edges[k] \in E
  <2> HIDE DEF E
  <2> QED BY <1>1, LenProperties, ElementOfSeq
<1>3. \A k \in DOMAIN edges :
        new[k] = IF edges[k].ref \in DOMAIN u /\ k = Latest(Positions(edges, edges[k].ref))
                   THEN Edge(edges[k].ref, u[edges[k].ref]) ELSE edges[k]
  BY DEF SetLast
<1>4. DOMAIN new = DOMAIN edges
  BY DEF SetLast
<1>5. ASSUME NEW k \in DOMAIN edges PROVE new[k] \in E /\ new[k].ref = edges[k].ref
  <2>1. edges[k] \in E /\ edges[k].ref \in Refs
    BY <1>2
  <2>2. edges[k].ref \in DOMAIN u =>
          Edge(edges[k].ref, u[edges[k].ref]) \in E
          /\ Edge(edges[k].ref, u[edges[k].ref]).ref = edges[k].ref
    BY <2>1 DEF Edge
  <2> HIDE DEF E, new
  <2> QED BY <1>3, <2>1, <2>2
<1>6. new \in [1 .. Len(edges) -> E]
  <2>1. new = [k \in 1 .. Len(edges) |-> new[k]]
    BY <1>2 DEF SetLast
  <2> HIDE DEF new, E
  <2> QED BY <1>2, <1>5, <2>1
<1>7. new \in Seq(E)
  <2> HIDE DEF new, E
  <2> QED BY <1>2, <1>6, SeqDef
<1>8. \A k \in DOMAIN edges : new[k] = Edge(edges[k].ref, new[k].seen)
  <2>1. \A x \in E : x = Edge(x.ref, x.seen)
    BY DEF Edge
  <2> HIDE DEF new, E
  <2> QED BY <1>5, <2>1
<1> HIDE DEF new
<1>9. Sameness(edges, new)
  BY <1>1, <1>4, <1>7, <1>8 DEF Sameness
<1> QED BY <1>3, <1>9 DEF new

-----------------------------------------------------------------------------
(* The lattice and the plan.                                                 *)

Node(n) ==
  /\ n.path \in Paths /\ n.target \in Paths
  /\ n.manifest \in Manifests \cup {None}
  /\ n.hash \in Seq(Nat)

Typed(l) ==
  /\ l.manifest \in [Manifests -> ManifestFiles \cup {Outside}]
  /\ \A i \in DOMAIN l.nodes : Node(l.nodes[i]) /\ l.nodes[i].id = i

LEMMA DiskFacts ==
  ASSUME NEW d \in Disks
  PROVE  /\ \A p \in Paths : d.doc[p] \in Documents /\ d.link[p] \in Paths \cup {Outside}
         /\ \A f \in ManifestFiles : d.man[f] \in Texts
         /\ \A m \in Manifests : d.mlink[m] \in ManifestFiles \cup {Outside}
         /\ d.mlink \in [Manifests -> ManifestFiles \cup {Outside}]
         /\ d.link \in [Paths -> Paths \cup {Outside}]
         /\ d.doc \in [Paths -> Documents] /\ d.man \in [ManifestFiles -> Texts]
  BY DEF Disks

\* Where a record is, and what it says.
LEMMA RecordFacts ==
  ASSUME NEW d \in Disks, NEW r \in Records(d)
  PROVE  /\ r = <<r[1], r[2]>> /\ r[1] \in Manifests /\ d.mlink[r[1]] \in ManifestFiles
         /\ r[2] \in DOMAIN d.man[d.mlink[r[1]]].records
         /\ RecordAt(d, r) \in Registrations
         /\ Target(d, r) \in Paths \cup {Outside}
<1>1. PICK m \in Manifests : /\ d.mlink[m] # Outside
                             /\ r \in {<<m, k>> : k \in DOMAIN d.man[d.mlink[m]].records}
  BY DEF Records
<1>2. PICK k \in DOMAIN d.man[d.mlink[m]].records : r = <<m, k>>
  BY <1>1
<1>3. r[1] = m /\ r[2] = k /\ d.mlink[m] \in ManifestFiles
  BY <1>1, <1>2, DiskFacts
<1> DEFINE records == d.man[d.mlink[m]].records
<1>4. records \in Seq(Registrations)
  <2>1. d.man[d.mlink[m]] \in Texts
    BY <1>3, DiskFacts
  <2> QED BY <2>1 DEF Texts
<1>5. records[k] \in Registrations
  <2>1. k \in DOMAIN records
    BY <1>2
  <2> HIDE DEF records
  <2> QED BY <1>4, <2>1, LenProperties, ElementOfSeq
<1>6. RecordAt(d, r) = records[k]
  BY <1>3 DEF RecordAt
<1>7. records[k].path \in Paths
  BY <1>5 DEF Registrations
<1> QED BY <1>2, <1>3, <1>5, <1>6, <1>7, DiskFacts DEF Target

LEMMA NodeTyped ==
  ASSUME NEW d \in Disks, build_registration_index(d), NEW n \in Nodes(d)
  PROVE  Node(n)
<1>1. ASSUME NEW p \in Inlines(d), n = InlineNode(d, p) PROVE Node(n)
  <2>1. p \in Paths /\ d.link[p] \in Paths
    BY DiskFacts DEF Inlines
  <2>2. d.doc[d.link[p]] \in Documents
    BY <2>1, DiskFacts
  <2>3. d.doc[d.link[p]].body \in Seq(Nat)
    BY <2>2 DEF Documents
  <2>4. /\ n.path = p /\ n.target = d.link[p] /\ n.manifest = None
        /\ n.hash = d.doc[d.link[p]].body
    BY <1>1 DEF InlineNode, content_hash
  <2> QED BY <2>1, <2>3, <2>4 DEF Node
<1>2. ASSUME NEW r \in Records(d), n = ExternalNode(d, r) PROVE Node(n)
  <2>1. r[1] \in Manifests /\ RecordAt(d, r).path \in Paths
    BY RecordFacts DEF Registrations
  <2>2. Target(d, r) \in Paths
    BY RecordFacts DEF build_registration_index
  <2>3. d.doc[Target(d, r)].body \in Seq(Nat)
    BY <2>2, DiskFacts DEF Documents
  <2>4. /\ n.path = RecordAt(d, r).path /\ n.target = Target(d, r) /\ n.manifest = r[1]
        /\ n.hash = d.doc[Target(d, r)].body
    BY <1>2 DEF ExternalNode, content_hash
  <2> QED BY <2>1, <2>2, <2>3, <2>4 DEF Node
<1> QED BY <1>1, <1>2 DEF Nodes

\* A lattice has one node of each id there is.
LEMMA LatticeFacts ==
  ASSUME NEW d \in Disks
  PROVE  /\ Lattice(d).manifest = d.mlink
         /\ DOMAIN Lattice(d).nodes = {n.id : n \in Nodes(d)}
         /\ \A i \in DOMAIN Lattice(d).nodes :
              Lattice(d).nodes[i] \in Nodes(d) /\ Lattice(d).nodes[i].id = i
<1>1. DOMAIN Lattice(d).nodes = {n.id : n \in Nodes(d)} /\ Lattice(d).manifest = d.mlink
  BY DEF Lattice
<1>2. ASSUME NEW i \in {n.id : n \in Nodes(d)}
      PROVE  Lattice(d).nodes[i] \in Nodes(d) /\ Lattice(d).nodes[i].id = i
  <2>1. Lattice(d).nodes[i] = CHOOSE n \in Nodes(d) : n.id = i
    BY <1>2 DEF Lattice
  <2>2. \E n \in Nodes(d) : n.id = i
    BY <1>2
  <2> QED BY <2>1, <2>2
<1> QED BY <1>1, <1>2

LEMMA LatticeTyped ==
  ASSUME NEW d \in Disks, Loads(d)
  PROVE  Typed(Lattice(d))
<1>1. build_registration_index(d)
  BY DEF Loads
<1> QED BY <1>1, LatticeFacts, NodeTyped, DiskFacts DEF Typed

\* A plan has an edge only if it was selected, leads to a node of the lattice and
\* is not ambiguous; it puts the hash of that node there.
Chosen(l, s, u) ==
  \A e \in DOMAIN u :
    /\ e = <<e[1], e[2]>> /\ e \in Reached(l, s) /\ e[1] \in DOMAIN l.nodes
    /\ Resolved(l, e[2]) /\ e[2] \notin Ambiguous
    /\ u[e] = target_hash(l, e[2]) /\ u[e] \in Seq(Nat)

LEMMA PlanFacts ==
  ASSUME NEW l, Typed(l), NEW s, ~Refused(l, s)
  PROVE  Chosen(l, s, reconcile(l, s))
<1> SUFFICES ASSUME NEW e \in DOMAIN reconcile(l, s)
             PROVE  /\ e = <<e[1], e[2]>> /\ e \in Reached(l, s) /\ e[1] \in DOMAIN l.nodes
                    /\ Resolved(l, e[2]) /\ e[2] \notin Ambiguous
                    /\ reconcile(l, s)[e] = target_hash(l, e[2])
                    /\ reconcile(l, s)[e] \in Seq(Nat)
  BY DEF Chosen
<1>1. /\ e \in Reached(l, s) /\ Resolved(l, e[2])
      /\ reconcile(l, s)[e] = target_hash(l, e[2])
  BY DEF reconcile
<1>2. e = <<e[1], e[2]>> /\ e[1] \in DOMAIN l.nodes
  BY <1>1 DEF Reached
<1>3. e[2] \notin Ambiguous
  BY <1>1 DEF Refused
<1>4. target_hash(l, e[2]) \in Seq(Nat)
  BY <1>1 DEF target_hash, Resolved, Typed, Node
<1> QED BY <1>1, <1>2, <1>3, <1>4

LEMMA UpdatesFacts ==
  ASSUME NEW l, NEW s, NEW u, Chosen(l, s, u), NEW i
  PROVE  /\ \A r \in DOMAIN Updates(u, i) : /\ <<i, r>> \in DOMAIN u
                                            /\ Updates(u, i)[r] = u[<<i, r>>]
                                            /\ Updates(u, i)[r] \in Seq(Nat)
         /\ \A r : <<i, r>> \in DOMAIN u => r \in DOMAIN Updates(u, i)
<1> DEFINE its == {e[2] : e \in {f \in DOMAIN u : f[1] = i}}
<1>1. DOMAIN Updates(u, i) = its /\ \A r \in its : Updates(u, i)[r] = u[<<i, r>>]
  BY DEF Updates
<1>2. ASSUME NEW r \in its PROVE <<i, r>> \in DOMAIN u /\ u[<<i, r>>] \in Seq(Nat)
  <2>1. PICK e \in DOMAIN u : e[1] = i /\ e[2] = r
    BY <1>2
  <2>2. e = <<i, r>> /\ u[e] \in Seq(Nat)
    BY <2>1 DEF Chosen
  <2> QED BY <2>2
<1>3. ASSUME NEW r, <<i, r>> \in DOMAIN u PROVE r \in its
  BY <1>3, <<i, r>>[1] = i, <<i, r>>[2] = r
<1> HIDE DEF its
<1> QED BY <1>1, <1>2, <1>3

LEMMA GroupFacts ==
  ASSUME NEW l, NEW s, NEW u, Chosen(l, s, u), NEW m
  PROVE  /\ Chosen(l, s, GroupOf(l, u, m))
         /\ \A e \in DOMAIN GroupOf(l, u, m) :
              e \in DOMAIN u /\ l.nodes[e[1]].manifest = m /\ GroupOf(l, u, m)[e] = u[e]
         /\ \A e \in DOMAIN u : l.nodes[e[1]].manifest = m => e \in DOMAIN GroupOf(l, u, m)
<1>1. /\ \A e \in DOMAIN GroupOf(l, u, m) :
           e \in DOMAIN u /\ l.nodes[e[1]].manifest = m /\ GroupOf(l, u, m)[e] = u[e]
      /\ \A e \in DOMAIN u : l.nodes[e[1]].manifest = m => e \in DOMAIN GroupOf(l, u, m)
  BY DEF GroupOf
<1> QED BY <1>1 DEF Chosen

-----------------------------------------------------------------------------
(* What one write changes.                                                   *)

LEMMA NothingSeen == \A s : SeenChanges(s, s) = {}
  BY DEF SeenChanges

LEMMA Unchanged == \A text \in Texts : TextKept(text, text)
<1> SUFFICES ASSUME NEW text \in Texts PROVE TextKept(text, text)
  OBVIOUS
<1>1. text.records \in Seq(Registrations)
  BY DEF Texts
<1>2. ASSUME NEW k \in DOMAIN text.records PROVE RecordKept(text.records[k], text.records[k])
  <2>1. text.records[k] \in Registrations
    BY <1>1, <1>2, LenProperties, ElementOfSeq
  <2>2. text.records[k] = [text.records[k] EXCEPT !.edges = text.records[k].edges]
    BY <2>1 DEF Registrations
  <2> QED BY <2>2, NothingSeen DEF RecordKept
<1> QED BY <1>2 DEF TextKept

LEMMA SameDocument == \A i, doc : DocumentKept(i, doc, doc)
<1> SUFFICES ASSUME NEW i, NEW doc PROVE DocumentKept(i, doc, doc)
  OBVIOUS
<1>1. SeenChanges(doc.entries, doc.entries) = {}
  BY NothingSeen
<1> QED BY <1>1 DEF DocumentKept

\* Entries that keep their references and every `seen` are the same.
LEMMA SameInterval ==
  ASSUME NEW a \in Nat, NEW b \in Nat, 1 .. a = 1 .. b
  PROVE  a = b
<1>1. a \in 1 .. b \/ a = 0
  OBVIOUS
<1>2. b \in 1 .. a \/ b = 0
  OBVIOUS
<1> QED BY <1>1, <1>2

LEMMA SameSeen ==
  ASSUME NEW old \in Entries, NEW new, Sameness(old, new), SeenChanges(old, new) = {}
  PROVE  new = old
<1> DEFINE E == [ref : Refs, seen : Seq(Nat)]
<1>1. old \in Seq(E) /\ new \in Seq(E) /\ DOMAIN new = DOMAIN old
  BY DEF Sameness, Entries
<1>2. \A x \in E : x = Edge(x.ref, x.seen)
  BY DEF Edge
<1> HIDE DEF E
<1>3. /\ DOMAIN old = 1 .. Len(old) /\ DOMAIN new = 1 .. Len(new)
      /\ Len(old) \in Nat /\ Len(new) \in Nat /\ \A k \in DOMAIN old : old[k] \in E
  BY <1>1, LenProperties, ElementOfSeq
<1>4. \A k \in DOMAIN old : new[k] = Edge(old[k].ref, new[k].seen) /\ old[k].seen = new[k].seen
  BY DEF Sameness, SeenChanges
<1>5. \A k \in DOMAIN old : new[k] = old[k]
  BY <1>2, <1>3, <1>4
<1> QED BY <1>1, <1>3, <1>5, SeqEqual

\* Where there is nothing to edit nothing changes, and every edge has its hash.
LEMMA NothingEdited ==
  ASSUME NEW doc \in Documents, NEW u, \A r \in DOMAIN u : u[r] \in Seq(Nat),
         Edited(doc, u) = {}
  PROVE  apply_reconcile(doc, u) = doc.entries
<1> DEFINE new == apply_reconcile(doc, u)
<1>1. Sameness(doc.entries, new) /\ \A k \in DOMAIN doc.entries : Applied(doc, u, new, k)
  BY ApplyFacts
<1>2. \A k : Sources(doc, u, k) = {}
  BY DEF Sources
<1> HIDE DEF new
<1>3. \A k \in DOMAIN doc.entries : new[k] = doc.entries[k]
  BY <1>1, <1>2 DEF Applied
<1>4. SeenChanges(doc.entries, new) = {}
  BY <1>3 DEF SeenChanges
<1>5. doc.entries \in Entries
  BY DEF Documents
<1> QED BY <1>1, <1>4, <1>5, SameSeen DEF new

LEMMA ReconciledFacts ==
  ASSUME NEW doc \in Documents, NEW u, NEW after, after = Reconciled(doc, u)
  PROVE  /\ after.entries = apply_reconcile(doc, u)
         /\ after.merges = {m \in doc.merges : m[1] \notin Edited(doc, u)}
         /\ after.ending = IF doc.ending = "mixed" THEN "lf" ELSE doc.ending
         /\ after.id = doc.id /\ after.body = doc.body /\ after.ok = doc.ok
         /\ after.fragile = doc.fragile
         /\ after = [id |-> after.id, entries |-> after.entries, merges |-> after.merges,
                     body |-> after.body, ending |-> after.ending,
                     fragile |-> after.fragile, ok |-> after.ok]
<1> DEFINE new == apply_reconcile(doc, u)
           gone == Edited(doc, u)
<1>1. doc = [id |-> doc.id, entries |-> doc.entries, merges |-> doc.merges,
             body |-> doc.body, ending |-> doc.ending,
             fragile |-> doc.fragile, ok |-> doc.ok]
  BY DEF Documents
<1>2. after = [doc EXCEPT !.entries = new, !.merges = {m \in @ : m[1] \notin gone},
                          !.ending = IF @ = "mixed" THEN "lf" ELSE @]
  BY DEF Reconciled
<1> HIDE DEF new, gone
<1> QED BY <1>1, <1>2 DEF new, gone

LEMMA ReconciledTyped ==
  ASSUME NEW doc \in Documents, NEW u, \A r \in DOMAIN u : u[r] \in Seq(Nat)
  PROVE  Reconciled(doc, u) \in Documents
<1> DEFINE after == Reconciled(doc, u)
<1>1. /\ after.entries = apply_reconcile(doc, u)
      /\ after.merges = {m \in doc.merges : m[1] \notin Edited(doc, u)}
      /\ after.ending = IF doc.ending = "mixed" THEN "lf" ELSE doc.ending
      /\ after.id = doc.id /\ after.body = doc.body /\ after.ok = doc.ok
      /\ after.fragile = doc.fragile
      /\ after = [id |-> after.id, entries |-> after.entries, merges |-> after.merges,
                  body |-> after.body, ending |-> after.ending,
                  fragile |-> after.fragile, ok |-> after.ok]
  BY ReconciledFacts
<1> HIDE DEF after
<1>2. after.entries \in Entries
  BY <1>1, ApplyFacts DEF Sameness
<1>3. after.merges \in SUBSET (Nat \X Nat)
  <2>1. doc.merges \subseteq Nat \X Nat
    BY DEF Documents
  <2> QED BY <1>1, <2>1
<1>4. /\ after.ending \in Endings /\ after.id \in STRING /\ after.body \in Seq(Nat)
      /\ after.ok \in BOOLEAN /\ after.fragile \in BOOLEAN
  BY <1>1 DEF Documents
<1>5. after \in Documents
  BY <1>1, <1>2, <1>3, <1>4 DEF Documents
<1> QED BY <1>5 DEF after

\* Exactly what is edited changes as a `seen` of its own.
LEMMA OwnChanges ==
  ASSUME NEW doc \in Documents, NEW u, \A r \in DOMAIN u : u[r] \in Seq(Nat),
         NEW after, after = Reconciled(doc, u)
  PROVE  /\ {k \in SeenChanges(doc.entries, after.entries) : \A m \in after.merges : m[1] # k}
              = Edited(doc, u)
         /\ \A k \in SeenChanges(doc.entries, after.entries) \ Edited(doc, u) :
              \E j \in Edited(doc, u) :
                /\ <<k, j>> \in doc.merges
                /\ after.entries[k] = Edge(doc.entries[k].ref, after.entries[j].seen)
<1> DEFINE new == apply_reconcile(doc, u)
           gone == Edited(doc, u)
<1>1. /\ after.entries = new /\ after.merges = {m \in doc.merges : m[1] \notin gone}
  BY ReconciledFacts
<1>2. \A k \in DOMAIN doc.entries : Applied(doc, u, new, k)
  BY ApplyFacts
<1>3. \A r, s : Edge(r, s).seen = s
  BY DEF Edge
<1>4. \A k \in gone : /\ k \in DOMAIN doc.entries /\ doc.entries[k].ref \in DOMAIN u
                      /\ doc.entries[k].seen # u[doc.entries[k].ref]
  BY DEF Edited
<1>5. \A k, j : j \in Sources(doc, u, k) <=> j \in gone /\ <<k, j>> \in doc.merges
  BY DEF Sources
<1> HIDE DEF new, gone
<1>6. ASSUME NEW k \in gone PROVE k \in SeenChanges(doc.entries, new) /\ \A m \in after.merges : m[1] # k
  <2>1. new[k] = Edge(doc.entries[k].ref, u[doc.entries[k].ref])
    BY <1>2, <1>4, <1>6 DEF Applied, gone
  <2> QED BY <1>1, <1>3, <1>4, <1>6, <2>1 DEF SeenChanges
<1>7. ASSUME NEW k \in SeenChanges(doc.entries, new), k \notin gone
      PROVE  \E j \in gone : /\ <<k, j>> \in doc.merges
                             /\ new[k] = Edge(doc.entries[k].ref, new[j].seen)
  <2>1. k \in DOMAIN doc.entries /\ new[k] # doc.entries[k]
    BY <1>7 DEF SeenChanges
  <2>2. PICK j \in Sources(doc, u, k) : new[k] = Edge(doc.entries[k].ref, u[doc.entries[j].ref])
    BY <1>2, <1>7, <2>1 DEF Applied, gone
  <2>3. j \in gone /\ <<k, j>> \in doc.merges
    BY <1>5, <2>2
  <2>4. new[j] = Edge(doc.entries[j].ref, u[doc.entries[j].ref])
    BY <1>2, <1>4, <2>3 DEF Applied, gone
  <2> QED BY <1>3, <2>2, <2>3, <2>4
<1>8. ASSUME NEW k \in SeenChanges(doc.entries, new), \A m \in after.merges : m[1] # k
      PROVE  k \in gone
  <2> SUFFICES ASSUME k \notin gone PROVE FALSE
    OBVIOUS
  <2>1. PICK j \in gone : <<k, j>> \in doc.merges
    BY <1>7
  <2>2. <<k, j>> \in after.merges /\ <<k, j>>[1] = k
    BY <1>1, <2>1
  <2> QED BY <1>8, <2>2
<1>9. {k \in SeenChanges(doc.entries, after.entries) : \A m \in after.merges : m[1] # k} = gone
  BY <1>1, <1>6, <1>8
<1> QED BY <1>1, <1>7, <1>9 DEF gone

LEMMA InlineWriteFacts ==
  ASSUME NEW p, NEW doc, NEW i, NEW w, w = InlineWrite(p, doc, i)
  PROVE  /\ w.kind = "inline" /\ w.file = p /\ w.before = doc
         /\ w.after = Reconciled(doc, Updates(plan, i))
         /\ w.changed = {} <=> Edited(doc, Updates(plan, i)) = {}
<1> DEFINE gone == Edited(doc, Updates(plan, i))
           applied == {doc.entries[k].ref : k \in gone}
           changed == {[id |-> i, ref |-> ref, index |-> 0] : ref \in applied}
           after == Reconciled(doc, Updates(plan, i))
<1>1. w = [kind |-> "inline", file |-> p, before |-> doc, after |-> after, changed |-> changed]
  BY DEF InlineWrite
<1>2. changed = {} <=> gone = {}
  <2> HIDE DEF gone
  <2>1. applied = {} <=> gone = {}
    OBVIOUS
  <2> HIDE DEF applied
  <2>2. changed = {} <=> applied = {}
    OBVIOUS
  <2> QED BY <2>1, <2>2
<1> HIDE DEF changed, after, gone
<1>3. /\ w.kind = "inline" /\ w.file = p /\ w.before = doc /\ w.after = after
      /\ w.changed = changed
  BY <1>1
<1> QED BY <1>2, <1>3 DEF after, gone

\* A rewrite acknowledges edges of its node, and afterwards each of them has its hash.
LEMMA InlineKept ==
  ASSUME Chosen(lat, sel, plan), NEW doc \in Documents, NEW i,
         NEW after, after = Reconciled(doc, Updates(plan, i))
  PROVE  DocumentKept(i, doc, after)
<1> DEFINE u == Updates(plan, i)
           own == {k \in SeenChanges(doc.entries, after.entries) : \A m \in after.merges : m[1] # k}
<1>1. \A r \in DOMAIN u : u[r] \in Seq(Nat) /\ <<i, r>> \in DOMAIN plan /\ u[r] = plan[<<i, r>>]
  BY UpdatesFacts
<1> HIDE DEF u
<1>2. after = Reconciled(doc, u)
  BY DEF u
<1>3. /\ after.entries = apply_reconcile(doc, u)
      /\ after.merges = {m \in doc.merges : m[1] \notin Edited(doc, u)}
      /\ after.ending = IF doc.ending = "mixed" THEN "lf" ELSE doc.ending
      /\ after.id = doc.id /\ after.body = doc.body /\ after.ok = doc.ok
      /\ after.fragile = doc.fragile
  BY <1>2, ReconciledFacts
<1>4. /\ own = Edited(doc, u)
      /\ \A k \in SeenChanges(doc.entries, after.entries) \ Edited(doc, u) :
           \E j \in Edited(doc, u) :
             /\ <<k, j>> \in doc.merges
             /\ after.entries[k] = Edge(doc.entries[k].ref, after.entries[j].seen)
  BY <1>1, <1>2, OwnChanges
<1>5. /\ DOMAIN after.entries = DOMAIN doc.entries
      /\ \A k \in DOMAIN doc.entries : Applied(doc, u, after.entries, k)
  <2>1. after.entries = apply_reconcile(doc, u)
    BY <1>3
  <2>2. /\ Sameness(doc.entries, after.entries)
        /\ \A k \in DOMAIN doc.entries : Applied(doc, u, after.entries, k)
    BY <1>1, <2>1, ApplyFacts
  <2> QED BY <2>2 DEF Sameness
<1>6. ASSUME NEW k \in Edited(doc, u) PROVE Acknowledges(i, doc.entries[k], after.entries[k])
  <2>1. k \in DOMAIN doc.entries /\ doc.entries[k].ref \in DOMAIN u
    BY <1>6 DEF Edited
  <2>2. after.entries[k] = Edge(doc.entries[k].ref, u[doc.entries[k].ref])
    BY <1>5, <1>6, <2>1 DEF Applied
  <2>3. /\ <<i, doc.entries[k].ref>> \in DOMAIN plan
        /\ u[doc.entries[k].ref] = plan[<<i, doc.entries[k].ref>>]
    BY <1>1, <2>1
  <2>4. <<i, doc.entries[k].ref>>[2] = doc.entries[k].ref
    OBVIOUS
  <2> QED BY <2>2, <2>3, <2>4 DEF Acknowledges, Chosen
<1>7. /\ \A k \in own : Acknowledges(i, doc.entries[k], after.entries[k])
      /\ \A k \in SeenChanges(doc.entries, after.entries) \ own :
           \E j \in own :
             <<k, j>> \in doc.merges /\ after.entries[k] = Edge(doc.entries[k].ref, after.entries[j].seen)
      /\ after.merges = {m \in doc.merges : m[1] \notin own}
  <2> HIDE DEF own
  <2> QED BY <1>3, <1>4, <1>6
<1> QED BY <1>3, <1>5, <1>7 DEF DocumentKept

LEMMA InlineSettled ==
  ASSUME Chosen(lat, sel, plan), NEW doc \in Documents, NEW i,
         NEW after, after = Reconciled(doc, Updates(plan, i))
  PROVE  Settled(i, after)
<1> DEFINE u == Updates(plan, i)
           old == doc.entries
           new == after.entries
<1>1. /\ \A r \in DOMAIN u : u[r] \in Seq(Nat) /\ u[r] = plan[<<i, r>>]
      /\ \A r \in DOMAIN u : <<i, r>> \in DOMAIN plan
      /\ \A r : <<i, r>> \in DOMAIN plan => r \in DOMAIN u
  BY UpdatesFacts
<1> HIDE DEF u
<1>2. after = Reconciled(doc, u)
  BY DEF u
<1>3. /\ new = apply_reconcile(doc, u)
      /\ after.merges = {m \in doc.merges : m[1] \notin Edited(doc, u)}
  BY <1>2, ReconciledFacts
<1> HIDE DEF new
<1>4. /\ Sameness(old, new) /\ \A k \in DOMAIN old : Applied(doc, u, new, k)
  BY <1>1, <1>3, ApplyFacts
<1>6. \A r, s : Edge(r, s).seen = s /\ Edge(r, s).ref = r
  BY DEF Edge
<1>5. DOMAIN new = DOMAIN old /\ \A k \in DOMAIN old : new[k].ref = old[k].ref
  <2>1. DOMAIN new = DOMAIN old /\ \A k \in DOMAIN old : new[k] = Edge(old[k].ref, new[k].seen)
    BY <1>4 DEF Sameness
  <2> QED BY <1>6, <2>1
<1>7. \A j \in Edited(doc, u) : j \in DOMAIN old /\ old[j].ref \in DOMAIN u
  BY DEF Edited
<1>8. ASSUME NEW k \in DOMAIN new, <<i, new[k].ref>> \in DOMAIN plan
      PROVE  \/ new[k].seen = plan[<<i, new[k].ref>>]
             \/ \E j \in DOMAIN new : /\ <<i, new[j].ref>> \in DOMAIN plan
                                      /\ <<k, j>> \in after.merges /\ new[k].seen = new[j].seen
  <2>1. k \in DOMAIN old /\ old[k].ref \in DOMAIN u /\ new[k].ref = old[k].ref
    BY <1>1, <1>5, <1>8
  <2>2. u[old[k].ref] = plan[<<i, new[k].ref>>]
    BY <1>1, <2>1
  <2>3. CASE k \in Edited(doc, u)
    <3>1. new[k] = Edge(old[k].ref, u[old[k].ref])
      BY <1>4, <2>1, <2>3 DEF Applied
    <3> QED BY <1>6, <2>2, <3>1
  <2>4. CASE k \notin Edited(doc, u) /\ Sources(doc, u, k) = {}
    <3>1. new[k] = old[k] /\ old[k].seen = u[old[k].ref]
      BY <1>4, <2>1, <2>4 DEF Applied, Edited
    <3> QED BY <2>2, <3>1
  <2>5. CASE k \notin Edited(doc, u) /\ Sources(doc, u, k) # {}
    <3>1. PICK j \in Sources(doc, u, k) : new[k] = Edge(old[k].ref, u[old[j].ref])
      BY <1>4, <2>1, <2>5 DEF Applied
    <3>2. j \in Edited(doc, u) /\ <<k, j>> \in doc.merges
      BY DEF Sources
    <3>3. new[j] = Edge(old[j].ref, u[old[j].ref])
      BY <1>4, <1>7, <3>2 DEF Applied
    <3>4. <<k, j>>[1] = k /\ <<k, j>> \in after.merges
      BY <1>3, <2>5, <3>2
    <3>5. j \in DOMAIN new /\ <<i, new[j].ref>> \in DOMAIN plan
      BY <1>1, <1>5, <1>7, <3>2
    <3> QED BY <1>6, <3>1, <3>3, <3>4, <3>5
  <2> QED BY <2>3, <2>4, <2>5
<1> QED BY <1>8, Zenon DEF Settled, new

LEMMA SettledAlready ==
  ASSUME Chosen(lat, sel, plan), NEW doc, NEW i, Edited(doc, Updates(plan, i)) = {}
  PROVE  Settled(i, doc)
<1>1. \A r : <<i, r>> \in DOMAIN plan =>
               r \in DOMAIN Updates(plan, i) /\ Updates(plan, i)[r] = plan[<<i, r>>]
  BY UpdatesFacts
<1>2. ASSUME NEW k \in DOMAIN doc.entries, <<i, doc.entries[k].ref>> \in DOMAIN plan
      PROVE  doc.entries[k].seen = plan[<<i, doc.entries[k].ref>>]
  BY <1>1, <1>2 DEF Edited
<1> QED BY <1>2 DEF Settled

\* What was captured of a manifest: each record that the plan selects is there once.
Capturing(m) ==
  /\ fresh[m].manifest \in ManifestFiles
  /\ fresh[m].records \in Seq(Registrations) /\ fresh[m].ending \in Endings
  /\ \A i \in Wanted(m) : Cardinality(Matches(fresh[m].records, i)) = 1

LEMMA RewrittenFacts ==
  ASSUME Chosen(lat, sel, plan), NEW m, NEW records \in Seq(Registrations)
  PROVE  LET g == GroupOf(lat, plan, m)
             new == Rewritten(records, g)
         IN  /\ new \in Seq(Registrations) /\ DOMAIN new = DOMAIN records
             /\ \A k \in DOMAIN records :
                  /\ records[k] \in Registrations
                  /\ new[k] = [records[k] EXCEPT !.edges =
                                 SetLast(records[k].edges, Updates(g, records[k].id))]
                  /\ \A r \in DOMAIN Updates(g, records[k].id) :
                       Updates(g, records[k].id)[r] \in Seq(Nat)
                  /\ SetLast(records[k].edges, Updates(g, records[k].id)) \in Entries
<1> DEFINE g == GroupOf(lat, plan, m)
           new == Rewritten(records, g)
<1>1. Chosen(lat, sel, g)
  BY GroupFacts
<1>2. Len(records) \in Nat /\ DOMAIN records = 1 .. Len(records)
      /\ \A k \in DOMAIN records : records[k] \in Registrations
  BY LenProperties, ElementOfSeq
<1>3. DOMAIN new = DOMAIN records
      /\ \A k \in DOMAIN records :
           new[k] = [records[k] EXCEPT !.edges =
                       SetLast(records[k].edges, Updates(g, records[k].id))]
  BY DEF Rewritten
<1> HIDE DEF g
<1>4. ASSUME NEW k \in DOMAIN records
      PROVE  /\ \A r \in DOMAIN Updates(g, records[k].id) : Updates(g, records[k].id)[r] \in Seq(Nat)
             /\ SetLast(records[k].edges, Updates(g, records[k].id)) \in Entries
             /\ new[k] \in Registrations
  <2>1. \A r \in DOMAIN Updates(g, records[k].id) : Updates(g, records[k].id)[r] \in Seq(Nat)
    BY <1>1, UpdatesFacts
  <2>2. records[k] \in Registrations /\ records[k].edges \in Entries
    BY <1>2 DEF Registrations
  <2>3. SetLast(records[k].edges, Updates(g, records[k].id)) \in Entries
    BY <2>1, <2>2, SetLastFacts DEF Sameness
  <2>4. new[k] \in Registrations
    <3> HIDE DEF new
    <3> QED BY <1>3, <2>2, <2>3 DEF Registrations
  <2> QED BY <2>1, <2>3, <2>4
<1>5. new \in [1 .. Len(records) -> Registrations]
  <2>1. new = [k \in 1 .. Len(records) |-> new[k]]
    BY <1>2 DEF Rewritten
  <2> HIDE DEF new
  <2> QED BY <1>2, <1>4, <2>1
<1>6. new \in Seq(Registrations)
  <2> HIDE DEF new
  <2> QED BY <1>2, <1>5, SeqDef
<1> HIDE DEF new
<1> QED BY <1>2, <1>3, <1>4, <1>6 DEF new, g

LEMMA ManifestFacts ==
  ASSUME Chosen(lat, sel, plan), NEW m, m # None, Capturing(m),
         ~ManifestRefused(lat, plan, m)
  PROVE  LET w == ManifestWrite(lat, plan, m) IN
         /\ w.kind = "manifest" /\ w.file = fresh[m].manifest
         /\ w.before \in Texts /\ w.after \in Texts
         /\ w.before = [records |-> fresh[m].records, ending |-> fresh[m].ending, ok |-> TRUE]
         /\ w.after = [w.before EXCEPT !.records = Rewritten(@, GroupOf(lat, plan, m))]
         /\ w.after # w.before => w.changed # {}
         /\ TextKept(w.before, w.after)
<1> DEFINE c == fresh[m]
           g == GroupOf(lat, plan, m)
           new == Rewritten(c.records, g)
           before == [records |-> c.records, ending |-> c.ending, ok |-> TRUE]
           after == [before EXCEPT !.records = new]
           w == ManifestWrite(lat, plan, m)
<1>1. w = [kind |-> "manifest", file |-> c.manifest, before |-> before, after |-> after,
           changed |-> _changed_pairs(c.records, new)]
  BY DEF ManifestWrite
<1>2. c.records \in Seq(Registrations) /\ c.ending \in Endings
  BY DEF Capturing
<1>3. /\ new \in Seq(Registrations) /\ DOMAIN new = DOMAIN c.records
      /\ \A k \in DOMAIN c.records :
           /\ c.records[k] \in Registrations
           /\ new[k] = [c.records[k] EXCEPT !.edges =
                          SetLast(c.records[k].edges, Updates(g, c.records[k].id))]
           /\ \A r \in DOMAIN Updates(g, c.records[k].id) :
                Updates(g, c.records[k].id)[r] \in Seq(Nat)
           /\ SetLast(c.records[k].edges, Updates(g, c.records[k].id)) \in Entries
  BY <1>2, RewrittenFacts
<1>4. Chosen(lat, sel, g) /\ \A e \in DOMAIN g : e \in DOMAIN plan /\ lat.nodes[e[1]].manifest = m
  BY GroupFacts
<1> HIDE DEF new, w
<1>5. before \in Texts /\ after \in Texts
  BY <1>2, <1>3 DEF Texts
<1>6. ASSUME NEW k \in DOMAIN c.records PROVE RecordKept(c.records[k], new[k])
  <2> DEFINE r == c.records[k]
             u == Updates(g, r.id)
             edges == SetLast(r.edges, u)
  <2>1. r \in Registrations /\ r.edges \in Entries
    BY <1>3, <1>6 DEF Registrations
  <2>2. \A ref \in DOMAIN u : u[ref] \in Seq(Nat)
    BY <1>3, <1>6
  <2>3. \A j \in DOMAIN r.edges :
          edges[j] = IF r.edges[j].ref \in DOMAIN u /\ j = Latest(Positions(r.edges, r.edges[j].ref))
                       THEN Edge(r.edges[j].ref, u[r.edges[j].ref]) ELSE r.edges[j]
    <3> HIDE DEF r, u
    <3> QED BY <2>1, <2>2, SetLastFacts
  <2>4. new[k] = [r EXCEPT !.edges = edges]
    BY <1>3, <1>6
  <2> HIDE DEF edges, u, r
  <2>5. new[k].edges = edges /\ new[k] = [r EXCEPT !.edges = new[k].edges]
    BY <2>1, <2>4 DEF Registrations
  <2>6. ASSUME NEW j \in SeenChanges(r.edges, edges)
        PROVE  /\ Acknowledges(r.id, r.edges[j], edges[j])
               /\ lat.nodes[r.id].path = r.path
               /\ ~Inline(lat, r.id)
               /\ \A o \in Positions(r.edges, r.edges[j].ref) : o <= j
    <3> DEFINE ref == r.edges[j].ref
    <3>1. j \in DOMAIN r.edges /\ r.edges[j] # edges[j]
      BY <2>6 DEF SeenChanges
    <3>2. ref \in DOMAIN u /\ j = Latest(Positions(r.edges, ref)) /\ edges[j] = Edge(ref, u[ref])
      BY <2>3, <3>1
    <3>3. <<r.id, ref>> \in DOMAIN g /\ u[ref] = g[<<r.id, ref>>]
      BY <1>4, <3>2, UpdatesFacts DEF u
    <3>4. <<r.id, ref>>[1] = r.id /\ <<r.id, ref>>[2] = ref
      OBVIOUS
    <3>5. Acknowledges(r.id, r.edges[j], edges[j]) /\ r.id \in DOMAIN lat.nodes
      BY <1>4, <3>2, <3>3, <3>4 DEF Acknowledges, Chosen
    <3>6. lat.nodes[r.id].manifest = m
      BY <1>4, <3>3, <3>4
    <3>7. r.id \in Planned(g)
      BY <3>3, <3>4 DEF Planned
    <3>8. Cardinality(Matches(c.records, r.id)) = 1
      BY <3>7 DEF Capturing, Wanted
    <3>9. k \in Matches(c.records, r.id) /\ Matches(c.records, r.id) \in SUBSET (1 .. Len(c.records))
          /\ Len(c.records) \in Nat
      BY <1>2, <1>6, LenProperties DEF Matches, r
    <3>10. position(c.records, r.id) = k
      BY <3>8, <3>9, OnePosition DEF position
    <3>11. ~Repointed(lat, c, r.id)
      BY <3>7 DEF ManifestRefused
    <3>12. lat.nodes[r.id].path = r.path
      BY <3>10, <3>11 DEF Repointed, r
    <3>13. j \in Positions(r.edges, ref) /\ Positions(r.edges, ref) \in SUBSET (1 .. Len(r.edges))
           /\ Len(r.edges) \in Nat
      BY <2>1, <3>1, LenProperties DEF Positions, Entries
    <3>14. \A o \in Positions(r.edges, ref) : o <= j
      BY <3>2, <3>13, HasLatest
    <3> QED BY <3>5, <3>6, <3>12, <3>14 DEF Inline
  <2> QED BY <2>5, <2>6 DEF RecordKept, r
<1>7. after # before => _changed_pairs(c.records, new) # {}
  <2>0. new = c.records => after = before
    <3>1. /\ before.records = c.records /\ after.records = new
          /\ after.ending = before.ending /\ after.ok = before.ok
      OBVIOUS
    <3> HIDE DEF before, after
    <3> QED BY <1>5, <3>1 DEF Texts
  <2> SUFFICES ASSUME _changed_pairs(c.records, new) = {} PROVE new = c.records
    BY <2>0
  <2>1. ASSUME NEW k \in DOMAIN c.records PROVE new[k] = c.records[k]
    <3> DEFINE r == c.records[k]
               edges == SetLast(r.edges, Updates(g, r.id))
    <3>1. r \in Registrations /\ r.edges \in Entries
      BY <1>3, <2>1 DEF Registrations
    <3>2. Sameness(r.edges, edges)
      BY <1>3, <2>1, <3>1, SetLastFacts
    <3>3. new[k] = [r EXCEPT !.edges = edges]
      BY <1>3, <2>1
    <3> HIDE DEF edges
    <3>4. new[k].edges = edges
      BY <3>1, <3>3 DEF Registrations
    <3>5. SeenChanges(r.edges, edges) = {}
      <4> SUFFICES ASSUME NEW j \in SeenChanges(r.edges, edges) PROVE FALSE
        OBVIOUS
      <4>1. [id |-> r.id, ref |-> r.edges[j].ref, index |-> k] \in _changed_pairs(c.records, new)
        BY <2>1, <3>4 DEF _changed_pairs
      <4> QED BY <4>1
    <3>6. edges = r.edges
      BY <3>1, <3>2, <3>5, SameSeen
    <3> QED BY <3>1, <3>3, <3>6 DEF Registrations
  <2>2. new = c.records
    <3> HIDE DEF c
    <3>1. DOMAIN new = 1 .. Len(new) /\ DOMAIN c.records = 1 .. Len(c.records)
          /\ Len(new) \in Nat /\ Len(c.records) \in Nat
      BY <1>2, <1>3, LenProperties
    <3>2. Len(new) = Len(c.records)
      BY <1>3, <3>1, SameInterval
    <3> QED BY <1>2, <1>3, <2>1, <3>1, <3>2, SeqEqual
  <2> QED BY <2>2
<1>8. TextKept(before, after)
  <2>1. after.ending = before.ending /\ before.records = c.records /\ after.records = new
    OBVIOUS
  <2> QED BY <1>6, <2>1 DEF TextKept
<1>9. /\ w.kind = "manifest" /\ w.file = c.manifest /\ w.before = before /\ w.after = after
      /\ w.changed = _changed_pairs(c.records, new)
  BY <1>1
<1>10. after = [before EXCEPT !.records = Rewritten(@, g)]
  BY DEF new
<1> HIDE DEF c, g, before, after
<1> QED BY <1>5, <1>7, <1>8, <1>9, <1>10 DEF w, c, g, before

-----------------------------------------------------------------------------
(* What a commit and the edits of others make of the files.                  *)

Fits(w) ==
  \/ /\ w.kind = "inline" /\ w.file \in Paths
     /\ w.before \in Documents /\ w.after \in Documents
  \/ /\ w.kind = "manifest" /\ w.file \in ManifestFiles
     /\ w.before \in Texts /\ w.after \in Texts

Hits(w, kind, f) == w.kind = kind /\ w.file = f

\* After a commit a file that was to be written has what some write has for it, and
\* every other one has what it had.
LEMMA AfterFacts ==
  ASSUME NEW d \in Disks, NEW ws, \A w \in ws : Fits(w)
  PROVE  /\ After(d, ws) \in Disks
         /\ After(d, ws).link = d.link /\ After(d, ws).mlink = d.mlink
         /\ \A p \in Paths :
              \/ (~\E w \in ws : Hits(w, "inline", p)) /\ After(d, ws).doc[p] = d.doc[p]
              \/ \E w \in ws : Hits(w, "inline", p) /\ After(d, ws).doc[p] = w.after
         /\ \A m \in ManifestFiles :
              \/ (~\E w \in ws : Hits(w, "manifest", m)) /\ After(d, ws).man[m] = d.man[m]
              \/ \E w \in ws : Hits(w, "manifest", m) /\ After(d, ws).man[m] = w.after
<1> DEFINE new(kind, f) == CHOOSE w \in ws : w.kind = kind /\ w.file = f
           hit(kind) == {w.file : w \in {v \in ws : v.kind = kind}}
           doc == [p \in Paths |-> IF p \in hit("inline") THEN new("inline", p).after ELSE d.doc[p]]
           man == [m \in ManifestFiles |->
                     IF m \in hit("manifest") THEN new("manifest", m).after ELSE d.man[m]]
<1>1. DOMAIN d.doc = Paths /\ DOMAIN d.man = ManifestFiles
  BY DEF Disks
<1>2. After(d, ws) = [d EXCEPT !.doc = doc, !.man = man]
  BY <1>1 DEF After
<1>3. \A kind, f : /\ f \in hit(kind) <=> \E w \in ws : Hits(w, kind, f)
                   /\ f \in hit(kind) => new(kind, f) \in ws /\ Hits(new(kind, f), kind, f)
  <2> TAKE kind, f
  <2>1. f \in hit(kind) <=> \E w \in ws : Hits(w, kind, f)
    BY DEF Hits
  <2>2. (\E w \in ws : Hits(w, kind, f)) => new(kind, f) \in ws /\ Hits(new(kind, f), kind, f)
    BY DEF Hits
  <2> QED BY <2>1, <2>2
<1>4. /\ \A p \in Paths : doc[p] = IF p \in hit("inline") THEN new("inline", p).after ELSE d.doc[p]
      /\ \A m \in ManifestFiles :
           man[m] = IF m \in hit("manifest") THEN new("manifest", m).after ELSE d.man[m]
      /\ DOMAIN doc = Paths /\ DOMAIN man = ManifestFiles
      /\ doc = [p \in Paths |-> doc[p]] /\ man = [m \in ManifestFiles |-> man[m]]
  OBVIOUS
<1> HIDE DEF hit, new, doc, man
<1>5. \A p \in Paths : doc[p] \in Documents
  BY <1>3, <1>4, DiskFacts, "inline" # "manifest" DEF Fits, Hits
<1>6. \A m \in ManifestFiles : man[m] \in Texts
  BY <1>3, <1>4, DiskFacts, "inline" # "manifest" DEF Fits, Hits
<1>7. doc \in [Paths -> Documents] /\ man \in [ManifestFiles -> Texts]
  BY <1>4, <1>5, <1>6
<1>8. /\ After(d, ws) \in Disks
      /\ After(d, ws).link = d.link /\ After(d, ws).mlink = d.mlink
      /\ After(d, ws).doc = doc /\ After(d, ws).man = man
  BY <1>2, <1>7 DEF Disks
<1> QED BY <1>3, <1>4, <1>8

LEMMA DroppedTyped ==
  ASSUME NEW S, NEW s \in Seq(S)
  PROVE  Dropped(s) \in Seq(S)
  BY HeadTailProperties DEF Dropped

LEMMA DocEditTyped ==
  ASSUME NEW doc \in Documents, NEW x \in DocEdits(doc)
  PROVE  x \in Documents
<1> DEFINE E == [ref : Refs, seen : Seq(Nat)]
<1>1. <<2>> \in Seq(Nat) /\ {} \in SUBSET (Nat \X Nat)
  OBVIOUS
<1>2. doc.entries \in Entries
  BY DEF Documents
<1>3. Dropped(doc.entries) \in Entries
  <2>1. Entries = Seq(E)
    BY DEF Entries
  <2> HIDE DEF E
  <2> QED BY <1>2, <2>1, DroppedTyped
<1>4. Acknowledged(doc.entries) \in Entries
  BY <1>2, AcknowledgedTyped
<1>5. CASE x = [doc EXCEPT !.body = <<2>>]
  BY <1>1, <1>5 DEF Documents
<1>6. CASE x = [doc EXCEPT !.ok = FALSE]
  BY <1>6 DEF Documents
<1>7. CASE x = [doc EXCEPT !.entries = Dropped(@), !.merges = {}]
  <2> DEFINE es == Dropped(doc.entries)
  <2>1. doc \in [id : STRING, entries : Entries, merges : SUBSET (Nat \X Nat), body : Seq(Nat),
                 ending : Endings, fragile : BOOLEAN, ok : BOOLEAN]
    BY DEF Documents
  <2>2. x = [doc EXCEPT !.entries = es, !.merges = {}]
    BY <1>7
  <2> HIDE DEF es
  <2>3. x = [id |-> doc.id, entries |-> es, merges |-> {}, body |-> doc.body,
             ending |-> doc.ending, fragile |-> doc.fragile, ok |-> doc.ok]
    BY <2>1, <2>2
  <2> QED BY <1>1, <1>3, <2>1, <2>3 DEF Documents, es
<1>8. CASE x = [doc EXCEPT !.entries = Acknowledged(@)]
  BY <1>4, <1>8 DEF Documents
<1> QED BY <1>5, <1>6, <1>7, <1>8 DEF DocEdits

LEMMA ManifestEditTyped ==
  ASSUME NEW man \in Texts, NEW x \in ManifestEdits(man)
  PROVE  x \in Texts
<1> DEFINE records == man.records
           first == records[1]
<1>1. records # <<>> /\ records \in Seq(Registrations) /\ man.ending \in Endings /\ man.ok \in BOOLEAN
  BY DEF ManifestEdits, Texts
<1>2. Len(records) \in Nat \ {0} /\ DOMAIN records = 1 .. Len(records)
      /\ \A k \in DOMAIN records : records[k] \in Registrations
  <2> HIDE DEF records
  <2> QED BY <1>1, EmptySeq, LenProperties, ElementOfSeq
<1>3. first \in Registrations /\ 1 \in 1 .. Len(records)
  BY <1>2
<1>4. Reversed(records) \in Seq(Registrations)
  <2>1. \A k \in 1 .. Len(records) : Len(records) + 1 - k \in 1 .. Len(records)
    BY <1>2
  <2> HIDE DEF records
  <2>2. Reversed(records) \in [1 .. Len(records) -> Registrations]
    BY <1>2, <2>1 DEF Reversed
  <2> QED BY <1>2, <2>2, SeqDef
<1>5. Dropped(records) \in Seq(Registrations) /\ Append(records, first) \in Seq(Registrations)
  BY <1>1, <1>3, DroppedTyped, AppendProperties
<1>6. first.edges \in Entries
  BY <1>3 DEF Registrations
<1>7. Dropped(first.edges) \in Entries
  BY <1>6, DroppedTyped DEF Entries
<1>8. Acknowledged(first.edges) \in Entries
  BY <1>6, AcknowledgedTyped
<1>9. ASSUME NEW y \in Registrations PROVE [man EXCEPT !.records = [records EXCEPT ![1] = y]] \in Texts
  <2>1. [records EXCEPT ![1] = y] \in Seq(Registrations)
    <3> HIDE DEF records
    <3> QED BY <1>1, <1>3, ExceptSeq
  <2> QED BY <2>1 DEF Texts
<1>10. ASSUME NEW es \in Entries
       PROVE [man EXCEPT !.records = [records EXCEPT ![1] = [first EXCEPT !.edges = es]]] \in Texts
  <2>1. [first EXCEPT !.edges = es] \in Registrations
    BY <1>3 DEF Registrations
  <2> QED BY <1>9, <2>1
<1>11. ASSUME NEW p \in Paths
       PROVE [man EXCEPT !.records = [records EXCEPT ![1] = [first EXCEPT !.path = p]]] \in Texts
  <2>1. [first EXCEPT !.path = p] \in Registrations
    BY <1>3 DEF Registrations
  <2> QED BY <1>9, <2>1
<1>12. /\ [man EXCEPT !.records = Reversed(@)] \in Texts
       /\ [man EXCEPT !.records = Dropped(@)] \in Texts
       /\ [man EXCEPT !.records = Append(@, @[1])] \in Texts
  BY <1>1, <1>4, <1>5 DEF Texts
<1>13. /\ [man EXCEPT !.records[1].edges = Dropped(@)] \in Texts
       /\ [man EXCEPT !.records[1].edges = Acknowledged(@)] \in Texts
  BY <1>7, <1>8, <1>10
<1>14. \A p \in Paths : [man EXCEPT !.records[1].path = p] \in Texts
  BY <1>11
<1>15. [man EXCEPT !.ending = "mixed"] \in Texts /\ [man EXCEPT !.ok = FALSE] \in Texts
  BY DEF Texts
<1> QED BY <1>1, <1>12, <1>13, <1>14, <1>15 DEF ManifestEdits

LEMMA EditTyped ==
  ASSUME NEW d \in Disks, NEW e \in Edits(d)
  PROVE  e \in Disks
<1>1. ASSUME NEW p \in Paths, NEW x \in DocEdits(d.doc[p]), e = [d EXCEPT !.doc[p] = x]
      PROVE  e \in Disks
  <2>1. x \in Documents
    BY DiskFacts, DocEditTyped
  <2> QED BY <1>1, <2>1 DEF Disks
<1>2. ASSUME NEW m \in {d.mlink[n] : n \in {o \in Manifests : d.mlink[o] # Outside}},
             NEW x \in ManifestEdits(d.man[m]), e = [d EXCEPT !.man[m] = x]
      PROVE  e \in Disks
  <2>1. m \in ManifestFiles
    BY DiskFacts
  <2>2. x \in Texts
    BY <2>1, DiskFacts, ManifestEditTyped
  <2> QED BY <1>2, <2>1, <2>2 DEF Disks
<1>3. ASSUME NEW p \in Paths, NEW q \in Paths \cup {Outside}, e = [d EXCEPT !.link[p] = q]
      PROVE  e \in Disks
  BY <1>3 DEF Disks
<1>4. ASSUME NEW m \in Manifests, NEW n \in ManifestFiles \cup {Outside}, e = [d EXCEPT !.mlink[m] = n]
      PROVE  e \in Disks
  BY <1>4 DEF Disks
<1>5. ASSUME NEW p \in Paths, NEW q \in Paths,
             e = [d EXCEPT !.doc = Swapped(@, p, q)]
      PROVE  e \in Disks
  <2>1. d.doc[p] \in Documents /\ d.doc[q] \in Documents
    BY DiskFacts
  <2>2. Swapped(d.doc, p, q) \in [Paths -> Documents]
    BY <2>1, DiskFacts DEF Swapped
  <2> QED BY <1>5, <2>2 DEF Disks
<1> DEFINE docs == {{[d EXCEPT !.doc[p] = x] : x \in DocEdits(d.doc[p])} : p \in Paths}
           mans == {{[d EXCEPT !.man[m] = x] : x \in ManifestEdits(d.man[m])} :
                      m \in {d.mlink[n] : n \in {o \in Manifests : d.mlink[o] # Outside}}}
           links == {[d EXCEPT !.link[p] = q] : p \in Paths, q \in Paths \cup {Outside}}
           mlinks == {[d EXCEPT !.mlink[m] = n] : m \in Manifests, n \in ManifestFiles \cup {Outside}}
           swaps == {[d EXCEPT !.doc = Swapped(@, p, q)] : p \in Paths, q \in Paths}
<1>6. e \in UNION docs \/ e \in UNION mans \/ e \in links \/ e \in mlinks \/ e \in swaps
  <2>1. Edits(d) = (UNION docs) \cup (UNION mans) \cup links \cup mlinks \cup swaps
    BY DEF Edits
  <2> HIDE DEF docs, mans, links, mlinks, swaps
  <2> QED BY <2>1
<1>7. CASE e \in UNION docs
  BY <1>1, <1>7
<1>8. CASE e \in UNION mans
  BY <1>2, <1>8
<1>9. CASE e \in links
  BY <1>3, <1>9
<1>10. CASE e \in mlinks
  BY <1>4, <1>10
<1>11. CASE e \in swaps
  BY <1>5, <1>11
<1> HIDE DEF docs, mans, links, mlinks, swaps
<1> QED BY <1>6, <1>7, <1>8, <1>9, <1>10, <1>11

-----------------------------------------------------------------------------
(* The invariant of a run: what it has in memory fits together, whatever     *)
(* happens to the files.                                                     *)

Sound(w) ==
  /\ Fits(w) /\ w.changed # {} /\ w.before # w.after
  /\ w.kind = "manifest" => TextKept(w.before, w.after)

\* The rewrite of one inline node's file.
Rewrites(w, i, p) == /\ w.kind = "inline" /\ w.file = p
                     /\ DocumentKept(i, w.before, w.after) /\ Settled(i, w.after)

\* file[i] is where inline node i was found when the manifests were planned: still to be
\* read, or settled by a write or by what it said when it was read.
Places(file) ==
  /\ file \in [InlineNodes -> Paths]
  /\ \A i \in InlineNodes : LedTo(i, file[i])
  /\ \A i, j \in InlineNodes : file[i] = file[j] => i = j \/ file[i] \in DOMAIN todo
  /\ \A p \in DOMAIN todo : todo[p] = {i \in InlineNodes : file[i] = p}
  /\ \A w \in writes : w.kind = "inline" =>
       \E i \in InlineNodes : file[i] \notin DOMAIN todo /\ Rewrites(w, i, file[i])
  /\ \A i \in InlineNodes :
       \/ file[i] \in DOMAIN todo
       \/ \E w \in writes : Rewrites(w, i, file[i])
       \/ \E d \in disks : Settled(i, d.doc[file[i]])

PlanInv ==
  /\ TypeOK
  /\ pc # "idle" => outcome = "none" /\ disk \in disks
  /\ pc \in {"select", "capture", "read"} => Typed(lat)
  /\ pc \in {"capture", "read"} => Chosen(lat, sel, plan)
  /\ pc \notin {"capture", "read"} => fresh = Empty
  /\ pc # "read" => todo = Empty /\ writes = {}
  /\ pc = "read" => \E file : Places(file)
  /\ \A m \in DOMAIN fresh : m # None /\ Capturing(m)
  /\ \A w \in writes : Sound(w)

LEMMA InlineSound ==
  ASSUME Chosen(lat, sel, plan), NEW p \in Paths, NEW doc \in Documents, NEW i,
         NEW w, w = InlineWrite(p, doc, i), w.changed # {}
  PROVE  Sound(w) /\ Rewrites(w, i, p)
<1> DEFINE u == Updates(plan, i)
<1>1. \A r \in DOMAIN u : u[r] \in Seq(Nat)
  BY UpdatesFacts
<1>2. /\ w.kind = "inline" /\ w.file = p /\ w.before = doc /\ w.after = Reconciled(doc, u)
      /\ Edited(doc, u) # {}
  BY InlineWriteFacts
<1>3. DocumentKept(i, doc, w.after) /\ Settled(i, w.after)
  BY <1>2, InlineKept, InlineSettled
<1> HIDE DEF u
<1>4. w.after \in Documents
  BY <1>1, <1>2, ReconciledTyped
<1>5. w.before # w.after
  <2>1. {k \in SeenChanges(doc.entries, w.after.entries) : \A m \in w.after.merges : m[1] # k} # {}
    BY <1>1, <1>2, OwnChanges
  <2> QED BY <1>2, <2>1, NothingSeen
<1> QED BY <1>2, <1>3, <1>4, <1>5, "inline" # "manifest" DEF Sound, Fits, Rewrites

LEMMA KeptStays ==
  ASSUME UNCHANGED <<lat, sel>>
  PROVE  /\ \A i, old, new : DocumentKept(i, old, new) => DocumentKept(i, old, new)'
         /\ \A old, new : TextKept(old, new) => TextKept(old, new)'
<1>1. lat' = lat /\ sel' = sel
  OBVIOUS
<1>2. \A i, e, new : Acknowledges(i, e, new) <=> Acknowledges(i, e, new)'
  BY <1>1 DEF Acknowledges
<1>3. \A i, old, new : DocumentKept(i, old, new) => DocumentKept(i, old, new)'
  BY <1>1, <1>2 DEF DocumentKept
<1>4. \A r, new : RecordKept(r, new) => RecordKept(r, new)'
  BY <1>1, <1>2 DEF RecordKept
<1>5. \A old, new : TextKept(old, new) => TextKept(old, new)'
  BY <1>4 DEF TextKept
<1> QED BY <1>3, <1>5

LEMMA SoundStays ==
  ASSUME UNCHANGED <<lat, sel>>, NEW w, Sound(w)
  PROVE  Sound(w)'
  BY KeptStays DEF Sound

LEMMA RewritesStay ==
  ASSUME UNCHANGED <<lat, sel, plan>>
  PROVE  /\ \A w, i, p : Rewrites(w, i, p) => Rewrites(w, i, p)'
         /\ \A i, doc : Settled(i, doc) <=> Settled(i, doc)'
<1>1. lat' = lat /\ sel' = sel /\ plan' = plan
  OBVIOUS
<1>2. \A i, doc : Settled(i, doc) <=> Settled(i, doc)'
  BY <1>1 DEF Settled
<1> QED BY <1>2, KeptStays DEF Rewrites

\* The places stay what they are while nothing is read.
LEMMA PlacesStay ==
  ASSUME UNCHANGED <<lat, sel, plan, todo, writes>>, disks \subseteq disks',
         NEW file, Places(file)
  PROVE  Places(file)'
<1>1. lat' = lat /\ sel' = sel /\ plan' = plan /\ todo' = todo /\ writes' = writes
  OBVIOUS
<1>2. InlineNodes' = InlineNodes
  BY <1>1 DEF InlineNodes
<1>3. \A i, p : LedTo(i, p) => LedTo(i, p)'
  BY <1>1 DEF LedTo
<1>4. /\ \A w, i, p : Rewrites(w, i, p) => Rewrites(w, i, p)'
      /\ \A i, doc : Settled(i, doc) <=> Settled(i, doc)'
  BY RewritesStay
<1> QED BY <1>1, <1>2, <1>3, <1>4 DEF Places

LEMMA RunStays ==
  ASSUME UNCHANGED <<lat, plan, fresh>>
  PROVE  /\ InlineNodes' = InlineNodes
         /\ \A m : Capturing(m) => Capturing(m)'
<1>1. lat' = lat /\ plan' = plan /\ fresh' = fresh
  OBVIOUS
<1> QED BY <1>1 DEF InlineNodes, Capturing, Wanted

LEMMA PlanInit == Init => PlanInv
<1> SUFFICES ASSUME Init PROVE PlanInv
  OBVIOUS
<1>1. DOMAIN Empty = {}
  BY DEF Empty
<1>2. TypeOK
  BY <1>1 DEF Init, TypeOK
<1> QED BY <1>1, <1>2 DEF Init, PlanInv

\* A run that ends leaves nothing behind.
LEMMA EndKeeps ==
  ASSUME disk' \in Disks, pc' = "idle",
         outcome' \in {"none", "refused", "error", "done", "previewed"},
         fresh' = Empty, todo' = Empty, writes' = {}
  PROVE  PlanInv'
<1>1. DOMAIN Empty = {}
  BY DEF Empty
<1>2. TypeOK'
  BY <1>1 DEF TypeOK
<1> QED BY <1>1, <1>2 DEF PlanInv

LEMMA StopKeeps ==
  ASSUME PlanInv, NEW o \in {"refused", "error"}, Stop(o)
  PROVE  PlanInv'
  BY EndKeeps DEF Stop, PlanInv, TypeOK

LEMMA CaptureKeeps ==
  ASSUME PlanInv, Capture
  PROVE  PlanInv'
<1> USE DEF PlanInv
<1>1. PICK m \in Requested :
        /\ Captures(disk, m, Wanted(m))
        /\ fresh' = [x \in DOMAIN fresh \cup {m} |->
                       IF x = m THEN Captured(disk, m, Wanted(m)) ELSE fresh[x]]
  BY DEF Capture
<1>2. /\ pc = "capture" /\ pc' = pc
      /\ UNCHANGED <<disk, outcome, report, runs, edits, quiet, disks, sel, lat, plan, todo, writes>>
  BY DEF Capture, At
<1>3. m \in Manifests /\ m # None
  <2>1. PICK i \in Planned(plan) : ~Inline(lat, i) /\ m = lat.nodes[i].manifest
    BY DEF Requested, manifest_capture_requests
  <2>2. i \in DOMAIN lat.nodes
    BY <1>2, <2>1 DEF Planned, Chosen
  <2> QED BY <1>2, <2>1, <2>2 DEF Inline, Typed, Node
<1> DEFINE f == disk.mlink[m]
<1>4. disk \in Disks
  BY DEF TypeOK
<1>5. f \in ManifestFiles
  BY <1>1, <1>3, <1>4, DiskFacts DEF Captures
<1>6. disk.man[f].records \in Seq(Registrations) /\ disk.man[f].ending \in Endings
  BY <1>4, <1>5, DiskFacts DEF Texts
<1>7. \A x : Wanted(x)' = Wanted(x)
  BY <1>2 DEF Wanted
<1>8. Capturing(m)'
  <2>1. fresh'[m] = Captured(disk, m, Wanted(m))
    BY <1>1
  <2>2. /\ fresh'[m].manifest = f /\ fresh'[m].records = disk.man[f].records
        /\ fresh'[m].ending = disk.man[f].ending
    <3> DEFINE c == Captured(disk, m, Wanted(m))
    <3>1. c.manifest = f /\ c.records = disk.man[f].records /\ c.ending = disk.man[f].ending
      BY DEF Captured
    <3> HIDE DEF c
    <3> QED BY <2>1, <3>1 DEF c
  <2>3. \A i \in Wanted(m) : Cardinality(Matches(disk.man[f].records, i)) = 1
    BY <1>1 DEF Captures
  <2> QED BY <1>5, <1>6, <1>7, <2>2, <2>3 DEF Capturing
<1>9. ASSUME NEW x \in DOMAIN fresh, x # m PROVE Capturing(x)' /\ x # None
  <2>1. fresh'[x] = fresh[x]
    BY <1>1, <1>9
  <2> QED BY <1>7, <1>9, <2>1 DEF Capturing
<1>10. DOMAIN fresh' = DOMAIN fresh \cup {m}
  BY <1>1
<1>11. TypeOK'
  BY <1>2, <1>3, <1>10 DEF TypeOK
<1>12. \A x \in DOMAIN fresh' : x # None /\ Capturing(x)'
  BY <1>3, <1>8, <1>9, <1>10
<1>13. \A w \in writes' : Sound(w)'
  BY <1>2, SoundStays
<1> QED BY <1>2, <1>11, <1>12, <1>13

LEMMA PlanManifestsKeeps ==
  ASSUME PlanInv, PlanManifests
  PROVE  PlanInv'
<1> USE DEF PlanInv
<1>1. /\ pc = "capture" /\ pc' = "read"
      /\ \A m \in DOMAIN fresh : ~ManifestRefused(lat, plan, m)
      /\ \A i \in InlineNodes : Destination(disk, i) # Outside
      /\ writes' = {w \in {ManifestWrite(lat, plan, m) : m \in DOMAIN fresh} : w.after # w.before}
      /\ todo' = [p \in {Destination(disk, i) : i \in InlineNodes} |->
                    {i \in InlineNodes : Destination(disk, i) = p}]
      /\ UNCHANGED <<disk, outcome, report, runs, edits, quiet, disks, sel, lat, plan, fresh>>
  BY DEF PlanManifests, At
<1>2. ASSUME NEW w \in writes' PROVE Sound(w)' /\ w.kind # "inline"
  <2>1. PICK m \in DOMAIN fresh : w = ManifestWrite(lat, plan, m) /\ w.after # w.before
    BY <1>1
  <2>2. Chosen(lat, sel, plan) /\ m # None /\ Capturing(m) /\ ~ManifestRefused(lat, plan, m)
    BY <1>1
  <2>3. /\ w.kind = "manifest" /\ w.file = fresh[m].manifest
        /\ w.before \in Texts /\ w.after \in Texts
        /\ w.changed # {} /\ TextKept(w.before, w.after)
    BY <2>1, <2>2, ManifestFacts
  <2>4. w.file \in ManifestFiles
    BY <2>2, <2>3 DEF Capturing
  <2>5. Sound(w)
    BY <2>1, <2>3, <2>4 DEF Sound, Fits
  <2> QED BY <1>1, <2>3, <2>5, SoundStays, "inline" # "manifest"
<1>3. InlineNodes' = InlineNodes
  BY <1>1, RunStays
<1> DEFINE file == [i \in InlineNodes |-> Destination(disk, i)]
<1>4. ASSUME NEW i \in InlineNodes
      PROVE  file[i] \in Paths /\ LedTo(i, file[i])' /\ file[i] \in DOMAIN todo'
  <2>1. i \in DOMAIN lat.nodes /\ Inline(lat, i)
    BY <1>1 DEF InlineNodes, Planned, Chosen
  <2>2. lat.nodes[i].path \in Paths /\ disk \in Disks /\ disk \in disks
    BY <1>1, <2>1 DEF Typed, Node, TypeOK
  <2>3. file[i] = disk.link[lat.nodes[i].path] /\ file[i] # Outside
    BY <1>1 DEF Destination
  <2>4. file[i] \in Paths
    BY <2>2, <2>3, DiskFacts
  <2>5. LedTo(i, file[i])
    BY <2>1, <2>2, <2>3 DEF LedTo
  <2>6. LedTo(i, file[i])'
    <3>1. \A p : LedTo(i, p) => LedTo(i, p)'
      BY <1>1 DEF LedTo
    <3>2. file' = file
      BY <1>1, <1>3 DEF Destination
    <3> QED BY <2>5, <3>1, <3>2
  <2>7. file[i] \in DOMAIN todo'
    <3>1. DOMAIN todo' = {Destination(disk, j) : j \in InlineNodes}
      BY <1>1
    <3> QED BY <3>1
  <2> QED BY <2>4, <2>6, <2>7
<1>5. file \in [InlineNodes -> Paths] /\ DOMAIN todo' \subseteq Paths
  BY <1>1, <1>4
<1>6. \A p \in DOMAIN todo' : todo'[p] = {i \in InlineNodes : file[i] = p}
  BY <1>1
<1>r. file' = file
  BY <1>1, <1>3 DEF Destination
<1> HIDE DEF file
<1>7. Places(file)'
  <2>1. file \in [InlineNodes' -> Paths] /\ \A i \in InlineNodes' : LedTo(i, file[i])'
    BY <1>3, <1>4, <1>5
  <2>2. \A i \in InlineNodes' : file[i] \in DOMAIN todo'
    BY <1>3, <1>4
  <2>3. \A p \in DOMAIN todo' : todo'[p] = {i \in InlineNodes' : file[i] = p}
    BY <1>3, <1>6
  <2>4. \A w \in writes' : w.kind # "inline"
    BY <1>2
  <2> QED BY <1>r, <2>1, <2>2, <2>3, <2>4 DEF Places
<1>8. \A m \in DOMAIN fresh' : Capturing(m)'
  BY <1>1, RunStays
<1>9. TypeOK'
  BY <1>1, <1>2, <1>5 DEF TypeOK, Sound
<1> QED BY <1>1, <1>2, <1>7, <1>8, <1>9

LEMMA ReadKeeps ==
  ASSUME PlanInv, ReadInline
  PROVE  PlanInv'
<1>1. PICK p \in DOMAIN todo :
        /\ Alone(p) /\ todo' = Rest(todo, p)
        /\ LET w == InlineWrite(p, disk.doc[p], CHOOSE i \in todo[p] : TRUE)
           IN  writes' = IF w.changed = {} THEN writes ELSE writes \cup {w}
  BY DEF ReadInline
<1>2. /\ pc = "read" /\ pc' = pc
      /\ UNCHANGED <<disk, outcome, report, runs, edits, quiet, disks, sel, lat, plan, fresh>>
  BY DEF ReadInline, At
<1>3. PICK file : Places(file)
  BY <1>2 DEF PlanInv
<1>4. PICK i \in todo[p] : todo[p] = {i}
  BY <1>1 DEF Alone
<1>5. (CHOOSE j \in todo[p] : TRUE) = i
  BY <1>4
<1> DEFINE w == InlineWrite(p, disk.doc[p], i)
<1>6. writes' = IF w.changed = {} THEN writes ELSE writes \cup {w}
  BY <1>1, <1>5
<1>7. i \in InlineNodes /\ file[i] = p /\ \A j \in InlineNodes : file[j] = p => j = i
  BY <1>3, <1>4 DEF Places
<1>8. Chosen(lat, sel, plan) /\ TypeOK /\ disk \in disks
  BY <1>2 DEF PlanInv
<1>9. p \in Paths /\ disk.doc[p] \in Documents
  BY <1>8, DiskFacts DEF TypeOK
<1>10. /\ w.changed # {} => Sound(w) /\ Rewrites(w, i, p)
       /\ w.changed = {} => Settled(i, disk.doc[p])
  <2>1. w = InlineWrite(p, disk.doc[p], i)
    OBVIOUS
  <2> HIDE DEF w
  <2>2. w.changed # {} => Sound(w) /\ Rewrites(w, i, p)
    BY <1>8, <1>9, <2>1, InlineSound
  <2>3. w.changed = {} => Settled(i, disk.doc[p])
    BY <1>8, <2>1, InlineWriteFacts, SettledAlready
  <2> QED BY <2>2, <2>3
<1> HIDE DEF w
<1>11. DOMAIN todo' = DOMAIN todo \ {p} /\ \A x \in DOMAIN todo' : todo'[x] = todo[x]
  BY <1>1 DEF Rest
<1>12. \A x \in writes' : Sound(x)
  BY <1>6, <1>10 DEF PlanInv
<1>13. \A x \in writes' : Sound(x)'
  BY <1>2, <1>12, SoundStays
<1>14. InlineNodes' = InlineNodes
  BY <1>2, RunStays
<1>15. /\ \A x, j, q : Rewrites(x, j, q) => Rewrites(x, j, q)'
       /\ \A j, doc : Settled(j, doc) <=> Settled(j, doc)'
  BY <1>2, RewritesStay
<1>16. \A j, q : LedTo(j, q) => LedTo(j, q)'
  BY <1>2 DEF LedTo
<1>17. ASSUME NEW x \in writes', x.kind = "inline"
       PROVE  \E j \in InlineNodes : file[j] \notin DOMAIN todo' /\ Rewrites(x, j, file[j])
  <2>1. CASE x \in writes
    <3>1. PICK j \in InlineNodes : file[j] \notin DOMAIN todo /\ Rewrites(x, j, file[j])
      BY <1>3, <1>17, <2>1 DEF Places
    <3> QED BY <1>11, <3>1
  <2>2. CASE x = w /\ w.changed # {}
    BY <1>7, <1>10, <1>11, <2>2
  <2> QED BY <1>6, <1>17, <2>1, <2>2
<1>18. ASSUME NEW j \in InlineNodes
       PROVE  \/ file[j] \in DOMAIN todo'
              \/ \E x \in writes' : Rewrites(x, j, file[j])
              \/ \E d \in disks : Settled(j, d.doc[file[j]])
  <2>1. CASE j = i
    BY <1>6, <1>7, <1>8, <1>10, <2>1
  <2>2. CASE j # i
    <3>1. file[j] # p
      BY <1>7, <2>2
    <3> QED BY <1>3, <1>6, <1>11, <3>1 DEF Places
  <2> QED BY <2>1, <2>2
<1>19. Places(file)'
  <2>1. file \in [InlineNodes -> Paths] /\ \A j \in InlineNodes : LedTo(j, file[j])
    BY <1>3 DEF Places
  <2>2. \A j, k \in InlineNodes : file[j] = file[k] => j = k \/ file[j] \in DOMAIN todo'
    BY <1>3, <1>7, <1>11 DEF Places
  <2>3. \A x \in DOMAIN todo' : todo'[x] = {j \in InlineNodes : file[j] = x}
    BY <1>3, <1>11 DEF Places
  <2>4. disks' = disks
    BY <1>2
  <2> QED BY <1>14, <1>15, <1>16, <1>17, <1>18, <2>1, <2>2, <2>3, <2>4 DEF Places
<1>20. TypeOK'
  BY <1>2, <1>8, <1>11, <1>12 DEF TypeOK, Sound
<1> QED BY <1>2, <1>13, <1>19, <1>20, RunStays DEF PlanInv

LEMMA CommitTyped ==
  ASSUME PlanInv, pc = "read"
  PROVE  After(disk, writes) \in Disks
<1>1. disk \in Disks /\ \A w \in writes : Fits(w)
  BY DEF PlanInv, TypeOK, Sound
<1> QED BY <1>1, AfterFacts

LEMMA PlanStep == PlanInv /\ [Next]_vars => PlanInv'
<1> SUFFICES ASSUME PlanInv, [Next]_vars PROVE PlanInv'
  OBVIOUS
<1>t. TypeOK
  BY DEF PlanInv
<1>1. CASE Start
  <2>1. /\ pc = "idle" /\ pc' = "load" /\ outcome' = "none" /\ disk' \in disks'
        /\ UNCHANGED <<disk, lat, plan, fresh, todo, writes>>
    BY <1>1 DEF Start
  <2>2. DOMAIN Empty = {}
    BY DEF Empty
  <2>3. fresh' = Empty /\ todo' = Empty /\ writes' = {}
    BY <2>1 DEF PlanInv
  <2>4. TypeOK'
    BY <1>t, <2>1, <2>2, <2>3 DEF TypeOK
  <2> QED BY <2>1, <2>2, <2>3, <2>4 DEF PlanInv
<1>2. CASE Load
  <2>1. /\ pc = "load" /\ pc' = "select" /\ Loads(disk) /\ lat' = Lattice(disk)
        /\ UNCHANGED <<disk, outcome, disks, sel, plan, fresh, todo, writes>>
    BY <1>2 DEF Load, At
  <2>2. DOMAIN Empty = {}
    BY DEF Empty
  <2>3. fresh' = Empty /\ todo' = Empty /\ writes' = {} /\ outcome' = "none"
    BY <2>1 DEF PlanInv
  <2>4. TypeOK'
    BY <1>t, <2>1, <2>2, <2>3 DEF TypeOK
  <2>5. Typed(lat')
    BY <1>t, <2>1, LatticeTyped DEF TypeOK
  <2> QED BY <2>1, <2>2, <2>3, <2>4, <2>5 DEF PlanInv
<1>3. CASE Select
  <2>1. /\ pc = "select" /\ pc' = "capture" /\ ~Refused(lat, sel) /\ plan' = reconcile(lat, sel)
        /\ UNCHANGED <<disk, outcome, disks, sel, lat, fresh, todo, writes>>
    BY <1>3 DEF Select, At
  <2>2. DOMAIN Empty = {}
    BY DEF Empty
  <2>3. fresh' = Empty /\ todo' = Empty /\ writes' = {} /\ outcome' = "none" /\ Typed(lat)
    BY <2>1 DEF PlanInv
  <2>4. TypeOK'
    BY <1>t, <2>1, <2>2, <2>3 DEF TypeOK
  <2>5. Chosen(lat, sel, plan')
    BY <2>1, <2>3, PlanFacts
  <2> QED BY <2>1, <2>2, <2>3, <2>4, <2>5 DEF PlanInv
<1>4. CASE LoadFails \/ SelectFails \/ CaptureRefuses \/ PlanManifestsRefuses
           \/ ReadRefuses \/ ReadFails \/ CommitConflicts
  <2>1. Stop("refused") \/ Stop("error")
    BY <1>4 DEF LoadFails, SelectFails, CaptureRefuses, PlanManifestsRefuses, ReadRefuses,
                ReadFails, CommitConflicts
  <2> QED BY <2>1, StopKeeps
<1>5. CASE commit_rewrites
  BY <1>5, CommitTyped, EndKeeps DEF commit_rewrites, Finish
<1>6. CASE Preview
  BY <1>6, <1>t, EndKeeps DEF Preview, Finish, TypeOK
<1>7. CASE Edit
  <2>1. disk' \in Disks
    BY <1>7, <1>t, EditTyped DEF Edit, TypeOK
  <2>2. UNCHANGED <<pc, outcome, sel, lat, plan, fresh, todo, writes>>
        /\ disks' = disks \cup {disk'}
    BY <1>7 DEF Edit, run
  <2>3. TypeOK'
    BY <1>t, <2>1, <2>2 DEF TypeOK
  <2>4. \A file : Places(file) => Places(file)'
    BY <2>2, PlacesStay
  <2> QED BY <2>2, <2>3, <2>4, SoundStays, RunStays DEF PlanInv
<1>8. CASE UNCHANGED vars
  <2>1. UNCHANGED <<disk, pc, outcome, disks, sel, lat, plan, fresh, todo, writes>>
    BY <1>8 DEF vars, run
  <2>2. TypeOK'
    BY <1>t, <2>1 DEF TypeOK
  <2>3. \A file : Places(file) => Places(file)'
    BY <2>1, PlacesStay
  <2> QED BY <2>1, <2>2, <2>3, SoundStays, RunStays DEF PlanInv
<1> QED BY <1>1, <1>2, <1>3, <1>4, <1>5, <1>6, <1>7, <1>8, CaptureKeeps, PlanManifestsKeeps,
           ReadKeeps DEF Next

\* What a run has in memory fits the files that it was read from and the selection.
THEOREM PlanInvariant == Spec => []PlanInv
  BY PlanInit, PlanStep, PTL DEF Spec

\* Types, and no work is left over between runs.
THEOREM PlanTyped == Spec => []TypeOK
<1>1. PlanInv => TypeOK
  BY DEF PlanInv
<1> QED BY <1>1, PlanInvariant, PTL

\* A commit changes nothing but `seen` values of selected edges and of what merges them:
\* an external edge's in the record that its node was loaded from, an inline one's in a
\* file that the node's path led to, a file of its own for every node
\* (reconcile.py, manifest_reconcile.py).
THEOREM SelectedEdgesOnly == Spec => OnlySelectedEdges
<1>1. PlanInv /\ [Next]_vars =>
        [Committing =>
           /\ \E file \in [InlineNodes -> Paths] :
                /\ \A i \in InlineNodes :
                     /\ LedTo(i, file[i]) /\ DocumentKept(i, disk.doc[file[i]], disk'.doc[file[i]])
                     /\ \E d \in disks \cup {disk'} : Settled(i, d.doc[file[i]])
                /\ \A i, j \in InlineNodes : file[i] = file[j] => i = j
                /\ \A p \in Paths \ {file[i] : i \in InlineNodes} : disk'.doc[p] = disk.doc[p]
           /\ \A m \in ManifestFiles : TextKept(disk.man[m], disk'.man[m])
           /\ disk'.link = disk.link /\ disk'.mlink = disk.mlink]_vars
  <2> SUFFICES ASSUME PlanInv, Next, Committing
               PROVE  /\ \E file \in [InlineNodes -> Paths] :
                           /\ \A i \in InlineNodes :
                                /\ LedTo(i, file[i])
                                /\ DocumentKept(i, disk.doc[file[i]], disk'.doc[file[i]])
                                /\ \E d \in disks \cup {disk'} : Settled(i, d.doc[file[i]])
                           /\ \A i, j \in InlineNodes : file[i] = file[j] => i = j
                           /\ \A p \in Paths \ {file[i] : i \in InlineNodes} :
                                disk'.doc[p] = disk.doc[p]
                      /\ \A m \in ManifestFiles : TextKept(disk.man[m], disk'.man[m])
                      /\ disk'.link = disk.link /\ disk'.mlink = disk.mlink
    OBVIOUS
  <2>1. commit_rewrites
    <3>1. pc = "read" /\ outcome' = "done" /\ outcome = "none"
      BY DEF Committing, PlanInv
    <3> QED BY <3>1 DEF Next, Start, Load, LoadFails, Select, SelectFails, Capture, CaptureRefuses,
                 PlanManifests, PlanManifestsRefuses, ReadInline, ReadRefuses, ReadFails,
                 CommitConflicts, Preview, Edit, Stop, At, Finish
  <2>2. /\ pc = "read" /\ todo = Empty
        /\ disk' = After(disk, writes) /\ \A w \in writes : Now(disk, w) = w.before
    BY <2>1 DEF commit_rewrites, Finish
  <2>3. disk \in Disks /\ \A w \in writes : Sound(w) /\ Fits(w)
    BY DEF PlanInv, TypeOK, Sound
  <2>4. PICK file : Places(file)
    BY <2>2 DEF PlanInv
  <2>5. DOMAIN todo = {}
    BY <2>2 DEF Empty
  <2>6. /\ file \in [InlineNodes -> Paths] /\ \A i \in InlineNodes : LedTo(i, file[i])
        /\ \A i, j \in InlineNodes : file[i] = file[j] => i = j
        /\ \A w \in writes : w.kind = "inline" => \E i \in InlineNodes : Rewrites(w, i, file[i])
        /\ \A i \in InlineNodes : \/ \E w \in writes : Rewrites(w, i, file[i])
                                  \/ \E d \in disks : Settled(i, d.doc[file[i]])
    BY <2>4, <2>5 DEF Places
  <2>7. \A p \in Paths :
          \/ (~\E w \in writes : Hits(w, "inline", p)) /\ disk'.doc[p] = disk.doc[p]
          \/ \E w \in writes : Hits(w, "inline", p) /\ disk'.doc[p] = w.after
    BY <2>2, <2>3, AfterFacts
  <2>8. ASSUME NEW i \in InlineNodes, NEW w \in writes, Hits(w, "inline", file[i])
        PROVE  Rewrites(w, i, file[i]) /\ w.before = disk.doc[file[i]]
    <3>1. PICK j \in InlineNodes : Rewrites(w, j, file[j])
      BY <2>6, <2>8 DEF Hits
    <3>2. j = i
      BY <2>6, <2>8, <3>1 DEF Hits, Rewrites
    <3>3. w.before = disk.doc[w.file]
      BY <2>2, <2>8, "inline" # "manifest" DEF Now, Hits
    <3> QED BY <2>8, <3>1, <3>2, <3>3 DEF Hits
  <2>9. ASSUME NEW i \in InlineNodes
        PROVE  /\ DocumentKept(i, disk.doc[file[i]], disk'.doc[file[i]])
               /\ \E d \in disks \cup {disk'} : Settled(i, d.doc[file[i]])
    <3>1. file[i] \in Paths
      BY <2>6
    <3>2. CASE (~\E w \in writes : Hits(w, "inline", file[i])) /\ disk'.doc[file[i]] = disk.doc[file[i]]
      <4>1. \E d \in disks : Settled(i, d.doc[file[i]])
        BY <2>6, <3>2 DEF Hits, Rewrites
      <4> QED BY <3>2, <4>1, SameDocument
    <3>3. CASE \E w \in writes : Hits(w, "inline", file[i]) /\ disk'.doc[file[i]] = w.after
      <4>1. PICK w \in writes : Hits(w, "inline", file[i]) /\ disk'.doc[file[i]] = w.after
        BY <3>3
      <4>2. Rewrites(w, i, file[i]) /\ w.before = disk.doc[file[i]]
        BY <2>8, <4>1
      <4> QED BY <4>1, <4>2 DEF Rewrites
    <3> QED BY <2>7, <3>1, <3>2, <3>3
  <2>10. ASSUME NEW p \in Paths \ {file[i] : i \in InlineNodes} PROVE disk'.doc[p] = disk.doc[p]
    <3>1. ~\E w \in writes : Hits(w, "inline", p)
      BY <2>6 DEF Hits, Rewrites
    <3> QED BY <2>7, <3>1
  <2>11. ASSUME NEW m \in ManifestFiles PROVE TextKept(disk.man[m], disk'.man[m])
    <3>1. CASE disk'.man[m] = disk.man[m]
      BY <2>3, <3>1, DiskFacts, Unchanged
    <3>2. CASE \E w \in writes : Hits(w, "manifest", m) /\ disk'.man[m] = w.after
      <4>1. PICK w \in writes : w.kind = "manifest" /\ w.file = m /\ disk'.man[m] = w.after
        BY <3>2 DEF Hits
      <4>2. disk.man[m] = w.before
        BY <2>2, <4>1 DEF Now
      <4> QED BY <2>3, <4>1, <4>2 DEF Sound
    <3> QED BY <2>2, <2>3, <3>1, <3>2, AfterFacts
  <2>12. disk'.link = disk.link /\ disk'.mlink = disk.mlink
    BY <2>2, <2>3, AfterFacts
  <2> QED BY <2>6, <2>9, <2>10, <2>11, <2>12
<1> QED BY <1>1, PlanInvariant, PTL DEF Spec, OnlySelectedEdges

-----------------------------------------------------------------------------
(* What hashes in the entries do to the lattice.                             *)

\* Entries that hash `u` was put into resolve to the hashes, and else to what they did,
\* but for references in `free`.
Resolves(old, new, u, free) ==
  /\ DOMAIN _resolve_edges(new) = DOMAIN _resolve_edges(old)
  /\ \A ref \in DOMAIN _resolve_edges(old) :
       /\ ref \in DOMAIN u => _resolve_edges(new)[ref] = u[ref]
       /\ ref \notin DOMAIN u \cup free => _resolve_edges(new)[ref] = _resolve_edges(old)[ref]

\* References whose latest entry merges one of which the reference gets a hash.
Following(doc, u) ==
  {ref \in Refs : \E j \in DOMAIN doc.entries :
                    /\ <<Latest(Positions(doc.entries, ref)), j>> \in doc.merges
                    /\ doc.entries[j].ref \in DOMAIN u}

LEMMA LatestFacts ==
  ASSUME NEW old \in Entries, NEW ref \in DOMAIN _resolve_edges(old),
         NEW k, k = Latest(Positions(old, ref))
  PROVE  k \in DOMAIN old /\ old[k].ref = ref /\ _resolve_edges(old)[ref] = old[k].seen
<1>1. ref \in {old[j].ref : j \in DOMAIN old}
  BY DEF _resolve_edges
<1>2. Positions(old, ref) # {}
  BY <1>1 DEF Positions
<1>3. Len(old) \in Nat /\ Positions(old, ref) \in SUBSET (1 .. Len(old))
  BY LenProperties DEF Positions, Entries
<1>4. k \in Positions(old, ref)
  BY <1>2, <1>3, HasLatest
<1> QED BY <1>1, <1>4 DEF Positions, _resolve_edges

LEMMA ResolvedEdges ==
  ASSUME NEW old \in Entries, NEW new, Sameness(old, new), NEW u, NEW free,
         \A ref \in DOMAIN _resolve_edges(old) : \A k \in DOMAIN old :
           k = Latest(Positions(old, ref)) =>
             /\ ref \in DOMAIN u => new[k].seen = u[ref]
             /\ ref \notin DOMAIN u \cup free => new[k].seen = old[k].seen
  PROVE  Resolves(old, new, u, free)
<1>1. DOMAIN new = DOMAIN old /\ \A k \in DOMAIN old : new[k].ref = old[k].ref
  BY DEF Sameness, Edge
<1>2. {new[k].ref : k \in DOMAIN new} = {old[k].ref : k \in DOMAIN old}
  BY <1>1
<1>3. \A ref : Positions(new, ref) = Positions(old, ref)
  BY <1>1 DEF Positions
<1>4. DOMAIN _resolve_edges(new) = DOMAIN _resolve_edges(old)
      /\ DOMAIN _resolve_edges(old) = {old[k].ref : k \in DOMAIN old}
  BY <1>2 DEF _resolve_edges
<1>5. ASSUME NEW ref \in DOMAIN _resolve_edges(old)
      PROVE  /\ ref \in DOMAIN u => _resolve_edges(new)[ref] = u[ref]
             /\ ref \notin DOMAIN u \cup free => _resolve_edges(new)[ref] = _resolve_edges(old)[ref]
  <2> DEFINE k == Latest(Positions(old, ref))
  <2>1. k \in DOMAIN old /\ _resolve_edges(old)[ref] = old[k].seen
    BY <1>5, LatestFacts
  <2>2. _resolve_edges(new)[ref] = new[k].seen
    BY <1>2, <1>3, <1>4, <1>5 DEF _resolve_edges
  <2>3. k = Latest(Positions(old, ref))
    OBVIOUS
  <2> HIDE DEF k
  <2> QED BY <1>5, <2>1, <2>2, <2>3
<1> QED BY <1>4, <1>5, Zenon DEF Resolves

LEMMA SameResolves == \A old, u, free : DOMAIN u = {} => Resolves(old, old, u, free)
  BY DEF Resolves

\* A document in which no edge has its hash resolves to the hashes once they are written.
LEMMA ResolvedAll ==
  ASSUME NEW doc \in Documents, NEW u, \A r \in DOMAIN u : u[r] \in Seq(Nat),
         \A r \in DOMAIN u : r \in DOMAIN _resolve_edges(doc.entries) =>
                               _resolve_edges(doc.entries)[r] # u[r]
  PROVE  Resolves(doc.entries, apply_reconcile(doc, u), u, Following(doc, u))
<1> DEFINE new == apply_reconcile(doc, u)
           old == doc.entries
<1>1. old \in Entries
  BY DEF Documents
<1>2. Sameness(old, new) /\ \A k \in DOMAIN old : Applied(doc, u, new, k)
  BY ApplyFacts
<1>3. \A r, s : Edge(r, s).seen = s
  BY DEF Edge
<1> HIDE DEF new
<1>4. ASSUME NEW ref \in DOMAIN _resolve_edges(old), NEW k \in DOMAIN old,
             k = Latest(Positions(old, ref))
      PROVE  /\ ref \in DOMAIN u => new[k].seen = u[ref]
             /\ ref \notin DOMAIN u \cup Following(doc, u) => new[k].seen = old[k].seen
  <2>1. old[k].ref = ref /\ _resolve_edges(old)[ref] = old[k].seen
    BY <1>1, <1>4, LatestFacts
  <2>2. CASE ref \in DOMAIN u
    <3>1. k \in Edited(doc, u)
      BY <2>1, <2>2 DEF Edited
    <3>2. new[k] = Edge(old[k].ref, u[old[k].ref])
      BY <1>2, <3>1 DEF Applied
    <3> QED BY <1>3, <2>1, <2>2, <3>2
  <2>3. CASE ref \notin DOMAIN u \cup Following(doc, u)
    <3>1. k \notin Edited(doc, u)
      BY <2>1, <2>3 DEF Edited
    <3>2. ASSUME NEW j \in Sources(doc, u, k) PROVE FALSE
      <4>1. <<k, j>> \in doc.merges /\ j \in DOMAIN old /\ old[j].ref \in DOMAIN u
        BY <3>2 DEF Sources, Edited
      <4>2. ref \in Refs
        BY <1>1, <2>1, SeenTyped
      <4> QED BY <1>4, <2>3, <4>1, <4>2 DEF Following
    <3>3. new[k] = old[k]
      BY <1>2, <3>1, <3>2 DEF Applied
    <3> QED BY <2>3, <3>3
  <2> QED BY <2>2, <2>3
<1>5. Resolves(old, new, u, Following(doc, u))
  BY <1>1, <1>2, <1>4, ResolvedEdges
<1> QED BY <1>5 DEF new

LEMMA ResolvedLast ==
  ASSUME NEW old \in Entries, NEW u, \A r \in DOMAIN u : u[r] \in Seq(Nat)
  PROVE  Resolves(old, SetLast(old, u), u, {})
<1> DEFINE new == SetLast(old, u)
<1>1. /\ Sameness(old, new)
      /\ \A k \in DOMAIN old :
           new[k] = IF old[k].ref \in DOMAIN u /\ k = Latest(Positions(old, old[k].ref))
                      THEN Edge(old[k].ref, u[old[k].ref]) ELSE old[k]
  BY SetLastFacts
<1> HIDE DEF new
<1>2. ASSUME NEW ref \in DOMAIN _resolve_edges(old), NEW k \in DOMAIN old,
             k = Latest(Positions(old, ref))
      PROVE  /\ ref \in DOMAIN u => new[k].seen = u[ref]
             /\ ref \notin DOMAIN u \cup {} => new[k].seen = old[k].seen
  <2>1. \A r, s : Edge(r, s).seen = s
    BY DEF Edge
  <2>2. old[k].ref = ref
    BY <1>2, LatestFacts
  <2> QED BY <1>1, <1>2, <2>1, <2>2
<1>3. Resolves(old, new, u, {})
  BY <1>1, <1>2, ResolvedEdges
<1> QED BY <1>3 DEF new

\* The nodes of a project, known by where they are.
LEMMA NodeFacts ==
  ASSUME NEW d \in Disks
  PROVE  /\ \A p : /\ InlineNode(d, p).manifest = None /\ InlineNode(d, p).path = p
                   /\ InlineNode(d, p).id = d.doc[d.link[p]].id
                   /\ InlineNode(d, p).index = 0 /\ InlineNode(d, p).target = d.link[p]
                   /\ InlineNode(d, p).edges = _resolve_edges(d.doc[d.link[p]].entries)
                   /\ InlineNode(d, p).hash = d.doc[d.link[p]].body
         /\ \A r \in Records(d) :
              /\ ExternalNode(d, r).manifest = r[1] /\ ExternalNode(d, r).index = r[2]
              /\ r = <<r[1], r[2]>> /\ r[1] \in Manifests
              /\ ExternalNode(d, r).id = RecordAt(d, r).id
              /\ ExternalNode(d, r).path = RecordAt(d, r).path
              /\ ExternalNode(d, r).target = Target(d, r)
              /\ ExternalNode(d, r).edges = _resolve_edges(RecordAt(d, r).edges)
              /\ ExternalNode(d, r).hash = d.doc[Target(d, r)].body
              /\ ExternalNode(d, r).manifest # None
<1>1. \A p : /\ InlineNode(d, p).manifest = None /\ InlineNode(d, p).path = p
             /\ InlineNode(d, p).id = d.doc[d.link[p]].id
             /\ InlineNode(d, p).index = 0 /\ InlineNode(d, p).target = d.link[p]
             /\ InlineNode(d, p).edges = _resolve_edges(d.doc[d.link[p]].entries)
             /\ InlineNode(d, p).hash = d.doc[d.link[p]].body
  BY DEF InlineNode, content_hash
<1>2. ASSUME NEW r \in Records(d)
      PROVE  /\ ExternalNode(d, r).manifest = r[1] /\ ExternalNode(d, r).index = r[2]
             /\ r = <<r[1], r[2]>> /\ r[1] \in Manifests
             /\ ExternalNode(d, r).id = RecordAt(d, r).id
             /\ ExternalNode(d, r).path = RecordAt(d, r).path
             /\ ExternalNode(d, r).target = Target(d, r)
             /\ ExternalNode(d, r).edges = _resolve_edges(RecordAt(d, r).edges)
             /\ ExternalNode(d, r).hash = d.doc[Target(d, r)].body
             /\ ExternalNode(d, r).manifest # None
  <2>1. r = <<r[1], r[2]>> /\ r[1] \in Manifests
    BY RecordFacts
  <2> QED BY <2>1 DEF ExternalNode, content_hash
<1> QED BY <1>1, <1>2

\* Node i was loaded from record k of manifest m, the only one with its id.
LoadedFrom(d, i, m, k) ==
  LET records == d.man[d.mlink[m]].records
  IN  /\ k \in DOMAIN records /\ <<m, k>> \in Records(d)
      /\ Lattice(d).nodes[i] = ExternalNode(d, <<m, k>>)
      /\ RecordAt(d, <<m, k>>) = records[k] /\ records[k].id = i
      /\ Cardinality(Matches(records, i)) = 1 /\ position(records, i) = k

LEMMA RecordOfNode ==
  ASSUME NEW d \in Disks, Loads(d), NEW i \in DOMAIN Lattice(d).nodes,
         NEW m, m = Lattice(d).nodes[i].manifest, m # None
  PROVE  \E k : LoadedFrom(d, i, m, k)
<1> DEFINE n == Lattice(d).nodes[i]
           records == d.man[d.mlink[m]].records
<1>1. n \in Nodes(d) /\ n.id = i
  BY LatticeFacts
<1>2. PICK r \in Records(d) : n = ExternalNode(d, r)
  BY <1>1, NodeFacts DEF Nodes
<1> DEFINE k == r[2]
<1>3. r[1] = m /\ n.index = k
  BY <1>2, NodeFacts
<1>4. /\ r = <<m, k>> /\ m \in Manifests /\ d.mlink[m] \in ManifestFiles
      /\ k \in DOMAIN records
  BY <1>3, RecordFacts
<1>5. \A j : RecordAt(d, <<m, j>>) = records[j]
  BY DEF RecordAt
<1>6. records[k].id = i
  BY <1>1, <1>2, <1>4, <1>5, NodeFacts
<1>7. ASSUME NEW j \in DOMAIN records, records[j].id = i PROVE j = k
  <2>1. <<m, j>> \in Records(d)
    <3> DEFINE its(x) == {<<x, y>> : y \in DOMAIN d.man[d.mlink[x]].records}
    <3>1. m \in {x \in Manifests : d.mlink[x] # Outside}
      BY <1>4
    <3>2. <<m, j>> \in its(m)
      BY <1>7
    <3>3. Records(d) = UNION {its(x) : x \in {y \in Manifests : d.mlink[y] # Outside}}
      BY DEF Records
    <3> HIDE DEF its
    <3> QED BY <3>1, <3>2, <3>3
  <2>2. ExternalNode(d, <<m, j>>) \in Nodes(d)
    BY <2>1 DEF Nodes
  <2>3. ExternalNode(d, <<m, j>>).id = i /\ ExternalNode(d, <<m, j>>).index = j
    <3>1. <<m, j>>[2] = j /\ RecordAt(d, <<m, j>>).id = i
      BY <1>5, <1>7
    <3> QED BY <2>1, <3>1, NodeFacts
  <2>4. ExternalNode(d, <<m, j>>) = n
    BY <1>1, <2>2, <2>3 DEF Loads
  <2> QED BY <1>3, <2>3, <2>4
<1>8. Matches(records, i) = {k}
  BY <1>4, <1>6, <1>7 DEF Matches
<1>9. Cardinality(Matches(records, i)) = 1
  BY <1>8, FS_Singleton
<1>10. records \in Seq(Registrations)
  BY <1>4, DiskFacts DEF Texts
<1>11. Len(records) \in Nat /\ Matches(records, i) \in SUBSET (1 .. Len(records))
  BY <1>10, LenProperties DEF Matches
<1>12. position(records, i) = k
  BY <1>8, <1>9, <1>11, OnePosition DEF position
<1> QED BY <1>2, <1>4, <1>5, <1>6, <1>9, <1>12 DEF LoadedFrom

\* And an inline node is the only one whose path reaches its file.
LEMMA PathOfNode ==
  ASSUME NEW d \in Disks, Loads(d), NEW i \in DOMAIN Lattice(d).nodes, Inline(Lattice(d), i)
  PROVE  LET p == Lattice(d).nodes[i].path IN
         /\ p \in Inlines(d) /\ Lattice(d).nodes[i] = InlineNode(d, p)
         /\ p \in Paths /\ d.link[p] \in Paths
         /\ d.doc[d.link[p]].ok
         /\ d.doc[d.link[p]].id = i
<1> DEFINE n == Lattice(d).nodes[i]
<1>1. n \in Nodes(d) /\ n.id = i /\ n.manifest = None
  BY LatticeFacts DEF Inline
<1>2. PICK p \in Inlines(d) : n = InlineNode(d, p)
  BY <1>1, NodeFacts DEF Nodes
<1>3. n.path = p /\ n.id = d.doc[d.link[p]].id
  BY <1>2, NodeFacts
<1>4. p \in Paths /\ d.link[p] \in Paths
  BY DiskFacts DEF Inlines
<1>5. d.doc[d.link[p]].ok
  BY <1>4 DEF Loads
<1> QED BY <1>1, <1>2, <1>3, <1>4, <1>5

LEMMA OnePath ==
  ASSUME NEW d \in Disks, Loads(d),
         NEW i \in DOMAIN Lattice(d).nodes, Inline(Lattice(d), i),
         NEW j \in DOMAIN Lattice(d).nodes, Inline(Lattice(d), j),
         d.link[Lattice(d).nodes[i].path] = d.link[Lattice(d).nodes[j].path]
  PROVE  i = j
<1> DEFINE p == Lattice(d).nodes[i].path
           q == Lattice(d).nodes[j].path
<1>1. p \in Inlines(d) /\ q \in Inlines(d) /\ p \in Paths /\ q \in Paths
      /\ d.doc[d.link[p]].id = i /\ d.doc[d.link[q]].id = j
  BY PathOfNode
<1> QED BY <1>1

\* A node is known by its path, or by its manifest and its place there.
LEMMA NodeKey ==
  ASSUME NEW d \in Disks, NEW n \in Nodes(d), NEW o \in Nodes(d),
         n.path = o.path, n.manifest = o.manifest, n.index = o.index
  PROVE  n = o
<1>1. \A x \in Nodes(d) :
        \/ x = InlineNode(d, x.path) /\ x.manifest = None
        \/ x = ExternalNode(d, <<x.manifest, x.index>>) /\ x.manifest # None
  <2> TAKE x \in Nodes(d)
  <2>1. CASE \E p \in Inlines(d) : x = InlineNode(d, p)
    BY <2>1, NodeFacts
  <2>2. CASE \E r \in Records(d) : x = ExternalNode(d, r)
    BY <2>2, NodeFacts
  <2> QED BY <2>1, <2>2 DEF Nodes
<1> QED BY <1>1

\* What a run's writes make of a project: every file says what it said, but for the
\* hashes of `u` in the edges.
Settles(d, e, u) ==
  /\ e.link = d.link /\ e.mlink = d.mlink
  /\ \A p \in Paths : /\ e.doc[p].id = d.doc[p].id /\ e.doc[p].body = d.doc[p].body
                      /\ e.doc[p].ok = d.doc[p].ok
  /\ \A p \in Inlines(d) :
       Resolves(d.doc[d.link[p]].entries, e.doc[d.link[p]].entries,
                Updates(u, d.doc[d.link[p]].id),
                Following(d.doc[d.link[p]], Updates(u, d.doc[d.link[p]].id)))
  /\ Records(e) = Records(d)
  /\ \A r \in Records(d) :
       /\ RecordAt(e, r).id = RecordAt(d, r).id /\ RecordAt(e, r).path = RecordAt(d, r).path
       /\ Resolves(RecordAt(d, r).edges, RecordAt(e, r).edges, Updates(u, RecordAt(d, r).id), {})
  /\ \A m \in Manifests : e.man[e.mlink[m]].ok = d.man[d.mlink[m]].ok

Free(d, n, u) ==
  IF n.manifest = None THEN Following(d.doc[n.target], Updates(u, n.id)) ELSE {}

\* A node before and after.
Alike(d, n, o, u) ==
  /\ o.id = n.id /\ o.path = n.path /\ o.manifest = n.manifest /\ o.index = n.index
  /\ o.hash = n.hash /\ DOMAIN o.edges = DOMAIN n.edges
  /\ \A ref \in DOMAIN n.edges :
       /\ ref \in DOMAIN Updates(u, n.id) => o.edges[ref] = Updates(u, n.id)[ref]
       /\ ref \notin DOMAIN Updates(u, n.id) \cup Free(d, n, u) => o.edges[ref] = n.edges[ref]

LEMMA SettledNodes ==
  ASSUME NEW d \in Disks, NEW e \in Disks, NEW u, Loads(d), Settles(d, e, u)
  PROVE  /\ Loads(e)
         /\ DOMAIN Lattice(e).nodes = DOMAIN Lattice(d).nodes
         /\ \A i \in DOMAIN Lattice(d).nodes : Alike(d, Lattice(d).nodes[i], Lattice(e).nodes[i], u)
<1>1. \A r \in Records(d) : Target(e, r) = Target(d, r)
  BY DEF Settles, Target
<1>2. Records(e) = Records(d) /\ e.link = d.link /\ e.mlink = d.mlink
  BY DEF Settles
<1>3. \A p \in Paths : d.link[p] \in Paths \cup {Outside}
  BY DiskFacts
<1>4. Inlines(e) = Inlines(d)
  <2>1. \A p \in Paths : d.link[p] # Outside => e.doc[d.link[p]].id = d.doc[d.link[p]].id
    BY <1>3 DEF Settles
  <2>2. ASSUME NEW p \in Paths PROVE p \in Inlines(e) <=> p \in Inlines(d)
    <3>1. e.link[p] # Outside /\ e.doc[e.link[p]].id # NoId
          <=> d.link[p] # Outside /\ d.doc[d.link[p]].id # NoId
      BY <1>2, <2>1
    <3>2. (\A r \in Records(e) : Target(e, r) # e.link[p])
          <=> (\A r \in Records(d) : Target(d, r) # d.link[p])
      BY <1>1, <1>2
    <3>3. (\A q \in Paths : e.link[q] = e.link[p] => p <= q)
          <=> (\A q \in Paths : d.link[q] = d.link[p] => p <= q)
      BY <1>2
    <3> QED BY <3>1, <3>2, <3>3, Zenon DEF Inlines
  <2>3. Inlines(e) \subseteq Paths /\ Inlines(d) \subseteq Paths
    BY DEF Inlines
  <2> QED BY <2>2, <2>3
<1>5. ASSUME NEW p \in Inlines(d) PROVE Alike(d, InlineNode(d, p), InlineNode(e, p), u)
  <2>1. p \in Paths /\ d.link[p] \in Paths
    BY <1>3 DEF Inlines
  <2>2. /\ e.doc[e.link[p]].id = d.doc[d.link[p]].id
        /\ e.doc[e.link[p]].body = d.doc[d.link[p]].body
        /\ Resolves(d.doc[d.link[p]].entries, e.doc[e.link[p]].entries,
                    Updates(u, d.doc[d.link[p]].id),
                    Following(d.doc[d.link[p]], Updates(u, d.doc[d.link[p]].id)))
    BY <2>1 DEF Settles
  <2> DEFINE n == InlineNode(d, p)
             o == InlineNode(e, p)
  <2>3. /\ n.id = d.doc[d.link[p]].id /\ n.path = p /\ n.manifest = None /\ n.index = 0
        /\ n.edges = _resolve_edges(d.doc[d.link[p]].entries) /\ n.hash = d.doc[d.link[p]].body
        /\ n.target = d.link[p]
    BY NodeFacts
  <2>4. /\ o.id = e.doc[e.link[p]].id /\ o.path = p /\ o.manifest = None /\ o.index = 0
        /\ o.edges = _resolve_edges(e.doc[e.link[p]].entries) /\ o.hash = e.doc[e.link[p]].body
    BY NodeFacts
  <2> HIDE DEF n, o
  <2>5. Free(d, n, u) = Following(d.doc[d.link[p]], Updates(u, n.id))
    BY <2>3 DEF Free
  <2>6. Alike(d, n, o, u)
    BY <2>2, <2>3, <2>4, <2>5 DEF Alike, Resolves
  <2> QED BY <2>6 DEF n, o
<1>6. ASSUME NEW r \in Records(d) PROVE Alike(d, ExternalNode(d, r), ExternalNode(e, r), u)
  <2>1. Target(d, r) \in Paths
    BY RecordFacts DEF Loads, build_registration_index
  <2>2. e.doc[Target(e, r)].body = d.doc[Target(d, r)].body
    BY <1>1, <2>1 DEF Settles
  <2>3. /\ RecordAt(e, r).id = RecordAt(d, r).id /\ RecordAt(e, r).path = RecordAt(d, r).path
        /\ Resolves(RecordAt(d, r).edges, RecordAt(e, r).edges, Updates(u, RecordAt(d, r).id), {})
    BY DEF Settles
  <2>4. r \in Records(e)
    BY <1>2
  <2>5. Free(d, ExternalNode(d, r), u) = {}
    BY NodeFacts DEF Free
  <2> QED BY <2>2, <2>3, <2>4, <2>5, NodeFacts DEF Alike, Resolves
<1>7. \A o \in Nodes(e) : \E n \in Nodes(d) : Alike(d, n, o, u)
  BY <1>2, <1>4, <1>5, <1>6, Zenon DEF Nodes
<1>8. \A n \in Nodes(d) : \E o \in Nodes(e) : Alike(d, n, o, u)
  BY <1>2, <1>4, <1>5, <1>6, Zenon DEF Nodes
<1>9. \A n, o \in Nodes(d) : n.id = o.id => n = o
  BY DEF Loads
<1>10. ASSUME NEW o \in Nodes(e), NEW q \in Nodes(e), o.id = q.id PROVE o = q
  <2>1. PICK n \in Nodes(d) : Alike(d, n, o, u)
    BY <1>7
  <2>2. PICK m \in Nodes(d) : Alike(d, m, q, u)
    BY <1>7
  <2>3. n = m
    BY <1>9, <1>10, <2>1, <2>2 DEF Alike
  <2>4. o.path = q.path /\ o.manifest = q.manifest /\ o.index = q.index
    BY <2>1, <2>2, <2>3 DEF Alike
  <2> QED BY <2>4, NodeKey
<1>11. build_registration_index(e)
  BY <1>1, <1>2 DEF Loads, build_registration_index, Settles
<1>12. Loads(e)
  <2>1. \A p \in Paths : e.link[p] # Outside => e.doc[e.link[p]].ok
    BY <1>2, <1>3 DEF Loads, Settles
  <2>2. ASSUME NEW r \in Records(e) PROVE e.doc[Target(e, r)].id = NoId
    <3>1. r \in Records(d) /\ Target(e, r) = Target(d, r)
      BY <1>1, <1>2
    <3>2. Target(d, r) \in Paths /\ d.doc[Target(d, r)].id = NoId
      BY <3>1, RecordFacts DEF Loads, build_registration_index
    <3> QED BY <3>1, <3>2 DEF Settles
  <2> QED BY <1>10, <1>11, <2>1, <2>2 DEF Loads
<1>13. DOMAIN Lattice(e).nodes = DOMAIN Lattice(d).nodes
  <2>1. {n.id : n \in Nodes(e)} = {n.id : n \in Nodes(d)}
    BY <1>7, <1>8 DEF Alike
  <2> QED BY <2>1, LatticeFacts
<1>14. ASSUME NEW i \in DOMAIN Lattice(d).nodes PROVE Alike(d, Lattice(d).nodes[i], Lattice(e).nodes[i], u)
  <2> DEFINE n == Lattice(d).nodes[i]
             o == Lattice(e).nodes[i]
  <2>1. n \in Nodes(d) /\ n.id = i
    BY LatticeFacts
  <2>2. o \in Nodes(e) /\ o.id = i
    BY <1>13, LatticeFacts
  <2>3. PICK m \in Nodes(d) : Alike(d, m, o, u)
    BY <1>7, <2>2
  <2>4. m.id = n.id
    BY <2>1, <2>2, <2>3 DEF Alike
  <2>5. m = n
    BY <1>9, <2>1, <2>4
  <2> QED BY <2>3, <2>5
<1> QED BY <1>12, <1>13, <1>14

\* Once the hashes are written there is nothing left to reconcile but what follows.
LEMMA SettledPlan ==
  ASSUME NEW d \in Disks, NEW e \in Disks, NEW s, Loads(d),
         NEW l, l = Lattice(d), NEW u, u = reconcile(l, s), Chosen(l, s, u), Settles(d, e, u)
  PROVE  /\ Loads(e)
         /\ \A f \in DOMAIN reconcile(Lattice(e), s) :
              f \notin DOMAIN u /\ f[1] \in DOMAIN l.nodes /\ f[2] \in Free(d, l.nodes[f[1]], u)
<1> DEFINE k == Lattice(e)
<1>1. /\ Loads(e) /\ DOMAIN k.nodes = DOMAIN l.nodes
      /\ \A i \in DOMAIN l.nodes : Alike(d, l.nodes[i], k.nodes[i], u)
  BY SettledNodes
<1>2. \A i \in DOMAIN l.nodes : l.nodes[i].id = i
  BY LatticeFacts
<1>3. /\ DOMAIN u = {f \in Reached(l, s) :
                       Resolved(l, f[2]) /\ l.nodes[f[1]].edges[f[2]] # target_hash(l, f[2])}
      /\ DOMAIN reconcile(k, s) =
           {f \in Reached(k, s) :
              Resolved(k, f[2]) /\ k.nodes[f[1]].edges[f[2]] # target_hash(k, f[2])}
  BY DEF reconcile
<1> HIDE DEF k
<1>4. ASSUME NEW f \in DOMAIN reconcile(k, s)
      PROVE  f \notin DOMAIN u /\ f[1] \in DOMAIN l.nodes /\ f[2] \in Free(d, l.nodes[f[1]], u)
  <2>0. /\ f \in Reached(k, s) /\ Resolved(k, f[2])
        /\ k.nodes[f[1]].edges[f[2]] # target_hash(k, f[2])
    BY <1>3, <1>4
  <2>1. /\ f = <<f[1], f[2]>> /\ f \in (DOMAIN l.nodes) \X Refs
        /\ f[1] \in DOMAIN l.nodes /\ f[2] \in DOMAIN k.nodes[f[1]].edges
        /\ s.id = None \/ f[1] = s.id
        /\ s.ref = None \/ f[2] = s.ref
    BY <1>1, <2>0 DEF Reached
  <2>2. /\ f[2] \in DOMAIN l.nodes[f[1]].edges
        /\ f[2] \in DOMAIN Updates(u, f[1]) => k.nodes[f[1]].edges[f[2]] = Updates(u, f[1])[f[2]]
        /\ f[2] \notin DOMAIN Updates(u, f[1]) \cup Free(d, l.nodes[f[1]], u) =>
             k.nodes[f[1]].edges[f[2]] = l.nodes[f[1]].edges[f[2]]
    BY <1>1, <1>2, <2>1 DEF Alike
  <2>3. f \in Reached(l, s)
    BY <2>1, <2>2 DEF Reached
  <2>4. Resolved(l, f[2]) /\ target_hash(k, f[2]) = target_hash(l, f[2])
    BY <1>1, <2>0 DEF Resolved, target_hash, Alike
  <2>5. f \notin DOMAIN u
    <3> SUFFICES ASSUME f \in DOMAIN u PROVE FALSE
      OBVIOUS
    <3>1. f[2] \in DOMAIN Updates(u, f[1]) /\ Updates(u, f[1])[f[2]] = u[f]
      BY <2>1, UpdatesFacts
    <3>2. u[f] = target_hash(l, f[2])
      BY DEF Chosen
    <3> QED BY <2>0, <2>2, <2>4, <3>1, <3>2
  <2>6. f[2] \in Free(d, l.nodes[f[1]], u)
    <3> SUFFICES ASSUME f[2] \notin Free(d, l.nodes[f[1]], u) PROVE FALSE
      OBVIOUS
    <3>1. f[2] \notin DOMAIN Updates(u, f[1])
      BY <2>1, <2>5, UpdatesFacts
    <3>2. l.nodes[f[1]].edges[f[2]] = target_hash(l, f[2])
      BY <1>3, <2>3, <2>4, <2>5
    <3> QED BY <2>0, <2>2, <2>4, <3>1, <3>2
  <2> QED BY <2>1, <2>5, <2>6
<1> QED BY <1>1, <1>4 DEF k

-----------------------------------------------------------------------------
(* A run that nobody disturbs.                                               *)

\* The writes that files which nobody edits ask for.
ManifestOf(m) == ManifestWrite(lat, plan, m)
Reaches(i) == Destination(disk, i)
InlineOf(i) == InlineWrite(Reaches(i), disk.doc[Reaches(i)], i)

Planning ==
  /\ Requested = {}
  /\ \A m \in DOMAIN fresh : ManifestOf(m).after = ManifestOf(m).before \/ ManifestOf(m) \in writes
  /\ \A i \in InlineNodes :
       Reaches(i) \in DOMAIN todo \/ InlineOf(i).changed = {} \/ InlineOf(i) \in writes
  /\ \A p \in DOMAIN todo : /\ todo[p] # {}
                            /\ todo[p] = {i \in InlineNodes : Reaches(i) = p}
  /\ \A w \in writes : \/ \E m \in DOMAIN fresh : w = ManifestOf(m)
                       \/ \E i \in InlineNodes : w = InlineOf(i)

\* While nobody edits a file, what a run has in memory is what the files say.
QuietInv ==
  quiet =>
    /\ pc \in {"select", "capture", "read"} => Loads(disk) /\ lat = Lattice(disk)
    /\ pc \in {"capture", "read"} => plan = reconcile(lat, sel)
    /\ \A m \in DOMAIN fresh : /\ fresh[m] = Captured(disk, m, Wanted(m))
                               /\ Captures(disk, m, Wanted(m))
    /\ pc = "read" => Planning

LEMMA QuietFrame ==
  ASSUME UNCHANGED <<disk, lat, plan>>
  PROVE  /\ InlineNodes' = InlineNodes
         /\ \A m : Wanted(m)' = Wanted(m)
         /\ \A i : Reaches(i)' = Reaches(i) /\ InlineOf(i)' = InlineOf(i)
         /\ fresh' = fresh => Requested' = Requested /\ \A m : ManifestOf(m)' = ManifestOf(m)
<1>1. disk' = disk /\ lat' = lat /\ plan' = plan
  OBVIOUS
<1>2. InlineNodes' = InlineNodes
  BY <1>1 DEF InlineNodes
<1>3. \A m : Wanted(m)' = Wanted(m)
  BY <1>1 DEF Wanted
<1>4. \A i : Reaches(i)' = Reaches(i)
  BY <1>1 DEF Reaches, Destination
<1>5. \A i : InlineOf(i)' = InlineOf(i)
  BY <1>1, <1>4 DEF InlineOf, InlineWrite
<1>6. fresh' = fresh => Requested' = Requested /\ \A m : ManifestOf(m)' = ManifestOf(m)
  BY <1>1 DEF Requested, ManifestOf, ManifestWrite
<1> QED BY <1>2, <1>3, <1>4, <1>5, <1>6

\* No two inline nodes of a quiet run reach the same file.
LEMMA OneNode ==
  ASSUME PlanInv, QuietInv, quiet, pc \in {"capture", "read"},
         NEW i \in InlineNodes, NEW j \in InlineNodes, Reaches(i) = Reaches(j)
  PROVE  i = j
<1>1. /\ Loads(disk) /\ lat = Lattice(disk) /\ Chosen(lat, sel, plan) /\ disk \in Disks
  BY DEF QuietInv, PlanInv, TypeOK
<1>2. ASSUME NEW x \in InlineNodes PROVE x \in DOMAIN Lattice(disk).nodes /\ Inline(Lattice(disk), x)
  BY <1>1 DEF InlineNodes, Planned, Chosen
<1>3. disk.link[Lattice(disk).nodes[i].path] = disk.link[Lattice(disk).nodes[j].path]
  BY <1>1 DEF Reaches, Destination
<1> QED BY <1>1, <1>2, <1>3, OnePath

LEMMA QuietCapture ==
  ASSUME QuietInv, Capture
  PROVE  QuietInv'
<1> SUFFICES ASSUME quiet' PROVE QuietInv'
  BY DEF QuietInv
<1>1. PICK m \in Requested :
        /\ Captures(disk, m, Wanted(m))
        /\ fresh' = [x \in DOMAIN fresh \cup {m} |->
                       IF x = m THEN Captured(disk, m, Wanted(m)) ELSE fresh[x]]
  BY DEF Capture
<1>2. /\ pc = "capture" /\ pc' = pc /\ quiet
      /\ UNCHANGED <<disk, sel, lat, plan, todo, writes>>
  BY DEF Capture, At
<1>3. \A x : Wanted(x)' = Wanted(x)
  BY <1>2, QuietFrame
<1>4. ASSUME NEW x \in DOMAIN fresh'
      PROVE  /\ fresh'[x] = Captured(disk, x, Wanted(x)) /\ Captures(disk, x, Wanted(x))
  <2>1. CASE x = m
    BY <1>1, <2>1
  <2>2. CASE x # m
    <3>1. x \in DOMAIN fresh /\ fresh'[x] = fresh[x]
      BY <1>1, <1>4, <2>2
    <3> QED BY <1>2, <3>1 DEF QuietInv
  <2> QED BY <2>1, <2>2
<1>5. \A x \in DOMAIN fresh' : /\ fresh'[x] = Captured(disk, x, Wanted(x)')
                               /\ Captures(disk, x, Wanted(x)')
  BY <1>3, <1>4
<1>6. \A x \in DOMAIN fresh' : /\ fresh'[x] = Captured(disk', x, Wanted(x)')
                               /\ Captures(disk', x, Wanted(x)')
  BY <1>2, <1>5
<1> QED BY <1>2, <1>6 DEF QuietInv

LEMMA QuietPlanManifests ==
  ASSUME PlanInv, QuietInv, PlanManifests
  PROVE  QuietInv'
<1> SUFFICES ASSUME quiet' PROVE QuietInv'
  BY DEF QuietInv
<1>1. /\ pc = "capture" /\ pc' = "read" /\ quiet /\ Requested = {}
      /\ writes' = {w \in {ManifestOf(m) : m \in DOMAIN fresh} : w.after # w.before}
      /\ todo' = [p \in {Reaches(i) : i \in InlineNodes} |-> {i \in InlineNodes : Reaches(i) = p}]
      /\ UNCHANGED <<disk, sel, lat, plan, fresh>>
  BY DEF PlanManifests, At, ManifestOf, Reaches
<1>2. /\ InlineNodes' = InlineNodes /\ Requested' = Requested
      /\ \A m : Wanted(m)' = Wanted(m) /\ ManifestOf(m)' = ManifestOf(m)
      /\ \A i : Reaches(i)' = Reaches(i)
  BY <1>1, QuietFrame
<1>3. DOMAIN fresh' = DOMAIN fresh
  BY <1>1
<1>4. \A p \in DOMAIN todo' : /\ todo'[p] # {}
                              /\ todo'[p] = {i \in InlineNodes' : Reaches(i)' = p}
  BY <1>1, <1>2
<1>5. \A i \in InlineNodes' : Reaches(i)' \in DOMAIN todo'
  BY <1>1, <1>2
<1>6. \A m \in DOMAIN fresh' : \/ ManifestOf(m)'.after = ManifestOf(m)'.before
                               \/ ManifestOf(m)' \in writes'
  BY <1>1, <1>2, <1>3
<1>7. \A w \in writes' : \E m \in DOMAIN fresh' : w = ManifestOf(m)'
  BY <1>1, <1>2, <1>3
<1>8. Planning'
  BY <1>1, <1>2, <1>4, <1>5, <1>6, <1>7 DEF Planning
<1> QED BY <1>1, <1>2, <1>8 DEF QuietInv

LEMMA QuietReadInline ==
  ASSUME PlanInv, QuietInv, ReadInline
  PROVE  QuietInv'
<1> SUFFICES ASSUME quiet' PROVE QuietInv'
  BY DEF QuietInv
<1>1. PICK p \in DOMAIN todo :
        /\ Alone(p) /\ todo' = Rest(todo, p)
        /\ LET w == InlineWrite(p, disk.doc[p], CHOOSE i \in todo[p] : TRUE)
           IN  writes' = IF w.changed = {} THEN writes ELSE writes \cup {w}
  BY DEF ReadInline
<1>2. /\ pc = "read" /\ pc' = pc /\ quiet
      /\ UNCHANGED <<disk, sel, lat, plan, fresh>>
  BY DEF ReadInline, At
<1>3. Planning
  BY <1>2 DEF QuietInv
<1>4. /\ InlineNodes' = InlineNodes /\ Requested' = Requested
      /\ \A m : Wanted(m)' = Wanted(m) /\ ManifestOf(m)' = ManifestOf(m)
      /\ \A i : Reaches(i)' = Reaches(i) /\ InlineOf(i)' = InlineOf(i)
  BY <1>2, QuietFrame
<1> DEFINE i == CHOOSE j \in todo[p] : TRUE
<1>5. /\ i \in todo[p] /\ todo[p] = {j \in InlineNodes : Reaches(j) = p}
      /\ i \in InlineNodes /\ Reaches(i) = p
  BY <1>3 DEF Planning
<1>6. writes' = IF InlineOf(i).changed = {} THEN writes ELSE writes \cup {InlineOf(i)}
  BY <1>1, <1>5 DEF InlineOf
<1>7. \A j \in todo[p] : j = i
  BY <1>2, <1>5, OneNode
<1> HIDE DEF i
<1>8. /\ DOMAIN todo' = DOMAIN todo \ {p} /\ \A x \in DOMAIN todo' : todo'[x] = todo[x]
      /\ DOMAIN fresh' = DOMAIN fresh
  BY <1>1, <1>2 DEF Rest
<1>9. \A m \in DOMAIN fresh' : \/ ManifestOf(m)'.after = ManifestOf(m)'.before
                               \/ ManifestOf(m)' \in writes'
  BY <1>3, <1>4, <1>6, <1>8 DEF Planning
<1>10. ASSUME NEW j \in InlineNodes'
       PROVE  Reaches(j)' \in DOMAIN todo' \/ InlineOf(j)'.changed = {} \/ InlineOf(j)' \in writes'
  <2>1. CASE Reaches(j) = p
    <3>1. j = i
      BY <1>4, <1>5, <1>7, <1>10, <2>1
    <3> QED BY <1>4, <1>6, <3>1
  <2>2. CASE Reaches(j) # p
    BY <1>3, <1>4, <1>6, <1>8, <1>10, <2>2 DEF Planning
  <2> QED BY <2>1, <2>2
<1>11. \A x \in DOMAIN todo' : /\ todo'[x] # {}
                               /\ todo'[x] = {j \in InlineNodes' : Reaches(j)' = x}
  BY <1>3, <1>4, <1>8 DEF Planning
<1>12. \A w \in writes' : \/ \E m \in DOMAIN fresh' : w = ManifestOf(m)'
                          \/ \E j \in InlineNodes' : w = InlineOf(j)'
  BY <1>3, <1>4, <1>5, <1>6, <1>8 DEF Planning
<1>13. Planning'
  BY <1>3, <1>4, <1>9, <1>10, <1>11, <1>12 DEF Planning
<1> QED BY <1>2, <1>4, <1>13 DEF QuietInv

LEMMA QuietStep == PlanInv /\ QuietInv /\ [Next]_vars => QuietInv'
<1> SUFFICES ASSUME PlanInv, QuietInv, [Next]_vars PROVE QuietInv'
  OBVIOUS
<1>e. DOMAIN Empty = {}
  BY DEF Empty
<1>1. CASE Start
  <2>1. pc' = "load" /\ fresh' = Empty
    BY <1>1 DEF Start, PlanInv
  <2> QED BY <1>e, <2>1 DEF QuietInv
<1>2. CASE Load
  <2>1. pc' = "select" /\ fresh' = Empty /\ Loads(disk') /\ lat' = Lattice(disk')
    BY <1>2 DEF Load, At, PlanInv
  <2> QED BY <1>e, <2>1 DEF QuietInv
<1>3. CASE Select
  <2>1. /\ pc = "select" /\ pc' = "capture" /\ fresh' = Empty
        /\ plan' = reconcile(lat', sel')
        /\ UNCHANGED <<disk, lat, quiet>>
    BY <1>3 DEF Select, At, PlanInv
  <2> QED BY <1>e, <2>1 DEF QuietInv
<1>4. CASE \E o : Stop(o)
  <2>1. pc' = "idle" /\ fresh' = Empty
    BY <1>4 DEF Stop
  <2> QED BY <1>e, <2>1 DEF QuietInv
<1>5. CASE \E d, o : Finish(d, o)
  <2>1. pc' = "idle" /\ fresh' = Empty
    BY <1>5 DEF Finish
  <2> QED BY <1>e, <2>1 DEF QuietInv
<1>6. CASE Edit
  <2>1. quiet' = FALSE
    BY <1>6 DEF Edit
  <2> QED BY <2>1 DEF QuietInv
<1>7. CASE UNCHANGED vars
  <2>1. UNCHANGED <<disk, pc, sel, lat, plan, fresh, todo, writes, quiet>>
    BY <1>7 DEF vars, run
  <2>2. /\ InlineNodes' = InlineNodes /\ Requested' = Requested
        /\ \A m : Wanted(m)' = Wanted(m) /\ ManifestOf(m)' = ManifestOf(m)
        /\ \A i : Reaches(i)' = Reaches(i) /\ InlineOf(i)' = InlineOf(i)
    BY <2>1, QuietFrame
  <2>3. Planning => Planning'
    BY <2>1, <2>2 DEF Planning
  <2> QED BY <2>1, <2>2, <2>3 DEF QuietInv
<1>8. Next =>
        \/ Start \/ Load \/ Select \/ Capture \/ PlanManifests \/ ReadInline \/ Edit
        \/ (\E o : Stop(o)) \/ (\E d, o : Finish(d, o))
  BY Zenon DEF Next, LoadFails, SelectFails, CaptureRefuses, PlanManifestsRefuses, ReadRefuses,
       ReadFails, commit_rewrites, CommitConflicts, Preview
<1> QED BY <1>1, <1>2, <1>3, <1>4, <1>5, <1>6, <1>7, <1>8, QuietCapture, QuietPlanManifests,
           QuietReadInline

\* While nobody edits a file, a run's memory is what the files say.
THEOREM QuietInvariant == Spec => []QuietInv
<1>1. Init => QuietInv
  <2>1. DOMAIN Empty = {}
    BY DEF Empty
  <2> QED BY <2>1 DEF Init, QuietInv
<1> QED BY <1>1, QuietStep, PlanInvariant, PTL DEF Spec

\* The record that a quiet run finds for a node that it selected is the one that the
\* node was loaded from.
RecordsIn(m) == disk.man[disk.mlink[m]].records
RecordFor(m, i) == RecordsIn(m)[position(RecordsIn(m), i)]

LEMMA WantedRecord ==
  ASSUME PlanInv, QuietInv, quiet, pc \in {"capture", "read"},
         NEW m, m # None, NEW i \in Wanted(m)
  PROVE  /\ Cardinality(Matches(RecordsIn(m), i)) = 1
         /\ lat.nodes[i].manifest = m /\ lat.nodes[i].path = RecordFor(m, i).path
         /\ lat.nodes[i].target = disk.link[RecordFor(m, i).path]
         /\ lat.nodes[i].target \in Paths
         /\ lat.nodes[i].edges = _resolve_edges(RecordFor(m, i).edges)
<1>1. /\ Loads(disk) /\ lat = Lattice(disk) /\ Chosen(lat, sel, plan) /\ disk \in Disks
      /\ Typed(lat)
  BY DEF QuietInv, PlanInv, TypeOK
<1>2. PICK e \in DOMAIN GroupOf(lat, plan, m) : e[1] = i
  BY DEF Wanted, Planned
<1>3. e \in DOMAIN plan /\ lat.nodes[i].manifest = m
  BY <1>1, <1>2, GroupFacts
<1>4. i \in DOMAIN lat.nodes
  BY <1>1, <1>2, <1>3 DEF Chosen
<1>5. PICK k \in DOMAIN RecordsIn(m) :
        /\ <<m, k>> \in Records(disk)
        /\ lat.nodes[i] = ExternalNode(disk, <<m, k>>)
        /\ RecordAt(disk, <<m, k>>) = RecordsIn(m)[k]
        /\ Cardinality(Matches(RecordsIn(m), i)) = 1
        /\ position(RecordsIn(m), i) = k
  <2>1. i \in DOMAIN Lattice(disk).nodes /\ m = Lattice(disk).nodes[i].manifest
    BY <1>1, <1>3, <1>4
  <2>2. \E k : LoadedFrom(disk, i, m, k)
    BY <1>1, <2>1, RecordOfNode
  <2> QED BY <1>1, <2>2 DEF LoadedFrom, RecordsIn
<1>6. RecordFor(m, i) = RecordsIn(m)[k]
  BY <1>5 DEF RecordFor
<1>7. /\ lat.nodes[i].path = RecordsIn(m)[k].path
      /\ lat.nodes[i].target = Target(disk, <<m, k>>)
      /\ lat.nodes[i].edges = _resolve_edges(RecordsIn(m)[k].edges)
  BY <1>1, <1>5, NodeFacts
<1>8. Target(disk, <<m, k>>) = disk.link[RecordsIn(m)[k].path]
  BY <1>5 DEF Target
<1>9. lat.nodes[i].target \in Paths
  BY <1>1, <1>4 DEF Typed, Node
<1> QED BY <1>3, <1>5, <1>6, <1>7, <1>8, <1>9

LEMMA QuietManifest ==
  ASSUME PlanInv, QuietInv, quiet, pc \in {"capture", "read"}, NEW m \in DOMAIN fresh
  PROVE  /\ m \in Manifests /\ m # None /\ disk.mlink[m] \in ManifestFiles
         /\ fresh[m].manifest = disk.mlink[m]
         /\ fresh[m].records = disk.man[disk.mlink[m]].records
         /\ fresh[m].ending = disk.man[disk.mlink[m]].ending
         /\ ManifestRefused(lat, plan, m) => fresh[m].ending = "mixed"
<1> DEFINE c == fresh[m]
           f == disk.mlink[m]
<1>1. /\ m \in Manifests /\ m # None /\ disk \in Disks /\ lat = Lattice(disk)
      /\ Chosen(lat, sel, plan) /\ c = Captured(disk, m, Wanted(m)) /\ f # Outside
  BY DEF QuietInv, PlanInv, TypeOK, Captures
<1>2. /\ c.manifest = f /\ c.records = RecordsIn(m) /\ c.ending = disk.man[f].ending
      /\ \A i \in Wanted(m) : c.target[i] = disk.link[RecordFor(m, i).path]
  <2> DEFINE x == Captured(disk, m, Wanted(m))
  <2>1. /\ x.manifest = f /\ x.records = RecordsIn(m) /\ x.ending = disk.man[f].ending
        /\ x.target = [i \in Wanted(m) |-> disk.link[RecordFor(m, i).path]]
    BY DEF Captured, RecordsIn, RecordFor
  <2> HIDE DEF x
  <2> QED BY <1>1, <2>1 DEF x
<1>3. f \in ManifestFiles
  BY <1>1, DiskFacts
<1>4. lat.manifest[m] = f
  BY <1>1, LatticeFacts
<1> HIDE DEF c
<1>5. ASSUME NEW i \in Wanted(m) PROVE ~Repointed(lat, c, i)
  <2>1. /\ lat.nodes[i].manifest = m /\ lat.nodes[i].path = RecordFor(m, i).path
        /\ lat.nodes[i].target = disk.link[RecordFor(m, i).path]
    BY <1>1, WantedRecord
  <2>2. c.records[position(c.records, i)] = RecordFor(m, i)
    BY <1>2 DEF RecordFor
  <2> QED BY <1>2, <1>4, <2>1, <2>2 DEF Repointed
<1>6. ASSUME NEW e \in DOMAIN GroupOf(lat, plan, m)
      PROVE  Positions(c.records[position(c.records, e[1])].edges, e[2]) # {}
  <2>1. e[1] \in Wanted(m)
    BY DEF Wanted, Planned
  <2>2. e \in DOMAIN plan /\ e \in Reached(lat, sel)
    BY <1>1, GroupFacts DEF Chosen
  <2>3. e[2] \in DOMAIN lat.nodes[e[1]].edges
    BY <2>2 DEF Reached
  <2>4. lat.nodes[e[1]].edges = _resolve_edges(RecordFor(m, e[1]).edges)
    BY <1>1, <2>1, WantedRecord
  <2>5. c.records[position(c.records, e[1])] = RecordFor(m, e[1])
    BY <1>2 DEF RecordFor
  <2> QED BY <2>3, <2>4, <2>5 DEF _resolve_edges, Positions
<1>7. ManifestRefused(lat, plan, m) => c.ending = "mixed"
  BY <1>5, <1>6 DEF ManifestRefused, c, Wanted
<1> QED BY <1>1, <1>2, <1>3, <1>7 DEF c, RecordsIn

\* A quiet run can always capture what it asks for.
LEMMA QuietCaptures ==
  ASSUME PlanInv, QuietInv, quiet, pc = "capture", NEW m \in Requested
  PROVE  Captures(disk, m, Wanted(m))
<1>1. /\ Loads(disk) /\ lat = Lattice(disk) /\ Chosen(lat, sel, plan) /\ Typed(lat)
  BY DEF QuietInv, PlanInv
<1>2. m \in Manifests /\ m # None
  <2>1. PICK i \in Planned(plan) : ~Inline(lat, i) /\ m = lat.nodes[i].manifest
    BY DEF Requested, manifest_capture_requests
  <2>2. i \in DOMAIN lat.nodes
    BY <1>1, <2>1 DEF Planned, Chosen
  <2> QED BY <1>1, <2>1, <2>2 DEF Inline, Typed, Node
<1>3. disk.mlink[m] # Outside /\ disk.man[disk.mlink[m]].ok
  BY <1>1, <1>2 DEF Loads, build_registration_index
<1>4. ASSUME NEW i \in Wanted(m)
      PROVE  Cardinality(Matches(RecordsIn(m), i)) = 1 /\ disk.link[RecordFor(m, i).path] # Outside
  <2>1. /\ Cardinality(Matches(RecordsIn(m), i)) = 1
        /\ disk.link[RecordFor(m, i).path] \in Paths
    BY <1>2, WantedRecord
  <2> QED BY <2>1
<1> QED BY <1>3, <1>4 DEF Captures, RecordsIn, RecordFor

\* And an inline node that it selected is where it was.
LEMMA QuietReaches ==
  ASSUME PlanInv, QuietInv, quiet, pc \in {"capture", "read"}, NEW i \in InlineNodes
  PROVE  /\ i \in DOMAIN lat.nodes /\ Inline(lat, i)
         /\ Reaches(i) \in Paths /\ disk.doc[Reaches(i)].ok
         /\ disk.doc[Reaches(i)].id = i
<1>1. /\ Loads(disk) /\ lat = Lattice(disk) /\ Chosen(lat, sel, plan) /\ disk \in Disks
  BY DEF QuietInv, PlanInv, TypeOK
<1>2. i \in DOMAIN lat.nodes /\ Inline(lat, i)
  BY <1>1 DEF InlineNodes, Planned, Chosen
<1>3. Reaches(i) = disk.link[Lattice(disk).nodes[i].path]
  BY <1>1 DEF Reaches, Destination
<1>4. i \in DOMAIN Lattice(disk).nodes /\ Inline(Lattice(disk), i)
  BY <1>1, <1>2
<1> DEFINE p == Lattice(disk).nodes[i].path
<1>5. disk.link[p] \in Paths /\ disk.doc[disk.link[p]].ok /\ disk.doc[disk.link[p]].id = i
  BY <1>1, <1>4, PathOfNode
<1>6. Reaches(i) = disk.link[p]
  BY <1>3
<1> HIDE DEF p
<1> QED BY <1>2, <1>5, <1>6

\* So it is refused for nothing but line endings once it has selected its edges.
LEMMA QuietRefusals ==
  ASSUME PlanInv, QuietInv, quiet, Next, outcome = "none", outcome' \in {"refused", "error"}
  PROVE  \/ pc \in {"load", "select"}
         \/ \E m \in DOMAIN fresh : fresh[m].ending = "mixed"
         \/ \E p \in DOMAIN todo : disk.doc[p].fragile
<1>1. \/ LoadFails \/ SelectFails \/ CaptureRefuses \/ PlanManifestsRefuses
      \/ ReadRefuses \/ ReadFails \/ CommitConflicts
  BY DEF Next, Start, Load, Select, Capture, PlanManifests, ReadInline, commit_rewrites, Preview,
         Edit, At, Finish
<1>2. CASE LoadFails \/ SelectFails
  BY <1>2 DEF LoadFails, SelectFails
<1>3. CASE CaptureRefuses
  BY <1>3, QuietCaptures DEF CaptureRefuses
<1>4. CASE PlanManifestsRefuses
  <2>1. pc = "capture"
    BY <1>4 DEF PlanManifestsRefuses
  <2>2. \A i \in InlineNodes : Reaches(i) # Outside
    BY <2>1, QuietReaches
  <2>3. PICK m \in DOMAIN fresh : ManifestRefused(lat, plan, m)
    BY <1>4, <2>2 DEF PlanManifestsRefuses, Reaches
  <2> QED BY <2>1, <2>3, QuietManifest
<1>5. CASE ReadRefuses \/ ReadFails
  <2>1. PICK p \in DOMAIN todo : ~Alone(p) \/ ~disk.doc[p].ok \/ disk.doc[p].fragile
    BY <1>5 DEF ReadRefuses, ReadFails
  <2>2. pc = "read" /\ Planning
    BY <1>5 DEF ReadRefuses, ReadFails, QuietInv
  <2>3. PICK i \in todo[p] : i \in InlineNodes /\ Reaches(i) = p
    BY <2>2 DEF Planning
  <2>4. disk.doc[p].ok
    BY <2>2, <2>3, QuietReaches
  <2>5. \A j \in todo[p] : j = i
    BY <2>2, <2>3, OneNode DEF Planning
  <2>6. todo[p] = {i}
    BY <2>5
  <2>7. Alone(p)
    BY <2>6 DEF Alone
  <2> QED BY <2>1, <2>4, <2>7
<1>6. CASE CommitConflicts
  <2>1. PICK w \in writes : Now(disk, w) # w.before
    BY <1>6 DEF CommitConflicts
  <2>2. pc = "read" /\ Planning /\ Chosen(lat, sel, plan) /\ disk \in Disks
    BY <1>6 DEF CommitConflicts, QuietInv, PlanInv, TypeOK
  <2>3. CASE \E m \in DOMAIN fresh : w = ManifestOf(m)
    <3>1. PICK m \in DOMAIN fresh : w = ManifestOf(m)
      BY <2>3
    <3>2. /\ w.kind = "manifest" /\ w.file = fresh[m].manifest
          /\ w.before = [records |-> fresh[m].records, ending |-> fresh[m].ending, ok |-> TRUE]
      BY <3>1 DEF ManifestOf, ManifestWrite
    <3> DEFINE text == disk.man[disk.mlink[m]]
    <3>3. /\ fresh[m].manifest = disk.mlink[m] /\ fresh[m].records = text.records
          /\ fresh[m].ending = text.ending /\ text \in Texts
      BY <2>2, QuietManifest, DiskFacts
    <3>4. text.ok = TRUE
      BY <2>2, <3>3 DEF QuietInv, Captures, Texts
    <3>5. text = [records |-> text.records, ending |-> text.ending, ok |-> TRUE]
      BY <3>3, <3>4 DEF Texts
    <3>6. Now(disk, w) = text
      BY <3>2, <3>3 DEF Now
    <3> QED BY <2>1, <3>2, <3>3, <3>5, <3>6
  <2>4. CASE \E i \in InlineNodes : w = InlineOf(i)
    <3>1. PICK i \in InlineNodes : w = InlineOf(i)
      BY <2>4
    <3>2. w.kind = "inline" /\ w.file = Reaches(i) /\ w.before = disk.doc[Reaches(i)]
      BY <3>1 DEF InlineOf, InlineWrite
    <3>3. Now(disk, w) = w.before
      BY <3>2, "inline" # "manifest" DEF Now
    <3> QED BY <2>1, <3>3
  <2> QED BY <2>1, <2>2, <2>3, <2>4 DEF Planning
<1> QED BY <1>1, <1>2, <1>3, <1>4, <1>5, <1>6

\* What a quiet run's writes make of a document, and of a manifest.
Written(p, i) == apply_reconcile(disk.doc[p], Updates(plan, i))

LEMMA QuietDocument ==
  ASSUME PlanInv, QuietInv, quiet, pc = "read", todo = Empty, NEW p \in Paths,
         NEW e, e = After(disk, writes)
  PROVE  /\ e.doc[p].id = disk.doc[p].id /\ e.doc[p].body = disk.doc[p].body
         /\ e.doc[p].ok = disk.doc[p].ok
         /\ \/ \E i \in InlineNodes : Reaches(i) = p /\ e.doc[p].entries = Written(p, i)
            \/ /\ e.doc[p].entries = disk.doc[p].entries
               /\ \A i \in InlineNodes : Reaches(i) = p => disk.doc[p].entries = Written(p, i)
<1>1. /\ Planning /\ Chosen(lat, sel, plan) /\ disk \in Disks /\ \A w \in writes : Fits(w)
      /\ disk.doc[p] \in Documents
  BY DiskFacts DEF QuietInv, PlanInv, TypeOK, Sound
<1>2. ASSUME NEW i \in InlineNodes, Reaches(i) = p
      PROVE  LET w == InlineOf(i) IN
             /\ w.kind = "inline" /\ w.file = p
             /\ w.changed = {} => Written(p, i) = disk.doc[p].entries
             /\ w.after.entries = Written(p, i)
             /\ w.after.id = disk.doc[p].id /\ w.after.body = disk.doc[p].body
             /\ w.after.ok = disk.doc[p].ok
  <2> DEFINE w == InlineOf(i)
             doc == disk.doc[p]
             u == Updates(plan, i)
  <2>1. w = InlineWrite(p, doc, i) /\ doc \in Documents
    BY <1>1, <1>2 DEF InlineOf
  <2>2. \A r \in DOMAIN u : u[r] \in Seq(Nat)
    BY <1>1, UpdatesFacts
  <2> HIDE DEF w, doc
  <2>3. /\ w.kind = "inline" /\ w.file = p /\ w.after = Reconciled(doc, u)
        /\ w.changed = {} <=> Edited(doc, u) = {}
    BY <2>1, InlineWriteFacts
  <2> HIDE DEF u
  <2>4. w.changed = {} => apply_reconcile(doc, u) = doc.entries
    BY <2>1, <2>2, <2>3, NothingEdited
  <2>5. /\ w.after.entries = apply_reconcile(doc, u)
        /\ w.after.id = doc.id /\ w.after.body = doc.body /\ w.after.ok = doc.ok
    BY <2>1, <2>3, ReconciledFacts
  <2>6. Written(p, i) = apply_reconcile(doc, u)
    BY DEF Written, doc, u
  <2> QED BY <2>3, <2>4, <2>5, <2>6 DEF w, doc
<1>3. CASE \E w \in writes : Hits(w, "inline", p) /\ e.doc[p] = w.after
  <2>1. PICK w \in writes : w.kind = "inline" /\ w.file = p /\ e.doc[p] = w.after
    BY <1>3 DEF Hits
  <2>2. \A m : ManifestOf(m).kind = "manifest"
    BY DEF ManifestOf, ManifestWrite
  <2>3. PICK i \in InlineNodes : w = InlineOf(i)
    BY <1>1, <2>1, <2>2, "inline" # "manifest" DEF Planning
  <2>4. Reaches(i) = p
    <3>1. w.file = Reaches(i)
      BY <2>3 DEF InlineOf, InlineWrite
    <3> QED BY <2>1, <3>1
  <2> QED BY <1>2, <2>1, <2>3, <2>4
<1>4. CASE ~(\E w \in writes : Hits(w, "inline", p)) /\ e.doc[p] = disk.doc[p]
  <2>1. ASSUME NEW i \in InlineNodes, Reaches(i) = p
        PROVE  disk.doc[p].entries = Written(p, i)
    <3>1. InlineOf(i) \notin writes
      BY <1>2, <1>4, <2>1 DEF Hits
    <3>2. DOMAIN todo = {}
      BY DEF Empty
    <3>3. InlineOf(i).changed = {}
      BY <1>1, <3>1, <3>2 DEF Planning
    <3> QED BY <1>2, <2>1, <3>3
  <2> QED BY <1>4, <2>1
<1>5. \/ ~(\E w \in writes : Hits(w, "inline", p)) /\ e.doc[p] = disk.doc[p]
      \/ \E w \in writes : Hits(w, "inline", p) /\ e.doc[p] = w.after
  BY <1>1, AfterFacts
<1> QED BY <1>3, <1>4, <1>5

LEMMA QuietText ==
  ASSUME PlanInv, QuietInv, quiet, pc = "read", NEW m \in Manifests,
         NEW e, e = After(disk, writes)
  PROVE  /\ e.man[disk.mlink[m]].ok = disk.man[disk.mlink[m]].ok
         /\ \/ e.man[disk.mlink[m]].records = Rewritten(RecordsIn(m), GroupOf(lat, plan, m))
            \/ /\ e.man[disk.mlink[m]].records = RecordsIn(m)
               /\ DOMAIN GroupOf(lat, plan, m) = {}
<1> DEFINE f == disk.mlink[m]
<1>1. /\ Planning /\ Chosen(lat, sel, plan) /\ disk \in Disks /\ \A w \in writes : Fits(w)
      /\ build_registration_index(disk)
  BY DEF QuietInv, PlanInv, TypeOK, Sound, Loads
<1>2. f \in ManifestFiles /\ disk.man[f] \in Texts /\ disk.man[f].ok
  BY <1>1, DiskFacts DEF build_registration_index
<1>3. ASSUME NEW x \in DOMAIN fresh
      PROVE  LET w == ManifestOf(x) IN
             /\ w.kind = "manifest" /\ w.file = disk.mlink[x]
             /\ w.before.records = RecordsIn(x) /\ w.after.ok = TRUE
             /\ w.after.records = Rewritten(RecordsIn(x), GroupOf(lat, plan, x))
  <2>1. fresh[x].manifest = disk.mlink[x] /\ fresh[x].records = RecordsIn(x)
    BY <1>3, QuietManifest DEF RecordsIn
  <2> DEFINE before == [records |-> fresh[x].records, ending |-> fresh[x].ending, ok |-> TRUE]
             new == Rewritten(fresh[x].records, GroupOf(lat, plan, x))
             after == [before EXCEPT !.records = new]
             w == ManifestOf(x)
  <2>2. w.kind = "manifest" /\ w.file = fresh[x].manifest /\ w.before = before /\ w.after = after
    BY DEF ManifestOf, ManifestWrite
  <2> HIDE DEF new, w
  <2>3. before.records = fresh[x].records /\ after.records = new /\ after.ok = TRUE
    OBVIOUS
  <2> QED BY <2>1, <2>2, <2>3 DEF new, w
<1>4. disk.man[f].ok = TRUE
  BY <1>2 DEF Texts
<1>5. CASE \E w \in writes : Hits(w, "manifest", f) /\ e.man[f] = w.after
  <2>1. PICK w \in writes : w.kind = "manifest" /\ w.file = f /\ e.man[f] = w.after
    BY <1>5 DEF Hits
  <2>2. \A i : InlineOf(i).kind = "inline"
    BY DEF InlineOf, InlineWrite
  <2>3. PICK x \in DOMAIN fresh : w = ManifestOf(x)
    BY <1>1, <2>1, <2>2, "inline" # "manifest" DEF Planning
  <2>4. x \in Manifests
    BY QuietManifest
  <2>5. x = m
    <3>1. disk.mlink[x] = disk.mlink[m]
      BY <1>3, <2>1, <2>3
    <3> QED BY <1>1, <2>4, <3>1 DEF build_registration_index
  <2> QED BY <1>3, <1>4, <2>1, <2>3, <2>5
<1>6. CASE ~(\E w \in writes : Hits(w, "manifest", f)) /\ e.man[f] = disk.man[f]
  <2>1. CASE m \in DOMAIN fresh
    <3>1. ManifestOf(m).after = ManifestOf(m).before
      BY <1>1, <1>3, <1>6, <2>1 DEF Planning, Hits
    <3>2. RecordsIn(m) = Rewritten(RecordsIn(m), GroupOf(lat, plan, m))
      BY <1>3, <2>1, <3>1
    <3> QED BY <1>6, <3>2 DEF RecordsIn
  <2>2. CASE m \notin DOMAIN fresh
    <3>1. m \notin manifest_capture_requests(lat, plan)
      BY <1>1, <2>2 DEF Planning, Requested
    <3>2. ASSUME NEW x \in DOMAIN GroupOf(lat, plan, m) PROVE FALSE
      <4>1. x \in DOMAIN plan /\ lat.nodes[x[1]].manifest = m
        BY <1>1, GroupFacts
      <4>2. x[1] \in Planned(plan) /\ ~Inline(lat, x[1])
        BY <4>1 DEF Planned, Inline
      <4> QED BY <3>1, <4>1, <4>2 DEF manifest_capture_requests
    <3> QED BY <1>6, <3>2 DEF RecordsIn
  <2> QED BY <2>1, <2>2
<1>7. \/ ~(\E w \in writes : Hits(w, "manifest", f)) /\ e.man[f] = disk.man[f]
      \/ \E w \in writes : Hits(w, "manifest", f) /\ e.man[f] = w.after
  BY <1>1, <1>2, AfterFacts
<1> QED BY <1>5, <1>6, <1>7

LEMMA QuietSettles ==
  ASSUME PlanInv, QuietInv, quiet, pc = "read", todo = Empty,
         NEW e, e = After(disk, writes)
  PROVE  Settles(disk, e, plan)
<1>1. /\ Loads(disk) /\ lat = Lattice(disk) /\ Chosen(lat, sel, plan) /\ disk \in Disks
      /\ \A w \in writes : Fits(w)
  BY DEF QuietInv, PlanInv, TypeOK, Sound
<1>p. plan = reconcile(lat, sel)
  BY DEF QuietInv
<1>2. e.link = disk.link /\ e.mlink = disk.mlink
  BY <1>1, AfterFacts
<1>3. \A n, o \in Nodes(disk) : n.id = o.id => n = o
  BY <1>1 DEF Loads
<1>4. \A n \in Nodes(disk) : n.id \in DOMAIN lat.nodes /\ lat.nodes[n.id] = n
  BY <1>1, <1>3, LatticeFacts
<1>5. \A i : \A r \in DOMAIN Updates(plan, i) :
        <<i, r>> \in DOMAIN plan /\ Updates(plan, i)[r] = plan[<<i, r>>]
        /\ Updates(plan, i)[r] \in Seq(Nat)
  <2> TAKE i
  <2> QED BY <1>1, UpdatesFacts
<1>6. ASSUME NEW p \in Inlines(disk)
      PROVE  Resolves(disk.doc[disk.link[p]].entries, e.doc[disk.link[p]].entries,
                      Updates(plan, disk.doc[disk.link[p]].id),
                      Following(disk.doc[disk.link[p]], Updates(plan, disk.doc[disk.link[p]].id)))
  <2> DEFINE q == disk.link[p]
             doc == disk.doc[q]
             j == doc.id
             u == Updates(plan, j)
             free == Following(doc, u)
  <2>1. q \in Paths /\ doc \in Documents
    BY <1>1, DiskFacts DEF Inlines
  <2>2. InlineNode(disk, p) \in Nodes(disk) /\ InlineNode(disk, p).id = j
        /\ InlineNode(disk, p).manifest = None /\ InlineNode(disk, p).path = p
        /\ InlineNode(disk, p).edges = _resolve_edges(doc.entries)
    BY <1>1, NodeFacts DEF Nodes
  <2>3. /\ lat.nodes[j].manifest = None /\ lat.nodes[j].path = p
        /\ lat.nodes[j].edges = _resolve_edges(doc.entries)
    BY <1>4, <2>2
  <2>4. ASSUME NEW r \in DOMAIN u PROVE /\ <<j, r>> \in DOMAIN plan /\ u[r] \in Seq(Nat)
                                        /\ _resolve_edges(doc.entries)[r] # u[r]
    <3>1. <<j, r>> \in DOMAIN plan /\ u[r] = plan[<<j, r>>] /\ u[r] \in Seq(Nat)
      BY <1>5
    <3>2. /\ plan[<<j, r>>] = target_hash(lat, r)
          /\ lat.nodes[j].edges[r] # target_hash(lat, r)
      BY <1>p, <3>1 DEF reconcile
    <3> QED BY <2>3, <3>1, <3>2
  <2>5. Written(q, j) = apply_reconcile(doc, u)
    BY DEF Written
  <2> HIDE DEF u
  <2>6. Resolves(doc.entries, Written(q, j), u, free)
    <3> HIDE DEF doc
    <3> QED BY <2>1, <2>4, <2>5, ResolvedAll
  <2>7. CASE \E i \in InlineNodes : Reaches(i) = q /\ e.doc[q].entries = Written(q, i)
    <3>1. PICK i \in InlineNodes : Reaches(i) = q /\ e.doc[q].entries = Written(q, i)
      BY <2>7
    <3>2. i = j
      BY <3>1, QuietReaches
    <3> QED BY <2>6, <3>1, <3>2 DEF u
  <2>8. CASE /\ e.doc[q].entries = doc.entries
             /\ \A i \in InlineNodes : Reaches(i) = q => doc.entries = Written(q, i)
    <3>1. CASE j \in InlineNodes
      <4>1. Reaches(j) = q
        BY <2>3 DEF Reaches, Destination
      <4>2. e.doc[q].entries = Written(q, j)
        BY <2>8, <3>1, <4>1
      <4> HIDE DEF q, j, doc
      <4>3. Resolves(doc.entries, e.doc[q].entries, u, free)
        BY <2>6, <4>2
      <4> QED BY <4>3 DEF q, j, doc, u
    <3>2. CASE j \notin InlineNodes
      <4>1. ASSUME NEW r \in DOMAIN u PROVE FALSE
        <5>1. <<j, r>> \in DOMAIN plan /\ <<j, r>>[1] = j
          BY <2>4
        <5>2. j \in Planned(plan)
          BY <5>1 DEF Planned
        <5> QED BY <2>3, <3>2, <5>2 DEF InlineNodes, Inline
      <4>2. DOMAIN u = {}
        BY <4>1
      <4> QED BY <2>8, <4>2, SameResolves DEF u
    <3> QED BY <3>1, <3>2
  <2>9. \/ \E i \in InlineNodes : Reaches(i) = q /\ e.doc[q].entries = Written(q, i)
        \/ /\ e.doc[q].entries = doc.entries
           /\ \A i \in InlineNodes : Reaches(i) = q => doc.entries = Written(q, i)
    <3>1. q \in Paths /\ doc.entries = disk.doc[q].entries
      BY <2>1
    <3> HIDE DEF q, j, doc
    <3>2. \/ \E i \in InlineNodes : Reaches(i) = q /\ e.doc[q].entries = Written(q, i)
          \/ /\ e.doc[q].entries = disk.doc[q].entries
             /\ \A i \in InlineNodes : Reaches(i) = q => disk.doc[q].entries = Written(q, i)
      BY <3>1, QuietDocument
    <3> QED BY <3>1, <3>2
  <2> QED BY <2>7, <2>8, <2>9
<1>7. ASSUME NEW m \in Manifests, NEW k \in DOMAIN RecordsIn(m)
      PROVE  /\ DOMAIN e.man[disk.mlink[m]].records = DOMAIN RecordsIn(m)
             /\ e.man[disk.mlink[m]].records[k].id = RecordsIn(m)[k].id
             /\ e.man[disk.mlink[m]].records[k].path = RecordsIn(m)[k].path
             /\ Resolves(RecordsIn(m)[k].edges, e.man[disk.mlink[m]].records[k].edges,
                         Updates(plan, RecordsIn(m)[k].id), {})
  <2> DEFINE old == RecordsIn(m)
             new == e.man[disk.mlink[m]].records
             g == GroupOf(lat, plan, m)
             i == old[k].id
  <2>1. old \in Seq(Registrations) /\ disk.mlink[m] \in ManifestFiles
    <3>1. disk.mlink[m] \in ManifestFiles
      BY <1>1, DiskFacts DEF Loads, build_registration_index
    <3>2. disk.man[disk.mlink[m]] \in Texts
      BY <1>1, <3>1, DiskFacts
    <3> QED BY <3>1, <3>2 DEF Texts, RecordsIn
  <2>2. old[k] \in Registrations /\ old[k].edges \in Entries
    <3>1. old[k] \in Registrations
      BY <1>7, <2>1, LenProperties, ElementOfSeq
    <3> QED BY <3>1 DEF Registrations
  <2>3. <<m, k>> \in Records(disk)
    <3> DEFINE its(x) == {<<x, y>> : y \in DOMAIN disk.man[disk.mlink[x]].records}
    <3>1. m \in {x \in Manifests : disk.mlink[x] # Outside}
      BY <2>1
    <3>2. <<m, k>> \in its(m)
      BY <1>7 DEF RecordsIn
    <3>3. Records(disk) = UNION {its(x) : x \in {y \in Manifests : disk.mlink[y] # Outside}}
      BY DEF Records
    <3> HIDE DEF its
    <3> QED BY <3>1, <3>2, <3>3
  <2>4. lat.nodes[i].manifest = m
    <3>1. RecordAt(disk, <<m, k>>) = old[k] /\ <<m, k>>[1] = m
      BY DEF RecordAt, RecordsIn
    <3>2. ExternalNode(disk, <<m, k>>) \in Nodes(disk)
      BY <2>3 DEF Nodes
    <3>3. ExternalNode(disk, <<m, k>>).id = i /\ ExternalNode(disk, <<m, k>>).manifest = m
      BY <1>1, <2>3, <3>1, NodeFacts
    <3> QED BY <1>4, <3>2, <3>3
  <2> HIDE DEF old, g, i
  <2>5. /\ DOMAIN Updates(g, i) = DOMAIN Updates(plan, i)
        /\ \A r \in DOMAIN Updates(plan, i) : Updates(g, i)[r] = Updates(plan, i)[r]
    <3>1. Chosen(lat, sel, g) /\ \A x \in DOMAIN g : x \in DOMAIN plan /\ g[x] = plan[x]
      BY <1>1, GroupFacts DEF g
    <3>2. \A r : <<i, r>> \in DOMAIN plan => <<i, r>> \in DOMAIN g
      <4> TAKE r
      <4>1. <<i, r>>[1] = i
        OBVIOUS
      <4> QED BY <1>1, <2>4, <4>1, GroupFacts DEF g
    <3>3. \A r : r \in DOMAIN Updates(g, i) <=> <<i, r>> \in DOMAIN g
      BY <3>1, UpdatesFacts
    <3>4. \A r : r \in DOMAIN Updates(plan, i) <=> <<i, r>> \in DOMAIN plan
      BY <1>1, UpdatesFacts
    <3>5. \A r \in DOMAIN Updates(g, i) : Updates(g, i)[r] = g[<<i, r>>]
      BY <3>1, UpdatesFacts
    <3> QED BY <1>5, <3>1, <3>2, <3>3, <3>4, <3>5
  <2>6. CASE new = Rewritten(old, g)
    <3>1. /\ DOMAIN new = DOMAIN old
          /\ new[k] = [old[k] EXCEPT !.edges = SetLast(old[k].edges, Updates(g, i))]
          /\ \A r \in DOMAIN Updates(g, i) : Updates(g, i)[r] \in Seq(Nat)
      <4> DEFINE written == Rewritten(old, g)
      <4>1. /\ DOMAIN written = DOMAIN old
            /\ \A x \in DOMAIN old :
                 written[x] = [old[x] EXCEPT !.edges = SetLast(old[x].edges, Updates(g, old[x].id))]
        BY DEF Rewritten
      <4>3. \A r \in DOMAIN Updates(g, i) : Updates(g, i)[r] \in Seq(Nat)
        BY <1>5, <2>5
      <4> HIDE DEF written
      <4>2. new = written /\ k \in DOMAIN old
        BY <1>7, <2>6 DEF written, old
      <4> HIDE DEF new
      <4> QED BY <4>1, <4>2, <4>3 DEF i
    <3> DEFINE edges == SetLast(old[k].edges, Updates(g, i))
    <3>2. Resolves(old[k].edges, edges, Updates(g, i), {})
      BY <2>2, <3>1, ResolvedLast
    <3>3. Resolves(old[k].edges, edges, Updates(plan, i), {})
      BY <2>5, <3>2 DEF Resolves
    <3> HIDE DEF edges
    <3>4. new[k] = [old[k] EXCEPT !.edges = edges]
      BY <3>1 DEF edges
    <3> HIDE DEF new
    <3>5. new[k].id = old[k].id /\ new[k].path = old[k].path /\ new[k].edges = edges
      BY <2>2, <3>4 DEF Registrations
    <3> QED BY <3>1, <3>3, <3>5 DEF old, i, new
  <2>7. CASE new = old /\ DOMAIN g = {}
    <3>1. DOMAIN Updates(g, i) = {}
      BY <2>7 DEF Updates
    <3> QED BY <2>5, <2>7, <3>1, SameResolves DEF old, i
  <2> QED BY <2>6, <2>7, QuietText DEF old, g
<1>8. ASSUME NEW m \in Manifests PROVE DOMAIN e.man[e.mlink[m]].records = DOMAIN disk.man[disk.mlink[m]].records
  <2>1. disk.mlink[m] \in ManifestFiles
    BY <1>1, DiskFacts DEF Loads, build_registration_index
  <2>2. RecordsIn(m) \in Seq(Registrations)
    BY <1>1, <2>1, DiskFacts DEF Texts, RecordsIn
  <2>3. DOMAIN Rewritten(RecordsIn(m), GroupOf(lat, plan, m)) = DOMAIN RecordsIn(m)
    BY <1>1, <2>2, RewrittenFacts
  <2> QED BY <1>2, <2>3, QuietText DEF RecordsIn
<1>9. Records(e) = Records(disk)
  BY <1>2, <1>8 DEF Records
<1>10. ASSUME NEW r \in Records(disk)
       PROVE  /\ RecordAt(e, r).id = RecordAt(disk, r).id
              /\ RecordAt(e, r).path = RecordAt(disk, r).path
              /\ Resolves(RecordAt(disk, r).edges, RecordAt(e, r).edges,
                          Updates(plan, RecordAt(disk, r).id), {})
  <2>1. r[1] \in Manifests /\ r[2] \in DOMAIN RecordsIn(r[1])
    BY <1>1, RecordFacts DEF RecordsIn
  <2>2. /\ RecordAt(disk, r) = RecordsIn(r[1])[r[2]]
        /\ RecordAt(e, r) = e.man[disk.mlink[r[1]]].records[r[2]]
    BY <1>2 DEF RecordAt, RecordsIn
  <2> QED BY <1>7, <2>1, <2>2
<1>11. \A m \in Manifests : e.man[e.mlink[m]].ok = disk.man[disk.mlink[m]].ok
  BY <1>2, QuietText
<1>12. \A p \in Paths : /\ e.doc[p].id = disk.doc[p].id /\ e.doc[p].body = disk.doc[p].body
                        /\ e.doc[p].ok = disk.doc[p].ok
  BY QuietDocument
<1> QED BY <1>2, <1>6, <1>9, <1>10, <1>11, <1>12 DEF Settles

\* A run that nobody disturbs leaves nothing to reconcile in its selection but edges that
\* follow the entry they merge `seen` from, and is refused only for what its lattice holds
\* (reconcile.py, manifest_reconcile.py).
THEOREM QuietRunsDoSettle == Spec => QuietRunsSettle
<1>1. PlanInv /\ QuietInv /\ [Next]_vars =>
        [quiet =>
           /\ Committing => /\ Loads(disk')
                            /\ \A e \in DOMAIN reconcile(Lattice(disk'), sel) : FollowsAnother(e)
           /\ (outcome = "none" /\ outcome' \in {"refused", "error"}) =>
                \/ pc \in {"load", "select"}
                \/ \E m \in DOMAIN fresh : fresh[m].ending = "mixed"
                \/ \E p \in DOMAIN todo : disk.doc[p].fragile]_vars
  <2> SUFFICES ASSUME PlanInv, QuietInv, Next, quiet
               PROVE  /\ Committing =>
                           /\ Loads(disk')
                           /\ \A e \in DOMAIN reconcile(Lattice(disk'), sel) : FollowsAnother(e)
                      /\ (outcome = "none" /\ outcome' \in {"refused", "error"}) =>
                           \/ pc \in {"load", "select"}
                           \/ \E m \in DOMAIN fresh : fresh[m].ending = "mixed"
                           \/ \E p \in DOMAIN todo : disk.doc[p].fragile
    OBVIOUS
  <2>1. ASSUME Committing
        PROVE  /\ Loads(disk')
               /\ \A e \in DOMAIN reconcile(Lattice(disk'), sel) : FollowsAnother(e)
    <3>1. commit_rewrites
      <4>1. pc = "read" /\ outcome' = "done" /\ outcome = "none"
        BY <2>1 DEF Committing, PlanInv
      <4> QED BY <4>1 DEF Next, Start, Load, LoadFails, Select, SelectFails, Capture,
                CaptureRefuses, PlanManifests, PlanManifestsRefuses, ReadInline, ReadRefuses,
                ReadFails, CommitConflicts, Preview, Edit, Stop, At, Finish
    <3>2. pc = "read" /\ todo = Empty /\ disk' = After(disk, writes)
      BY <3>1 DEF commit_rewrites, Finish
    <3>3. /\ Loads(disk) /\ lat = Lattice(disk) /\ plan = reconcile(lat, sel)
          /\ Chosen(lat, sel, plan) /\ disk \in Disks
      BY <3>2 DEF QuietInv, PlanInv, TypeOK
    <3>4. Settles(disk, disk', plan)
      BY <3>2, QuietSettles
    <3>5. disk' \in Disks
      BY <3>2, CommitTyped
    <3>6. /\ Loads(disk')
          /\ \A e \in DOMAIN reconcile(Lattice(disk'), sel) :
               /\ e \notin DOMAIN plan /\ e[1] \in DOMAIN lat.nodes
               /\ e[2] \in Free(disk, lat.nodes[e[1]], plan)
      BY <3>3, <3>4, <3>5, SettledPlan
    <3>7. ASSUME NEW e \in DOMAIN reconcile(Lattice(disk'), sel) PROVE FollowsAnother(e)
      <4> DEFINE n == lat.nodes[e[1]]
                 doc == disk.doc[n.target]
      <4>1. /\ e \notin DOMAIN plan /\ e[1] \in DOMAIN lat.nodes /\ n.id = e[1]
            /\ e[2] \in Free(disk, n, plan)
        BY <3>3, <3>6, LatticeFacts
      <4>2. n.manifest = None /\ e[2] \in Following(doc, Updates(plan, e[1]))
        BY <4>1 DEF Free
      <4>3. PICK j \in DOMAIN doc.entries :
              /\ <<Latest(Positions(doc.entries, e[2])), j>> \in doc.merges
              /\ doc.entries[j].ref \in DOMAIN Updates(plan, e[1])
        BY <4>2 DEF Following
      <4>4. <<e[1], doc.entries[j].ref>> \in DOMAIN plan
        BY <3>3, <4>3, UpdatesFacts
      <4> QED BY <4>1, <4>2, <4>3, <4>4 DEF FollowsAnother, Inline
    <3> QED BY <3>6, <3>7
  <2>2. (outcome = "none" /\ outcome' \in {"refused", "error"}) =>
          \/ pc \in {"load", "select"}
          \/ \E m \in DOMAIN fresh : fresh[m].ending = "mixed"
          \/ \E p \in DOMAIN todo : disk.doc[p].fragile
    BY QuietRefusals
  <2> QED BY <2>1, <2>2
<1> QED BY <1>1, PlanInvariant, QuietInvariant, PTL DEF Spec, QuietRunsSettle
=============================================================================
