------------------------------ MODULE ReconcilePlan ------------------------------
(* How reconcile turns a selection into writes: it loads the lattice, selects the *)
(* drifting edges, groups them by the file their `seen` is kept in, reads those   *)
(* files again and plans every rewrite before it commits one.  Others edit files  *)
(* at any time.  The rewrite of one document (FrontmatterRewrite) and the commit  *)
(* (ReconcileTransaction) are single steps here.                                  *)
EXTENDS Naturals, Sequences, FiniteSets

CONSTANTS
  Paths,        \* Markdown files, numbered in the order their paths sort
  Manifests,    \* the declared manifests
  ManifestFiles, \* and the files that one may come to name
  Refs,         \* what `derives_from` may name,
  TargetOf,     \* the node each reference is about,
  Ambiguous,    \* and the references whose heading shares its id with another
  NoId, None, Outside,
  Projects,     \* the files to start with
  Selections,   \* the selections to run
  MaxRuns, MaxEdits

ASSUME PlanAssumption ==
  /\ Paths \subseteq Nat /\ Ambiguous \subseteq Refs
  /\ None \notin Refs \cup Manifests /\ Manifests \subseteq ManifestFiles
  /\ Outside \notin Paths /\ Outside \notin ManifestFiles

VARIABLES
  disk,      \* the project's files
  pc,        \* where the run is
  sel,       \* what it was asked
  lat,       \* the lattice it loaded
  plan,      \* the updates it selected: (node, reference) |-> hash
  fresh,     \* the manifests it captured
  todo,      \* inline destinations not read yet: file |-> nodes
  writes,    \* the rewrites it planned
  outcome, report, runs, edits,
  quiet,     \* nobody edited a file since the run began
  disks      \* what the files have been since then

run == <<sel, lat, plan, fresh, todo, writes>>
vars == <<disk, pc, run, outcome, report, runs, edits, quiet, disks>>

(* doc[p] is a Markdown file: its inline id, its entries, what its body hashes to,*)
(* its line endings and whether it parses.  <<k, j>> in `merges` says that entry k *)
(* spells no `seen` and takes that of entry j by a merge key; a fragile document   *)
(* has something outside the list that a rewrite must leave as it is.  man[m] is a *)
(* manifest of records, which has no merge keys.  link[p] and mlink[m] are the     *)
(* files that a path and a manifest's spelling reach.                              *)

Entries == Seq([ref : Refs, seen : Seq(Nat)])
Endings == {"lf", "crlf", "mixed"}
Documents ==
  [id : STRING, entries : Entries, merges : SUBSET (Nat \X Nat), body : Seq(Nat),
   ending : Endings, fragile : BOOLEAN, ok : BOOLEAN]
Registrations == [id : STRING, path : Paths, edges : Entries]
Texts == [records : Seq(Registrations), ending : Endings, ok : BOOLEAN]
Disks ==
  [doc : [Paths -> Documents], man : [ManifestFiles -> Texts],
   link : [Paths -> Paths \cup {Outside}],
   mlink : [Manifests -> ManifestFiles \cup {Outside}]]

\* An entry takes its `seen` from one entry before it, which spells its own.
Merging(doc) ==
  \A m \in doc.merges :
    /\ m[1] \in DOMAIN doc.entries /\ m[2] \in 1 .. (m[1] - 1)
    /\ doc.entries[m[1]].seen = doc.entries[m[2]].seen
    /\ \A n \in doc.merges : n[1] # m[2] /\ (n[1] = m[1] => n = m)

ASSUME ProjectAssumption ==
  Projects \subseteq Disks /\ \A d \in Projects : \A p \in Paths : Merging(d.doc[p])

Empty == [x \in {} |-> None]
Unseen == <<>>
Edge(ref, seen) == [ref |-> ref, seen |-> seen]
Record(id, path, edges) == [id |-> id, path |-> path, edges |-> edges]

Latest(S) == CHOOSE k \in S : \A j \in S : j <= k
Least(S) == CHOOSE k \in S : \A j \in S : k <= j
Positions(edges, ref) == {k \in DOMAIN edges : edges[k].ref = ref}

-----------------------------------------------------------------------------
(* The loaded lattice.                                                       *)

content_hash(doc) == doc.body

\* A reference that is repeated counts once, with its last `seen`.
_resolve_edges(entries) ==
  [ref \in {entries[k].ref : k \in DOMAIN entries} |->
     entries[Latest(Positions(entries, ref))].seen]

Records(d) ==
  UNION {{<<m, k>> : k \in DOMAIN d.man[d.mlink[m]].records} :
           m \in {n \in Manifests : d.mlink[n] # Outside}}
RecordAt(d, r) == d.man[d.mlink[r[1]]].records[r[2]]
Target(d, r) == d.link[RecordAt(d, r).path]

build_registration_index(d) ==
  /\ \A m \in Manifests : d.mlink[m] # Outside /\ d.man[d.mlink[m]].ok
  /\ \A m, n \in Manifests : d.mlink[m] = d.mlink[n] => m = n
  /\ \A r \in Records(d) : Target(d, r) # Outside
  /\ \A r, s \in Records(d) : Target(d, r) = Target(d, s) => r = s

\* Files are known by what they resolve to; of several paths to one file the first
\* one is its name, unless a record names it.
Inlines(d) ==
  {p \in Paths : /\ d.link[p] # Outside /\ d.doc[d.link[p]].id # NoId
                 /\ \A r \in Records(d) : Target(d, r) # d.link[p]
                 /\ \A q \in Paths : d.link[q] = d.link[p] => p <= q}

InlineNode(d, p) ==
  LET doc == d.doc[d.link[p]]
  IN  [id |-> doc.id, path |-> p, manifest |-> None, index |-> 0, target |-> d.link[p],
       edges |-> _resolve_edges(doc.entries), hash |-> content_hash(doc)]

ExternalNode(d, r) ==
  LET record == RecordAt(d, r)
  IN  [id |-> record.id, path |-> record.path, manifest |-> r[1], index |-> r[2],
       target |-> Target(d, r), edges |-> _resolve_edges(record.edges),
       hash |-> content_hash(d.doc[Target(d, r)])]

Nodes(d) == {InlineNode(d, p) : p \in Inlines(d)} \cup {ExternalNode(d, r) : r \in Records(d)}

Loads(d) ==
  /\ build_registration_index(d)
  /\ \A p \in Paths : d.link[p] # Outside => d.doc[d.link[p]].ok
  /\ \A r \in Records(d) : d.doc[Target(d, r)].id = NoId
  /\ \A n, o \in Nodes(d) : n.id = o.id => n = o

\* The manifest is remembered as the file its spelling reached.
Lattice(d) ==
  LET all == Nodes(d)
      node(i) == CHOOSE n \in all : n.id = i
  IN  [nodes |-> [i \in {n.id : n \in all} |-> node(i)],
       manifest |-> d.mlink]

-----------------------------------------------------------------------------
(* Selection.                                                                *)

Resolved(l, ref) == TargetOf[ref] \in DOMAIN l.nodes
target_hash(l, ref) == l.nodes[TargetOf[ref]].hash

Reached(l, s) ==
  {e \in (DOMAIN l.nodes) \X Refs :
     /\ s.id = None \/ e[1] = s.id
     /\ e[2] \in DOMAIN l.nodes[e[1]].edges
     /\ s.ref = None \/ e[2] = s.ref}

Specific(s) == s.id # None /\ s.ref # None

Refused(l, s) ==
  \/ s.id # None /\ s.id \notin DOMAIN l.nodes
  \/ Specific(s) /\ Reached(l, s) = {}
  \/ Specific(s) /\ \E e \in Reached(l, s) : ~Resolved(l, e[2])
  \/ \E e \in Reached(l, s) : Resolved(l, e[2]) /\ e[2] \in Ambiguous

reconcile(l, s) ==
  [e \in {f \in Reached(l, s) :
            /\ Resolved(l, f[2])
            /\ l.nodes[f[1]].edges[f[2]] # target_hash(l, f[2])} |->
     target_hash(l, e[2])]

Inline(l, i) == l.nodes[i].manifest = None
Planned(u) == {e[1] : e \in DOMAIN u}

\* Updates of one destination keep their nodes apart.
manifest_capture_requests(l, u) ==
  {l.nodes[i].manifest : i \in {j \in Planned(u) : ~Inline(l, j)}}

GroupOf(l, u, m) ==
  [e \in {f \in DOMAIN u : l.nodes[f[1]].manifest = m} |-> u[e]]

-----------------------------------------------------------------------------
(* The manifests.                                                            *)

\* A record is found by its id, which must be there once.
Matches(records, i) == {k \in DOMAIN records : records[k].id = i}
position(records, i) == Latest(Matches(records, i))

\* What capturing manifest m finds: its records and where the selected ones lead.
Captured(d, m, ids) ==
  LET file == d.mlink[m]
      records == d.man[file].records
  IN  [manifest |-> file, records |-> records, ending |-> d.man[file].ending,
       target |-> [i \in ids |-> d.link[records[position(records, i)].path]]]

Captures(d, m, ids) ==
  /\ d.mlink[m] # Outside
  /\ d.man[d.mlink[m]].ok
  /\ \A i \in ids : LET records == d.man[d.mlink[m]].records IN
       /\ Cardinality(Matches(records, i)) = 1
       /\ d.link[records[position(records, i)].path] # Outside

\* (wrong: only the manifest itself is compared)
RepointedManifest(l, c, i) == c.manifest # l.manifest[l.nodes[i].manifest]

Repointed(l, c, i) ==
  LET node == l.nodes[i] IN
  \/ c.records[position(c.records, i)].path # node.path
  \/ c.target[i] # node.target
  \/ c.manifest # l.manifest[node.manifest]

\* (wrong: the first occurrence gets the hash)
SetFirst(edges, updates) ==
  [k \in DOMAIN edges |->
     IF edges[k].ref \in DOMAIN updates /\ k = Least(Positions(edges, edges[k].ref))
       THEN Edge(edges[k].ref, updates[edges[k].ref]) ELSE edges[k]]

\* Only the last occurrence of a reference counts, and gets the hash.
SetLast(edges, updates) ==
  [k \in DOMAIN edges |->
     IF edges[k].ref \in DOMAIN updates /\ k = Latest(Positions(edges, edges[k].ref))
       THEN Edge(edges[k].ref, updates[edges[k].ref]) ELSE edges[k]]

Updates(u, i) == [ref \in {e[2] : e \in {f \in DOMAIN u : f[1] = i}} |-> u[<<i, ref>>]]

Rewritten(records, u) ==
  [k \in DOMAIN records |->
     [records[k] EXCEPT !.edges = SetLast(@, Updates(u, records[k].id))]]

ManifestRefused(l, u, m) ==
  LET c == fresh[m]
      group == GroupOf(l, u, m)
  IN  \/ \E i \in Planned(group) : Repointed(l, c, i)
      \/ \E e \in DOMAIN group :
           Positions(c.records[position(c.records, e[1])].edges, e[2]) = {}
      \/ c.ending = "mixed" /\ Rewritten(c.records, group) # c.records

SeenChanges(before, after) ==
  {k \in DOMAIN before : before[k].seen # after[k].seen}

\* (wrong: a change is reported at the position the record was loaded from)
_changed_pairs_loaded(before, after) ==
  UNION {{[id |-> before[k].id, ref |-> before[k].edges[j].ref,
           index |-> lat.nodes[before[k].id].index] :
             j \in SeenChanges(before[k].edges, after[k].edges)} : k \in DOMAIN before}

\* What changed, each at its position in the fresh manifest.
_changed_pairs(before, after) ==
  UNION {{[id |-> before[k].id, ref |-> before[k].edges[j].ref, index |-> k] :
             j \in SeenChanges(before[k].edges, after[k].edges)} : k \in DOMAIN before}

ManifestWrite(l, u, m) ==
  LET c == fresh[m]
      before == [records |-> c.records, ending |-> c.ending, ok |-> TRUE]
      after == [before EXCEPT !.records = Rewritten(@, GroupOf(l, u, m))]
  IN  [kind |-> "manifest", file |-> c.manifest, before |-> before, after |-> after,
       changed |-> _changed_pairs(before.records, after.records)]

-----------------------------------------------------------------------------
(* The inline documents.                                                     *)

\* The entries that are edited: those of a selected reference without its hash yet.
Edited(doc, updates) ==
  {k \in DOMAIN doc.entries :
     /\ doc.entries[k].ref \in DOMAIN updates
     /\ doc.entries[k].seen # updates[doc.entries[k].ref]}

Sources(doc, updates, k) == {j \in Edited(doc, updates) : <<k, j>> \in doc.merges}

\* Each gets the hash, as a `seen` of its own, and those that merge it follow.
apply_reconcile(doc, updates) ==
  [k \in DOMAIN doc.entries |->
     IF k \in Edited(doc, updates)
       THEN Edge(doc.entries[k].ref, updates[doc.entries[k].ref])
     ELSE IF Sources(doc, updates, k) # {}
       THEN Edge(doc.entries[k].ref,
                 updates[doc.entries[CHOOSE j \in Sources(doc, updates, k) : TRUE].ref])
     ELSE doc.entries[k]]

\* Nothing else changes but line endings that were mixed.
Reconciled(doc, updates) ==
  [doc EXCEPT !.entries = apply_reconcile(doc, updates),
              !.merges = {m \in @ : m[1] \notin Edited(doc, updates)},
              !.ending = IF @ = "mixed" THEN "lf" ELSE @]

\* What only follows another entry is not reported.
InlineWrite(p, doc, i) ==
  LET applied == {doc.entries[k].ref : k \in Edited(doc, Updates(plan, i))}
  IN  [kind |-> "inline", file |-> p, before |-> doc, after |-> Reconciled(doc, Updates(plan, i)),
       changed |-> {[id |-> i, ref |-> ref, index |-> 0] : ref \in applied}]

-----------------------------------------------------------------------------
(* The run.                                                                  *)

Stop(o) == /\ pc' = "idle" /\ outcome' = o
           /\ UNCHANGED <<disk, report, runs, edits, quiet>>
           /\ sel' = None /\ lat' = None /\ plan' = Empty
           /\ fresh' = Empty /\ todo' = Empty /\ writes' = {} /\ disks' = {}

At(label) == pc = label /\ UNCHANGED <<disk, outcome, report, runs, edits, quiet, disks>>

Start ==
  /\ pc = "idle" /\ runs < MaxRuns
  /\ sel' \in Selections
  /\ pc' = "load" /\ runs' = runs + 1 /\ outcome' = "none" /\ report' = {}
  /\ quiet' = TRUE /\ disks' = {disk}
  /\ UNCHANGED <<disk, lat, plan, fresh, todo, writes, edits>>

Load ==
  /\ At("load") /\ Loads(disk)
  /\ lat' = Lattice(disk) /\ pc' = "select"
  /\ UNCHANGED <<sel, plan, fresh, todo, writes>>

LoadFails == pc = "load" /\ ~Loads(disk) /\ Stop("refused")

Select ==
  /\ At("select") /\ ~Refused(lat, sel)
  /\ plan' = reconcile(lat, sel) /\ pc' = "capture"
  /\ UNCHANGED <<sel, lat, fresh, todo, writes>>

SelectFails == pc = "select" /\ Refused(lat, sel) /\ Stop("refused")

\* Manifests first, one after the other.
Requested == manifest_capture_requests(lat, plan) \ DOMAIN fresh
Wanted(m) == Planned(GroupOf(lat, plan, m))

Capture ==
  /\ At("capture")
  /\ \E m \in Requested :
       /\ Captures(disk, m, Wanted(m))
       /\ fresh' = [x \in DOMAIN fresh \cup {m} |->
                      IF x = m THEN Captured(disk, m, Wanted(m)) ELSE fresh[x]]
  /\ UNCHANGED <<pc, sel, lat, plan, todo, writes>>

CaptureRefuses ==
  /\ pc = "capture" /\ \E m \in Requested : ~Captures(disk, m, Wanted(m))
  /\ Stop("refused")

\* Then every inline destination is resolved.
InlineNodes == {i \in Planned(plan) : Inline(lat, i)}
Destination(d, i) == d.link[lat.nodes[i].path]

PlanManifests ==
  /\ At("capture") /\ Requested = {}
  /\ \A m \in DOMAIN fresh : ~ManifestRefused(lat, plan, m)
  /\ \A i \in InlineNodes : Destination(disk, i) # Outside
  /\ writes' = {w \in {ManifestWrite(lat, plan, m) : m \in DOMAIN fresh} :
                  w.after # w.before}
  /\ todo' = [p \in {Destination(disk, i) : i \in InlineNodes} |->
                {i \in InlineNodes : Destination(disk, i) = p}]
  /\ pc' = "read"
  /\ UNCHANGED <<sel, lat, plan, fresh>>

PlanManifestsRefuses ==
  /\ pc = "capture" /\ Requested = {}
  /\ \/ \E m \in DOMAIN fresh : ManifestRefused(lat, plan, m)
     \/ \E i \in InlineNodes : Destination(disk, i) = Outside
  /\ Stop("refused")

\* The rewrite of a document is planned for one node.
Alone(p) == \E i \in todo[p] : todo[p] = {i}

Rest(f, p) == [x \in DOMAIN f \ {p} |-> f[x]]

ReadInline ==
  /\ At("read")
  /\ \E p \in DOMAIN todo :
       /\ Alone(p) /\ disk.doc[p].ok
       /\ todo' = Rest(todo, p)
       /\ LET w == InlineWrite(p, disk.doc[p], CHOOSE i \in todo[p] : TRUE)
          IN  writes' = IF w.changed = {} THEN writes ELSE writes \cup {w}
  /\ UNCHANGED <<pc, sel, lat, plan, fresh>>

\* A document that does not parse any more, or of which the rewrite would not load as
\* meant (RefusalsAreExplained of FrontmatterRewrite says when).
ReadRefuses ==
  /\ pc = "read"
  /\ \E p \in DOMAIN todo :
       /\ Alone(p)
       /\ \/ ~disk.doc[p].ok
          \/ /\ disk.doc[p].fragile
             /\ InlineWrite(p, disk.doc[p], CHOOSE i \in todo[p] : TRUE).changed # {}
  /\ Stop("refused")

\* Two nodes share a destination that is not a manifest: an internal error.
ReadFails ==
  /\ pc = "read" /\ \E p \in DOMAIN todo : ~Alone(p)
  /\ Stop("error")

Now(d, w) == IF w.kind = "manifest" THEN d.man[w.file] ELSE d.doc[w.file]

After(d, ws) ==
  LET new(kind, f) == CHOOSE w \in ws : w.kind = kind /\ w.file = f
      hit(kind) == {w.file : w \in {v \in ws : v.kind = kind}}
  IN  [d EXCEPT !.doc = [p \in DOMAIN @ |->
                           IF p \in hit("inline") THEN new("inline", p).after ELSE @[p]],
                !.man = [m \in DOMAIN @ |->
                           IF m \in hit("manifest") THEN new("manifest", m).after ELSE @[m]]]

Finish(d, o) ==
  /\ disk' = d /\ outcome' = o /\ pc' = "idle"
  /\ report' = UNION {w.changed : w \in writes}
  /\ UNCHANGED <<runs, edits, quiet>>
  /\ sel' = None /\ lat' = None /\ plan' = Empty
  /\ fresh' = Empty /\ todo' = Empty /\ writes' = {} /\ disks' = {}

commit_rewrites ==
  /\ pc = "read" /\ todo = Empty /\ ~sel.dry
  /\ \A w \in writes : Now(disk, w) = w.before
  /\ Finish(After(disk, writes), "done")

CommitConflicts ==
  /\ pc = "read" /\ todo = Empty /\ ~sel.dry
  /\ \E w \in writes : Now(disk, w) # w.before
  /\ Stop("refused")

Preview ==
  /\ pc = "read" /\ todo = Empty /\ sel.dry
  /\ Finish(disk, "previewed")

-----------------------------------------------------------------------------
(* What others do to the files while a run is under way.                     *)

Reversed(s) == [k \in DOMAIN s |-> s[Len(s) + 1 - k]]
Swapped(f, p, q) == [f EXCEPT ![p] = f[q], ![q] = f[p]]
Dropped(s) == IF s = <<>> THEN s ELSE Tail(s)
Acknowledged(entries) == [k \in DOMAIN entries |-> Edge(entries[k].ref, <<1>>)]

DocEdits(doc) ==
  {[doc EXCEPT !.body = <<2>>], [doc EXCEPT !.ok = FALSE],
   [doc EXCEPT !.entries = Dropped(@), !.merges = {}],
   [doc EXCEPT !.entries = Acknowledged(@)]}

ManifestEdits(man) ==
  IF man.records = <<>> THEN {} ELSE
  {[man EXCEPT !.records = Reversed(@)], [man EXCEPT !.records = Dropped(@)],
   [man EXCEPT !.records = Append(@, @[1])],
   [man EXCEPT !.records[1].edges = Dropped(@)],
   [man EXCEPT !.records[1].edges = Acknowledged(@)],
   [man EXCEPT !.ending = "mixed"], [man EXCEPT !.ok = FALSE]}
  \cup {[man EXCEPT !.records[1].path = p] : p \in Paths}

Edits(d) ==
  (UNION {{[d EXCEPT !.doc[p] = x] : x \in DocEdits(d.doc[p])} : p \in Paths})
  \cup (UNION {{[d EXCEPT !.man[m] = x] : x \in ManifestEdits(d.man[m])} :
                 m \in {d.mlink[n] : n \in {o \in Manifests : d.mlink[o] # Outside}}})
  \cup {[d EXCEPT !.link[p] = q] : p \in Paths, q \in Paths \cup {Outside}}
  \cup {[d EXCEPT !.mlink[m] = n] : m \in Manifests, n \in ManifestFiles \cup {Outside}}
  \cup {[d EXCEPT !.doc = Swapped(@, p, q)] : p \in Paths, q \in Paths}

Edit ==
  /\ pc # "idle" /\ edits < MaxEdits /\ edits' = edits + 1
  /\ \E d \in Edits(disk) \ {disk} : disk' = d
  /\ quiet' = FALSE /\ disks' = disks \cup {disk'}
  /\ UNCHANGED <<pc, run, outcome, report, runs>>

Init ==
  /\ disk \in Projects
  /\ pc = "idle" /\ sel = None /\ lat = None /\ plan = Empty
  /\ fresh = Empty /\ todo = Empty /\ writes = {}
  /\ outcome = "none" /\ report = {} /\ runs = 0 /\ edits = 0 /\ quiet = TRUE
  /\ disks = {}

Next ==
  \/ Start \/ Load \/ LoadFails \/ Select \/ SelectFails
  \/ Capture \/ CaptureRefuses \/ PlanManifests \/ PlanManifestsRefuses
  \/ ReadInline \/ ReadRefuses \/ ReadFails
  \/ commit_rewrites \/ CommitConflicts \/ Preview
  \/ Edit

Spec == Init /\ [][Next]_vars

-----------------------------------------------------------------------------
\* Types, and no work left over between runs.
TypeOK ==
  /\ disk \in Disks
  /\ pc \in {"idle", "load", "select", "capture", "read"}
  /\ outcome \in {"none", "refused", "error", "done", "previewed"}
  /\ DOMAIN fresh \subseteq Manifests /\ DOMAIN todo \subseteq Paths
  /\ \A w \in writes : w.changed # {} /\ w.before # w.after
  /\ pc = "idle" => writes = {} /\ todo = Empty

Committing == pc = "read" /\ outcome' = "done"

Acknowledges(i, e, new) ==
  /\ <<i, e.ref>> \in Reached(lat, sel) /\ Resolved(lat, e.ref)
  /\ e.ref \notin Ambiguous
  /\ new = Edge(e.ref, target_hash(lat, e.ref))

\* Node i acknowledges edges of what is in the document now; an entry that merges one
\* of those follows it.
DocumentKept(i, old, new) ==
  LET own == {k \in SeenChanges(old.entries, new.entries) : \A m \in new.merges : m[1] # k}
  IN  /\ new.id = old.id /\ new.body = old.body /\ new.ok = old.ok /\ new.fragile = old.fragile
      /\ old.ending # "mixed" => new.ending = old.ending
      /\ DOMAIN new.entries = DOMAIN old.entries
      /\ \A k \in own : Acknowledges(i, old.entries[k], new.entries[k])
      /\ \A k \in SeenChanges(old.entries, new.entries) \ own :
           \E j \in own :
             <<k, j>> \in old.merges /\ new.entries[k] = Edge(old.entries[k].ref, new.entries[j].seen)
      /\ new.merges = {m \in old.merges : m[1] \notin own}

\* Every edge of node i that was to be written has its hash in the document, or follows
\* one that was to be written.
Settled(i, doc) ==
  LET Due == {k \in DOMAIN doc.entries : <<i, doc.entries[k].ref>> \in DOMAIN plan}
  IN  \A k \in Due :
        \/ doc.entries[k].seen = plan[<<i, doc.entries[k].ref>>]
        \/ \E j \in Due : <<k, j>> \in doc.merges /\ doc.entries[k].seen = doc.entries[j].seen

\* The path of inline node i led to file p at the load or since.
LedTo(i, p) == Inline(lat, i) /\ \E d \in disks : d.link[lat.nodes[i].path] = p

RecordKept(r, new) ==
  /\ new = [r EXCEPT !.edges = new.edges]
  /\ \A j \in SeenChanges(r.edges, new.edges) :
       /\ Acknowledges(r.id, r.edges[j], new.edges[j])
       /\ lat.nodes[r.id].path = r.path
       /\ ~Inline(lat, r.id)
       /\ \A o \in Positions(r.edges, r.edges[j].ref) : o <= j

TextKept(old, new) ==
  /\ new.ending = old.ending
  /\ \A k \in DOMAIN old.records : RecordKept(old.records[k], new.records[k])

\* A committed run changes nothing but `seen` values of selected edges, and what merges
\* them, and writes what the loaded lattice hashed to, never for an ambiguous target.  An
\* external edge is acknowledged in the record with its node's id that still names the
\* document that was loaded, at the occurrence the lattice reads: records that others moved
\* or repointed are not acknowledged in its place.  An inline node has no such check: its
\* edges are acknowledged in a file that its path led to, the file it was loaded from or
\* one that others put in that place since, whatever id that document has by then; but
\* each selected inline node has a file of its own, where its edges are acknowledged now or
\* were when the file was read, and no other document changes.
OnlySelectedEdges ==
  [][Committing =>
       /\ \E file \in [InlineNodes -> Paths] :
            /\ \A i \in InlineNodes :
                 /\ LedTo(i, file[i]) /\ DocumentKept(i, disk.doc[file[i]], disk'.doc[file[i]])
                 /\ \E d \in disks \cup {disk'} : Settled(i, d.doc[file[i]])
            /\ \A i, j \in InlineNodes : file[i] = file[j] => i = j
            /\ \A p \in Paths \ {file[i] : i \in InlineNodes} : disk'.doc[p] = disk.doc[p]
       /\ \A m \in ManifestFiles : TextKept(disk.man[m], disk'.man[m])
       /\ disk'.link = disk.link /\ disk'.mlink = disk.mlink]_vars

RecordIn(m, k) == disk.man[m].records[k]
ChangedRefs(p) ==
  {disk.doc[p].entries[k].ref :
     k \in {j \in SeenChanges(disk.doc[p].entries, disk'.doc[p].entries) :
              \A m \in disk'.doc[p].merges : m[1] # j}}

\* What a run reports is what it changed, each external edge at the record that holds
\* it now; a node that somebody else acknowledged meanwhile is not reported, nor is an
\* entry that only follows the one it merges.  An inline node's change is in a file that
\* its path led to, at the load or since.
ReportIsTrue ==
  [][Committing =>
       LET Files(i) == {p \in Paths : LedTo(i, p)}
           inline == {c \in report' : c.index = 0}
       IN  /\ report' \ inline =
                UNION {UNION {{[id |-> RecordIn(m, k).id, ref |-> RecordIn(m, k).edges[j].ref,
                                index |-> k] :
                                 j \in SeenChanges(RecordIn(m, k).edges,
                                                   disk'.man[m].records[k].edges)} :
                                k \in DOMAIN disk.man[m].records} : m \in ManifestFiles}
           /\ \A c \in inline : \E p \in Files(c.id) : c.ref \in ChangedRefs(p)
           /\ \A p \in Paths : \A ref \in ChangedRefs(p) :
                \E c \in inline : c.ref = ref /\ p \in Files(c.id)]_vars

\* The edge was not to be written, but the entry that the lattice reads it from merges
\* one that was.
FollowsAnother(e) ==
  /\ e \notin DOMAIN plan /\ e[1] \in DOMAIN lat.nodes /\ Inline(lat, e[1])
  /\ LET doc == disk.doc[lat.nodes[e[1]].target]
     IN  \E j \in DOMAIN doc.entries :
           /\ <<Latest(Positions(doc.entries, e[2])), j>> \in doc.merges
           /\ <<e[1], doc.entries[j].ref>> \in DOMAIN plan

\* A run that nobody disturbs leaves no edge to reconcile in its selection but one that had
\* its hash and lost it to the entry it merges `seen` from: writing `seen` values makes no
\* other edge drift.  And the run is refused only for what its lattice holds: it does not
\* load, the selection is refused, a manifest with mixed line endings or a fragile document
\* would be rewritten.
QuietRunsSettle ==
  [][quiet =>
       /\ Committing => /\ Loads(disk')
                        /\ \A e \in DOMAIN reconcile(Lattice(disk'), sel) : FollowsAnother(e)
       /\ (outcome = "none" /\ outcome' \in {"refused", "error"}) =>
            \/ pc \in {"load", "select"}
            \/ \E m \in DOMAIN fresh : fresh[m].ending = "mixed"
            \/ \E p \in DOMAIN todo : disk.doc[p].fragile]_vars
=============================================================================
