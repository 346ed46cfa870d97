----------------------------- MODULE LatticeSession ------------------------------
(* A document that others derive from is edited, one commit at a time, while the  *)
(* documents that derive from it are reconciled now and then.                     *)
EXTENDS Lattice

CONSTANTS
  Projects,   \* the projects to start with, and
  Edited,     \* the document that is edited where a project has it
  Words, Levels, Markers,  \* what an edit may write in a heading, and
  NewText,    \* in another line
  MaxEdits,   \* edits in all
  MaxCommit   \* edits of one commit

\* Files are finitely many, of lines and entries, and an authority is of the ladder or
\* not given.
ASSUME SessionAssumption ==
  /\ Words \cup Markers \cup {NewText} \subseteq Seq(STRING) /\ Levels \subseteq Nat
  /\ \A project \in Projects :
       /\ IsFiniteSet(DOMAIN project)
       /\ \A id \in DOMAIN project :
            /\ {"body", "entries", "authority"} \subseteq DOMAIN project[id]
            /\ project[id].body \in Seq(Lines) /\ project[id].entries \in Seq(Entries)
            /\ project[id].authority \in Authorities

VARIABLES
  docs,
  lattice,    \* the lattice that a command loads from them
  edits,
  accepted    \* what a reader saw where an edge led when it was reconciled
session == <<docs, lattice, edits, accepted>>

Body(d) == d[Edited].body

-----------------------------------------------------------------------------
(* What a reader of a body sees, in terms of levels only.                    *)

\* Line i is in the section of the heading at h.
Covers(body, h, i) ==
  h <= i /\ \A j \in h + 1 .. i : Addressable(body[j]) => body[j].level > body[h].level

\* The heading at h is above line i for whoever reads the page.
Above(body, h, i) ==
  /\ h < i /\ Heading(body[h]) /\ body[h].level < body[i].level
  /\ \A j \in h + 1 .. i - 1 : Heading(body[j]) => body[j].level > body[h].level

\* A heading above is read as its level and text; a section's own marker is not read.
\* A heading that is followed by its first subheading at once reads like that one.
Read(kind, marker, line) == <<kind, marker, line.level, line.text>>
Reading(body, h) ==
  LET lines == [i \in DOMAIN body |-> i]
      chain == Kept(lines, {i \in DOMAIN body : Above(body, i, h)})
      own == Kept(lines, {i \in DOMAIN body : i > h /\ Covers(body, h, i)})
  IN  [i \in DOMAIN chain |-> Read("atx", NoMarker, body[chain[i]])]
        \o <<Read(body[h].kind, NoMarker, body[h])>>
        \o [i \in DOMAIN own |-> Read(body[own[i]].kind, body[own[i]].marker, body[own[i]])]

\* The heading that target t names.
Holder(l, t) == l.index[t].start
Uid(l, t) == l.nodes[t.file].body[Holder(l, t)].uid

-----------------------------------------------------------------------------
(* Edits of the body of a document.                                          *)

Fresh(body) == 1 + Cardinality({body[i].uid : i \in DOMAIN body})
Replace(body, i, line) == [body EXCEPT ![i] = line]
InsertAt(body, i, line) == SubSeq(body, 1, i - 1) \o <<line>> \o SubSeq(body, i, Len(body))
RemoveAt(body, i) == SubSeq(body, 1, i - 1) \o SubSeq(body, i + 1, Len(body))

Touched(body) ==
  {Replace(body, i, [body[i] EXCEPT !.text = NewText]) :
     i \in {j \in DOMAIN body : ~Heading(body[j])}}

Retitled(body) ==
  UNION {{Replace(body, i, [body[i] EXCEPT !.text = w]) : w \in Words}
           \cup {Replace(body, i, [body[i] EXCEPT !.marker = m]) : m \in Markers}
           \cup {Replace(body, i, [body[i] EXCEPT !.level = n]) : n \in Levels} :
         i \in {j \in DOMAIN body : Heading(body[j])}}

Inserted(body) ==
  {InsertAt(body, x[1], Line("atx", x[3], x[2], NoMarker, 10 * Fresh(body))) :
     x \in (1 .. Len(body) + 1) \X Words \X Levels}
Removed(body) == {RemoveAt(body, i) : i \in DOMAIN body}

Changed(body) ==
  (Touched(body) \cup Retitled(body) \cup Inserted(body) \cup Removed(body)) \ {body}

-----------------------------------------------------------------------------
NothingAccepted == [e \in {} |-> <<>>]

Init ==
  /\ docs \in Projects /\ lattice = build_lattice(docs)
  /\ edits = 0 /\ accepted = NothingAccepted

Bodies(body, n) ==
  IF n = 1 THEN Changed(body)
  ELSE UNION {Changed(b) : b \in Changed(body)} \ {body}

Commit(n) ==
  /\ Edited \in DOMAIN docs /\ edits + n <= MaxEdits /\ n <= MaxCommit
  /\ edits' = edits + n
  /\ \E b \in Bodies(Body(docs), n) : docs' = [docs EXCEPT ![Edited].body = b]
  /\ lattice' = build_lattice(docs')
  /\ UNCHANGED accepted

\* Every node whose run is not refused is reconciled, one command after the other.
\* After the last edit there is no more to be learnt from that.
Accepted(l) ==
  {id \in DOMAIN l.nodes : \A t \in DOMAIN l.nodes[id].edges : t \notin l.collisions}

Acknowledged(l, id, entries) ==
  [k \in DOMAIN entries |->
     LET t == entries[k].ref
     IN  IF id \in Accepted(l) /\ l.nodes[id].edges[t].resolved
           THEN RawEdge(t, target_content(l, t)) ELSE entries[k]]

AcceptedEdges(l) ==
  {e \in EdgesOf(l) : e[1] \in Accepted(l) /\ l.nodes[e[1]].edges[e[2]].resolved}

Reconcile ==
  /\ lattice # NotLoaded /\ edits < MaxEdits
  /\ docs' = [id \in DOMAIN docs |->
                [docs[id] EXCEPT !.entries = Acknowledged(lattice, id, @)]]
  /\ lattice' = build_lattice(docs')
  /\ LET now == {e \in AcceptedEdges(lattice) : e[2].anchor # NoAnchor}
     IN  accepted' = [e \in DOMAIN accepted \cup now |->
                        IF e \in now THEN Reading(docs[e[2].file].body, Holder(lattice, e[2])) ELSE accepted[e]]
  /\ UNCHANGED edits

SessionNext == Reconcile \/ \E n \in 1 .. 2 : Commit(n)

-----------------------------------------------------------------------------
(* Properties.                                                               *)

MarkersOf(body) == {body[i].marker : i \in {j \in DOMAIN body : Addressable(body[j])}}
\* The ids that come from the words of a heading, in both bodies.
ByWords(l, body, edited) ==
  {t \in l.anchors[Edited] : t.anchor[1] \notin MarkersOf(body) \cup MarkersOf(edited)}

\* An id that no marker spells, and that is not called ambiguous, never passes from one
\* heading to another unseen: an edit of one heading or of one line of text either leaves
\* it where it was, or breaks the references to it, or makes both the heading that had it
\* and the one that has it now ambiguous at once.  (A marker may give the id that another
\* heading had by its words, and the line of a fence hides and shows headings at once:
\* such edits do pass an id on.)
NoSilentRebinding ==
  [][(NotLoaded \notin {lattice, lattice'} /\ edits' = edits + 1) =>
       LET before == lattice
           after == lattice'
       IN  \A t \in ByWords(before, Body(docs), Body(docs')) \ before.collisions :
             (t \in DOMAIN after.index /\ Uid(after, t) # Uid(before, t)) =>
                /\ t \in after.collisions
                /\ \E x \in after.collisions : Uid(after, x) = Uid(before, t)]_session

\* Whatever was edited since it was reconciled, in however many lines at once, an edge
\* into a section that is not ambiguous is OK exactly when a reader of the page finds
\* there what was accepted: the same headings above it, its heading and its lines.
OkMeansSameReading ==
  lattice # NotLoaded =>
    \A e \in DOMAIN accepted :
      (e[2] \in DOMAIN lattice.index /\ e[2] \notin lattice.collisions) =>
         ((_classify(lattice, e[1], e[2]) = "OK") <=>
            accepted[e] = Reading(docs[e[2].file].body, Holder(lattice, e[2])))

\* The innermost section that a line is in.
Innermost(l, body, i) ==
  {t \in l.anchors[Edited] :
     /\ Covers(body, Holder(l, t), i)
     /\ \A j \in Holder(l, t) + 1 .. i : ~(Addressable(body[j]) /\ Covers(body, j, i))}

\* The edges that are stale in lattice m, after one line of the body was edited, and were
\* OK in l are those into what the line's section is expanded to, and each of them stands
\* in the forward audit of the section.
Foresees(l, m, body, edited) ==
  LET wasOK == {e \in EdgesOf(l) : _classify(l, e[1], e[2]) = "OK"}
      fell == {e \in wasOK : _classify(m, e[1], e[2]) # "OK"}
      line == CHOOSE i \in DOMAIN body : body[i] # edited[i]
  IN  \A t \in Innermost(l, body, line) :
        /\ fell = {e \in wasOK : e[2] \in expand_targets(l, t)}
        /\ \A e \in fell : /\ e[1] \in DOMAIN build_from_trigger(l, t)
                           /\ e[2] \in build_from_trigger(l, t)[e[1]]

\* An edit of a line of text is foreseen by impact.
DriftIsForeseen ==
  [][(lattice # NotLoaded /\ Edited \in DOMAIN docs /\ Body(docs') \in Touched(Body(docs)) \ {Body(docs)}) =>
       Foresees(lattice, lattice', Body(docs), Body(docs'))]_session

\* Derivation in terms of edges: node `low` derives from a section or the whole of
\* node `high`, at any distance.
Derives(l, low, high) == \E t \in DOMAIN l.nodes[low].edges :
                           t.file = high /\ l.nodes[low].edges[t].resolved
Below(l, high) ==
  LET step(ids) == {id \in DOMAIN l.nodes : \E mid \in ids : Derives(l, id, mid)}
      grow[k \in 0 .. Cardinality(DOMAIN l.nodes)] ==
        IF k = 0 THEN step({high}) ELSE LET near == grow[k - 1] IN near \cup step(near)
  IN  grow[Cardinality(DOMAIN l.nodes)]

\* When lint neither complains nor skips, nothing that a document reaches claims more
\* authority than it has, however many documents are between them.
CleanLadderHolds ==
  LET lint == lint_lattice(lattice) IN
  (lint.violations = {} /\ lint.skipped = {}) =>
     \A high \in DOMAIN docs : \A low \in Below(lattice, high) :
       Unannotated \notin {docs[low].authority, docs[high].authority} =>
          _rank(docs[low].authority) <= _rank(docs[high].authority)

\* Scoping an audit to a document hides nothing of it: what drifts in the document
\* itself or anywhere below it is audited just as it is without a scope.
ScopeIsExact(id) ==
  LET all == build_audit_trigger(lattice, NoTarget)
      about == {id} \cup Below(lattice, id)
  IN  build_audit_trigger(lattice, FileTarget(id)) = [n \in DOMAIN all \cap about |-> all[n]]

\* The queries that go edge by edge are right of whole paths.
QueriesReachAlongPaths ==
  lattice # NotLoaded => CleanLadderHolds /\ \A id \in DOMAIN docs : ScopeIsExact(id)
=============================================================================
