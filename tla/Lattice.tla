--------------------------------- MODULE Lattice ---------------------------------
(* What is built from a project's documents, and the questions that are asked of  *)
(* it: how each edge stands, what a change reaches, whether the authority ladder  *)
(* holds.  A document has a body, entries, an authority and tickets; a content    *)
(* hash stands for the content itself.                                            *)
EXTENDS Outline

NoAnchor == <<>>
NoHash == <<>>
TargetId(file, anchor) == [file |-> file, anchor |-> anchor]
FileTarget(file) == TargetId(file, NoAnchor)
\* An anchor that is given, even if it has no words, is no missing one.
SectionTarget(file, anchor) == TargetId(file, <<anchor>>)
Entries == [ref : [file : STRING, anchor : Seq(Seq(STRING))], seen : Seq(Lines)]
RawEdge(ref, seen) == [ref |-> ref, seen |-> seen]

FileSections(docs) == [id \in DOMAIN docs |-> derive_file_sections(docs[id].body)]

\* Two headings of a file with one id make the load fail.
_register(sections) ==
  \A id \in DOMAIN sections : \A j, k \in DOMAIN sections[id] :
    sections[id][j].anchor = sections[id][k].anchor => j = k

\* (wrong: a section that ends on the same line does not enclose)
_record_ancestors_strictly(sections) ==
  LET stack[k \in 0 .. Len(sections)] ==
        IF k = 0 THEN <<>>
        ELSE Append(Kept(stack[k - 1], {j \in DOMAIN sections : sections[j].end > sections[k].end}), k)
  IN  [k \in DOMAIN sections |->
         {sections[j].anchor : j \in {stack[k][i] : i \in 1 .. Len(stack[k]) - 1}}]

\* The enclosing sections of each one, by a stack of those that end no earlier.
_record_ancestors(sections) ==
  LET stack[k \in 0 .. Len(sections)] ==
        IF k = 0 THEN <<>>
        ELSE Append(Kept(stack[k - 1], {j \in DOMAIN sections : sections[j].end >= sections[k].end}), k)
  IN  [k \in DOMAIN sections |->
         {sections[j].anchor : j \in {stack[k][i] : i \in 1 .. Len(stack[k]) - 1}}]

\* An entry that is repeated counts at its last occurrence.
_resolve_edges(entries, index) ==
  [t \in {entries[k].ref : k \in DOMAIN entries} |->
     [resolved |-> t \in DOMAIN index,
      seen |-> entries[CHOOSE k \in DOMAIN entries :
                         /\ entries[k].ref = t
                         /\ \A j \in DOMAIN entries : entries[j].ref = t => j <= k].seen]]

Files(docs) == {FileTarget(id) : id \in DOMAIN docs}
Anchored(sections) ==
  {SectionTarget(x[1], sections[x[1]][x[2]].anchor) :
     x \in UNION {{id} \X DOMAIN sections[id] : id \in DOMAIN sections}}

\* Where section target t stands in its file.
Number(sections, t) ==
  CHOOSE k \in DOMAIN sections[t.file] : SectionTarget(t.file, sections[t.file][k].anchor) = t
At(sections, t) == sections[t.file][Number(sections, t)]

Index(docs, sections) ==
  [t \in Files(docs) \cup Anchored(sections) |->
     IF t \in Files(docs) THEN [kind |-> "file", start |-> 1, end |-> Len(docs[t.file].body)]
     ELSE [kind |-> "section", start |-> At(sections, t).start, end |-> At(sections, t).end]]

assemble(docs, sections, index, anchored, edges) ==
  LET encloses == [id \in DOMAIN docs |-> Listed(_record_ancestors(sections[id]))]
  IN  [index |-> index,
       nodes |-> [id \in DOMAIN docs |-> [body |-> docs[id].body, edges |-> edges[id],
                                          authority |-> docs[id].authority,
                                          tickets |-> docs[id].tickets]],
       dependents |-> [t \in DOMAIN index |-> {id \in DOMAIN docs : t \in DOMAIN edges[id]}],
       anchors |-> [id \in DOMAIN docs |-> {t \in anchored : t.file = id}],
       ancestors |-> [t \in anchored |->
                        {SectionTarget(t.file, a) : a \in encloses[t.file][Number(sections, t)]}],
       collisions |-> {t \in anchored : At(sections, t).collision # {}},
       context |-> [t \in anchored |-> At(sections, t).context]]

Assembled(docs, sections, index) ==
  assemble(docs, sections, index, Anchored(sections),
           [id \in DOMAIN docs |-> _resolve_edges(docs[id].entries, index)])

NotLoaded == <<>>
Loaded(docs, sections) ==
  IF _register(sections) THEN Assembled(docs, sections, Index(docs, sections)) ELSE NotLoaded
build_lattice(docs) == Loaded(docs, FileSections(docs))

-----------------------------------------------------------------------------
(* Contents and states.                                                      *)

Bytes(lines) == [i \in DOMAIN lines |-> [lines[i] EXCEPT !.uid = 0]]

section_text(body, at) ==
  [Bytes(SubSeq(body, at.start, at.end)) EXCEPT ![1].marker = NoMarker]

target_content(l, t) ==
  LET body == l.nodes[t.file].body
  IN  IF l.index[t].kind = "file" THEN Bytes(body)
      ELSE Bytes(l.context[t]) \o section_text(body, l.index[t])

_classify(l, id, t) ==
  LET edge == l.nodes[id].edges[t]
  IN  IF ~edge.resolved THEN "BROKEN"
      ELSE IF t \in l.collisions THEN "AMBIGUOUS"
      ELSE IF edge.seen = NoHash THEN "UNRECONCILED"
      ELSE IF edge.seen = target_content(l, t) THEN "OK" ELSE "STALE"

EdgesOf(l) == UNION {{id} \X DOMAIN l.nodes[id].edges : id \in DOMAIN l.nodes}
check_lattice(l) == [e \in EdgesOf(l) |-> _classify(l, e[1], e[2])]

-----------------------------------------------------------------------------
(* Impact.                                                                   *)

\* A limit is one hop at least.
NoLimit == 0

expand_targets(l, t) ==
  IF t \notin DOMAIN l.index THEN {}
  ELSE IF t.anchor = NoAnchor THEN {t} \cup l.anchors[t.file]
  ELSE {t, FileTarget(t.file)} \cup l.ancestors[t]

Whole(l, ids) == UNION {{FileTarget(id)} \cup l.anchors[id] : id \in ids}

\* The nodes with an edge to one of these.
Dependents(l, targets) == UNION {l.dependents[x] : x \in targets}

\* The nodes a change reaches, each at its least number of hops.
impact(l, t, max_depth) ==
  LET hops == Cardinality(DOMAIN l.nodes)
      walk[d \in 0 .. hops] ==
        IF d = 0 THEN [targets |-> expand_targets(l, t), affected |-> <<>>]
        ELSE LET before == walk[d - 1]
                 found == IF max_depth # NoLimit /\ d > max_depth THEN {}
                          ELSE Dependents(l, before.targets) \ DOMAIN before.affected
             IN  [targets |-> Whole(l, found),
                  affected |-> [id \in found \cup DOMAIN before.affected |->
                                  IF id \in found THEN d ELSE before.affected[id]]]
  IN  walk[hops].affected

-----------------------------------------------------------------------------
(* The authority ladder.                                                     *)

AUTHORITY_LADDER == <<"exploratory", "derived", "binding">>
Unannotated == "none"
Authorities == {AUTHORITY_LADDER[k] : k \in DOMAIN AUTHORITY_LADDER} \cup {Unannotated}
_rank(authority) == CHOOSE k \in DOMAIN AUTHORITY_LADDER : AUTHORITY_LADDER[k] = authority
_target_authority(l, t) == l.nodes[t.file].authority

\* (wrong: an endpoint without authority passes)
lint_lattice_lenient(l) ==
  LET resolved == {e \in EdgesOf(l) : l.nodes[e[1]].edges[e[2]].resolved}
      source(e) == l.nodes[e[1]].authority
      target(e) == _target_authority(l, e[2])
      skipped == {e \in resolved : Unannotated \in {source(e), target(e)}}
  IN  [violations |-> {e \in resolved \ skipped : _rank(target(e)) < _rank(source(e))},
       skipped |-> {}]

lint_lattice(l) ==
  LET resolved == {e \in EdgesOf(l) : l.nodes[e[1]].edges[e[2]].resolved}
      source(e) == l.nodes[e[1]].authority
      target(e) == _target_authority(l, e[2])
      skipped == {e \in resolved : Unannotated \in {source(e), target(e)}}
  IN  [violations |-> {e \in resolved \ skipped : _rank(target(e)) < _rank(source(e))},
       skipped |-> skipped]

-----------------------------------------------------------------------------
(* What an audit is about: the nodes with drift, and the references that drifted. *)

Refs(edges) == [id \in {e[1] : e \in edges} |-> {e[2] : e \in {f \in edges : f[1] = id}}]
Only(f, ids) == [id \in DOMAIN f \cap ids |-> f[id]]

NoTarget == <<>>

build_audit_trigger(l, t) ==
  LET status == check_lattice(l)
      drifted == Refs({e \in EdgesOf(l) : status[e] \in {"STALE", "AMBIGUOUS"}})
      own == {x.file : x \in {y \in expand_targets(l, t) : y.anchor = NoAnchor}}
  IN  IF t = NoTarget THEN drifted
      ELSE Only(drifted, DOMAIN impact(l, t, NoLimit) \cup own)

build_from_trigger(l, t) ==
  LET affected == DOMAIN impact(l, t, NoLimit)
      closure == expand_targets(l, t) \cup Whole(l, affected)
  IN  Refs({e \in EdgesOf(l) : e[1] \in affected /\ e[2] \in closure})
=============================================================================
