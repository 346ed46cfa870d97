--------------------------------- MODULE Outline ---------------------------------
(* The headings of one Markdown body: which ids they get, which ids may move to   *)
(* another heading, what each section spans and which headings stand above it.    *)
EXTENDS Naturals, Sequences, FiniteSets, TLC, Iteration

(* A body is a sequence of lines.  A heading has a level, a text and perhaps an   *)
(* explicit marker; an "atx" heading is shown by a renderer and can be addressed, *)
(* an "other" one (setext, indented, nested) is shown only, and a "hidden" one    *)
(* (inside a comment) can be addressed but is not shown.                          *)
NoMarker == <<>>
Line(kind, level, text, marker, uid) ==
  [kind |-> kind, level |-> level, text |-> text, marker |-> marker, uid |-> uid]

Kinds == {"atx", "other", "hidden", "text"}
Lines == [kind : Kinds, level : Nat, text : Seq(STRING), marker : Seq(STRING), uid : Nat]

AddressableKinds == {"atx", "hidden"}
RenderedKinds == {"atx", "other"}
HeadingKinds == AddressableKinds \cup RenderedKinds
Addressable(line) == line.kind \in AddressableKinds
Heading(line) == line.kind \in HeadingKinds

Numbers(body, kinds) ==
  Kept([i \in DOMAIN body |-> i], {i \in DOMAIN body : body[i].kind \in kinds})

build_toc(body) == Numbers(body, AddressableKinds)
_rendered_headings(body) == Numbers(body, RenderedKinds)

\* The same sequence: TLC works each value out once.
Listed(s) == s \o <<>>

-----------------------------------------------------------------------------
(* Ids.  A slug is a sequence of words; `notes-1` is both what "Notes 1" is       *)
(* slugged to and the second candidate of "Notes".  A marker is part of the text. *)

github_slug(line) == line.text \o line.marker

Suffixed(base, k) == Append(base, ToString(k))
\* The id of one more heading and every candidate that was examined for it.
slug_with_probes(seen, base) ==
  IF base \notin DOMAIN seen THEN [id |-> base, probes |-> {base}, seen |-> (base :> 0) @@ seen]
  ELSE LET k == CHOOSE n \in 1 .. Cardinality(DOMAIN seen) + seen[base] :
                   /\ seen[base] < n /\ Suffixed(base, n) \notin DOMAIN seen
                   /\ \A j \in seen[base] + 1 .. n - 1 : Suffixed(base, j) \in DOMAIN seen
       IN  [id |-> Suffixed(base, k),
            probes |-> {base} \cup {Suffixed(base, j) : j \in seen[base] + 1 .. k},
            seen |-> (Suffixed(base, k) :> 0) @@ [seen EXCEPT ![base] = k]]

\* The allocation over the headings with the given line numbers, in their order.
allocated(slugs, numbers) ==
  LET slugged[k \in 0 .. Len(numbers)] ==
        IF k = 0 THEN [trace |-> <<>>, seen |-> <<>>]
        ELSE LET before == slugged[k - 1]
                 new == slug_with_probes(before.seen, slugs[k])
             IN  [trace |-> Append(before.trace, [line |-> numbers[k], id |-> new.id,
                                                  probes |-> new.probes]),
                  seen |-> new.seen]
  IN  slugged[Len(numbers)].trace

inventory(body, numbers) ==
  allocated(Listed([k \in DOMAIN numbers |-> github_slug(body[numbers[k]])]), numbers)
full_heading_inventory(body) == inventory(body, _rendered_headings(body))
addressable_heading_inventory(body) == inventory(body, build_toc(body))

\* (wrong: only the first candidate counts)
LinksByBase(trace) ==
  [k \in DOMAIN trace |->
     {trace[k].line} \cup {trace[j].line :
        j \in {i \in 1 .. k - 1 : trace[i].id \in trace[k].probes /\
                                  \A p \in trace[k].probes : Len(trace[i].id) <= Len(p)}}]

\* A heading is linked with whoever holds an id that was examined for it.
Links(trace) ==
  [k \in DOMAIN trace |->
     {trace[k].line} \cup {trace[j].line : j \in {i \in 1 .. k - 1 : trace[i].id \in trace[k].probes}}]

union(groups, links) ==
  {g \in groups : g \cap links = {}}
    \cup {links \cup UNION {g \in groups : g \cap links # {}}}

collision_components(links) ==
  LET merged[k \in 0 .. Len(links)] ==
        IF k = 0 THEN {} ELSE union(merged[k - 1], links[k])
  IN  {g \in merged[Len(links)] : Cardinality(g) > 1}

\* Collisions of the two inventories that share a line are one.
_collision_members_by_line(full, addressable) ==
  LET groups == collision_components(Links(full) \o Links(addressable))
  IN  [line \in UNION groups |-> CHOOSE g \in groups : line \in g]

-----------------------------------------------------------------------------
(* Spans and contexts, each by one pass with a stack of open headings.       *)

Open(stack, level) == Kept(stack, {x \in {stack[i] : i \in DOMAIN stack} : x.level < level})

section_spans(body, toc) ==
  LET pass[k \in 0 .. Len(toc)] ==
        IF k = 0 THEN [stack |-> <<>>, end |-> [j \in DOMAIN toc |-> Len(body)]]
        ELSE LET before == pass[k - 1]
                 level == body[toc[k]].level
                 closed == {before.stack[i].at : i \in {j \in DOMAIN before.stack :
                                                          before.stack[j].level >= level}}
             IN  [stack |-> Append(Open(before.stack, level), [at |-> k, level |-> level]),
                  end |-> Listed([j \in DOMAIN toc |->
                             IF j \in closed THEN toc[k] - 1 ELSE before.end[j]])]
      ends == pass[Len(toc)].end
  IN  Listed([k \in DOMAIN toc |-> [start |-> toc[k], end |-> ends[k]]])

\* An ancestor is spelled as an ATX heading without its marker.
_render_ancestor(line) == [line EXCEPT !.kind = "atx", !.marker = NoMarker]

chains_over(body, toc, headings) ==
  LET stack[k \in 0 .. Len(headings)] ==
        IF k = 0 THEN <<>>
        ELSE LET level == body[headings[k]].level
             IN  Append(Open(stack[k - 1], level), [at |-> headings[k], level |-> level])
      above(n) == LET k == CHOOSE j \in DOMAIN headings : headings[j] = n
                  IN  Open(stack[k - 1], body[n].level)
  IN  [k \in DOMAIN toc |->
         [i \in DOMAIN above(toc[k]) |-> _render_ancestor(body[above(toc[k])[i].at])]]

\* (wrong: only addressable headings are a context)
ancestor_chains_of_toc(body, toc) == chains_over(body, toc, toc)

\* Every heading that is shown is a context, whether or not it can be addressed.
ancestor_chains(body, toc) == chains_over(body, toc, Numbers(body, HeadingKinds))

derive_file_sections(body) ==
  LET toc == build_toc(body)
      addressable == addressable_heading_inventory(body)
      spans == section_spans(body, toc)
      chains == ancestor_chains(body, toc)
      members == _collision_members_by_line(full_heading_inventory(body), addressable)
      marked(k) == body[toc[k]].marker # NoMarker
  IN  Listed([k \in DOMAIN toc |->
         [anchor |-> IF marked(k) THEN body[toc[k]].marker ELSE addressable[k].id,
          start |-> spans[k].start, end |-> spans[k].end,
          collision |-> IF marked(k) \/ toc[k] \notin DOMAIN members THEN {} ELSE members[toc[k]],
          context |-> chains[k]]])
=============================================================================
