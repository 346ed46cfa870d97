--------------------------------- MODULE LinkGate ---------------------------------
(* The link gate: the documents that the selectors name, the links each one holds, *)
(* and whether they lead anywhere.  What a target offers is read once, and the     *)
(* permission to use a marker belongs to the document that links.                  *)
EXTENDS Enrollment

VARIABLES
  sources,   \* the documents to check, with the files they are
  legacy,    \* those that may link to markers
  held,      \* the document being checked, as it was read
  memo,      \* what the targets read so far offer
  verdicts   \* what was said of every link, and of every document
links == <<sources, legacy, held, memo, verdicts>>
loading == <<config, manifests, records, identities, nodes, warned, problems>>

NoFragment == "none"
Structured == "%2f"  \* a segment that decodes to more than a name

NothingHeld == [path |-> Root, links |-> <<>>]

-----------------------------------------------------------------------------
(* Which documents.                                                          *)

_require_link_sources ==
  /\ pc = "links"
  /\ select_paths(config.link_sources, FALSE, {}, "refused")
  /\ UNCHANGED <<tree, trees, todo, loading, links>>

SourceWalk ==
  /\ ~walk.strict /\ WalkStep("judge")
  /\ UNCHANGED <<tree, trees, todo, loading, links>>

Selected ==
  /\ pc = "judge"
  /\ pc' = "sources" /\ todo' = Sorted(walk.matched)
  /\ UNCHANGED <<tree, trees, walk, loading, links>>

_escapes_by_symlink(t, path) == ~Contained(Real(t, path))

_require_regular_file(t, path) == IsFile(t, path)

\* A path that leaves the project is kept, to be reported; of the paths to one file the
\* first is kept.
select_link_sources ==
  /\ pc = "sources" /\ todo # <<>>
  /\ LET path == Head(todo)
         place == Real(tree, path)
     IN  IF ~_escapes_by_symlink(tree, path) /\ ~_require_regular_file(tree, path)
         THEN pc' = "refused" /\ UNCHANGED <<sources, todo>>
         ELSE /\ sources' = IF \E k \in DOMAIN sources : sources[k].place = place /\ Contained(place)
                            THEN sources ELSE Append(sources, [path |-> path, place |-> place])
              /\ todo' = Tail(todo) /\ UNCHANGED pc
  /\ UNCHANGED <<tree, trees, walk, loading, legacy, held, memo, verdicts>>

\* Every entry must name a source.
select_legacy_marker_sources ==
  /\ pc = "sources" /\ todo = <<>>
  /\ LET paths == {sources[k].path : k \in DOMAIN sources}
         named(entry) == {p \in paths : selector_matches_path(entry, p)}
         entries == ToSet(config.legacy.entries)
     IN  IF \E e \in entries : named(e) = {}
         THEN pc' = "refused" /\ UNCHANGED legacy
         ELSE pc' = "check" /\ legacy' = UNION {named(e) : e \in entries}
  /\ UNCHANGED <<tree, trees, walk, todo, loading, sources, held, memo, verdicts>>

-----------------------------------------------------------------------------
(* Where a link leads.                                                       *)

_is_out_of_scope(link) == link.scope # "relative"
_selects_plain_view(link) == link.plain

_is_single_name(segment) == segment # Structured

\* Dot segments are resolved against the directory of the document, and none leads above
\* the root.
_contained_parts(base, segments) ==
  LET stay(at, s) ==
        CASE ~at.ok \/ s = "." -> at
          [] s = ".." /\ at.ok -> [ok |-> at.parts # <<>>, parts |-> IF at.parts = <<>> THEN <<>> ELSE Front(at.parts)]
          [] OTHER -> [ok |-> _is_single_name(s), parts |-> Append(at.parts, s)]
  IN  FoldLeft(stay, [ok |-> TRUE, parts |-> base], segments)

_resolve_target(path, source) == _contained_parts(Front(source), path)

full_heading_inventory(text) == text.headings
addressable_explicit_markers(text) == {m.name : m \in {n \in text.markers : n.rendered /\ n.addressable}}

\* Markers are read if any document of the run may use them.
_target_headings(text) ==
  [github_ids |-> full_heading_inventory(text),
   markers |-> IF legacy = {} THEN {} ELSE addressable_explicit_markers(text)]

\* (wrong: the permission belongs to the run)
_fragment_message_of_run(fragment, headings, source) ==
  IF fragment \in headings.github_ids \/ fragment \in headings.markers THEN "resolves" ELSE "no heading"

_fragment_message(fragment, headings, source) ==
  IF fragment \in headings.github_ids \/ (source \in legacy /\ fragment \in headings.markers)
  THEN "resolves" ELSE "no heading"

\* A fragment is looked up only in a document that is rendered.
Fragment(link) == IF _selects_plain_view(link) THEN NoFragment ELSE link.fragment

Checkable(t, target, fragment) == fragment # NoFragment /\ IsMarkdown(target) /\ IsFile(t, target)

Verdict(path, link, why) == [path |-> path, link |-> link, why |-> why]

\* What is remembered of a target, from a text that was just read.  A text is read for its
\* headings alone, which the inline errors of its own check do not concern.
Read(target, text) ==
  IF target \in DOMAIN memo \/ ~text.decodes THEN memo
  ELSE [x \in DOMAIN memo \cup {target} |-> IF x = target THEN _target_headings(text) ELSE memo[x]]

Answer(fragment, target, known, source) ==
  IF target \notin DOMAIN known THEN "unreadable" ELSE _fragment_message(fragment, known[target], source)

\* The link that is being looked at, where it leads and what it asks for there.
Asked == Head(held.links)
Target == _resolve_target(Asked.path, held.path)

\* That is all there is to say of the link.
Said(why) ==
  /\ verdicts' = verdicts \cup {Verdict(held.path, Asked, why)}
  /\ held' = [held EXCEPT !.links = Tail(@)]
  /\ pc' = "check"

\* The next link of the document: out of scope, within the document, or to another, whose
\* path is resolved.
_link_message ==
  /\ pc = "check" /\ held.links # <<>>
  /\ \/ /\ _is_out_of_scope(Asked) \/ (Asked.path = <<>> /\ Fragment(Asked) = NoFragment)
        /\ Said("skipped") /\ UNCHANGED memo
     \/ /\ ~_is_out_of_scope(Asked) /\ Asked.path = <<>> /\ Fragment(Asked) # NoFragment
        /\ memo' = Read(held.path, held.text)
        /\ Said(Answer(Fragment(Asked), held.path, memo', held.path))
     \/ /\ ~_is_out_of_scope(Asked) /\ Asked.path # <<>>
        /\ CASE ~Target.ok -> Said("outside")
             [] Target.ok /\ _escapes_by_symlink(tree, Target.parts) -> Said("symlink")
             [] OTHER -> pc' = "stat" /\ UNCHANGED <<held, verdicts>>
        /\ UNCHANGED memo
  /\ UNCHANGED <<tree, trees, walk, todo, loading, sources, legacy>>

\* What is at the path by now.
_stat_mode ==
  /\ pc = "stat"
  /\ CASE Stat(tree, Target.parts).kind = "absent" -> Said("missing")
       [] Checkable(tree, Target.parts, Fragment(Asked)) -> pc' = "headings" /\ UNCHANGED <<held, verdicts>>
       [] OTHER -> Said("resolves")
  /\ UNCHANGED <<tree, trees, walk, todo, loading, sources, legacy, memo>>

\* What it offers: remembered, or read now if it can be.
AskTarget ==
  /\ pc = "headings"
  /\ IF Target.parts \notin DOMAIN memo /\ ~IsFile(tree, Target.parts)
     THEN pc' = "refused" /\ UNCHANGED <<held, memo, verdicts>>
     ELSE /\ memo' = IF Target.parts \in DOMAIN memo THEN memo ELSE Read(Target.parts, Text(tree, Target.parts))
          /\ Said(Answer(Fragment(Asked), Target.parts, memo', held.path))
  /\ UNCHANGED <<tree, trees, walk, todo, loading, sources, legacy>>

-----------------------------------------------------------------------------
(* The documents in turn.                                                    *)

NoLink == [scope |-> "none", plain |-> FALSE, path |-> <<>>, fragment |-> NoFragment]

\* The next document is resolved: one that leaves the project is reported and not opened.
check_links ==
  /\ pc = "check" /\ held.links = <<>> /\ sources # <<>>
  /\ IF _escapes_by_symlink(tree, Head(sources).path)
     THEN /\ verdicts' = verdicts \cup {Verdict(Head(sources).path, NoLink, "escapes")}
          /\ held' = NothingHeld /\ sources' = Tail(sources) /\ UNCHANGED pc
     ELSE pc' = "open" /\ UNCHANGED <<held, sources, verdicts>>
  /\ UNCHANGED <<tree, trees, walk, todo, loading, legacy, memo>>

\* What is said of a document before its links are looked at, which takes its inline parse.
SourceVerdict(text) ==
  IF ~text.decodes \/ ~text.parses THEN "unparseable"
  ELSE IF text.anchors THEN "raw anchor" ELSE "read"

ReadSource ==
  /\ pc = "open"
  /\ LET path == Head(sources).path
         text == Text(tree, path)
     IN  IF ~IsFile(tree, path)
         THEN pc' = "refused" /\ UNCHANGED <<held, sources, verdicts>>
         ELSE /\ held' = IF SourceVerdict(text) = "unparseable" THEN NothingHeld
                         ELSE [path |-> path, links |-> text.links, text |-> text]
              /\ verdicts' = verdicts \cup {Verdict(path, NoLink, SourceVerdict(text))}
              /\ sources' = Tail(sources) /\ pc' = "check"
  /\ UNCHANGED <<tree, trees, walk, todo, loading, legacy, memo>>

Report ==
  /\ pc = "check" /\ held.links = <<>> /\ sources = <<>>
  /\ pc' = "reported"
  /\ UNCHANGED <<tree, trees, walk, todo, loading, links>>

findings == {v \in verdicts : v.why \notin {"resolves", "skipped", "read"}}

LinksStep ==
  \/ load_config("links") /\ UNCHANGED links
  \/ _require_link_sources \/ SourceWalk \/ Selected \/ select_link_sources
  \/ select_legacy_marker_sources \/ _link_message \/ _stat_mode \/ AskTarget \/ check_links \/ ReadSource \/ Report
=============================================================================
