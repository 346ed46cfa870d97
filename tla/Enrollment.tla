------------------------------- MODULE Enrollment -------------------------------
(* How a load decides which files are nodes, and of whom: the records of the       *)
(* manifests, the documents found under the roots and what their heads say, and    *)
(* the coverage that the configuration demands of the result.  The tree may change *)
(* between any two of its steps.                                                   *)
EXTENDS PathSelection, Frontmatter

VARIABLES
  config,      \* what the configuration says
  manifests,   \* the manifests read, as they were declared and where they are
  records,     \* their records, with the files they name
  identities,  \* the documents, by the file each one is
  todo,        \* what the phase has left
  nodes,       \* the documents that are nodes
  warned,      \* the warnings
  problems     \* what coverage complains of

Omitted == [declared |-> FALSE, entries |-> <<>>]
Declared(entries) == [declared |-> TRUE, entries |-> entries]
NoCoverage == [declared |-> FALSE, keys |-> {}, select |-> <<>>, exclude |-> <<>>, exempt |-> <<>>]
Coverage(keys, select, exclude, exempt) ==
  [declared |-> TRUE, keys |-> keys, select |-> select, exclude |-> exclude, exempt |-> exempt]

Configs ==
  [roots : Seq(Seq(STRING)), ignored : SUBSET Selectors, link_sources : Seq(Selectors),
   manifests : [declared : BOOLEAN, entries : Seq(Seq(STRING))],
   legacy : [declared : BOOLEAN, entries : Seq(Selectors)],
   coverage : [declared : BOOLEAN, keys : SUBSET {"exclude", "exempt"}, select : Seq(Selectors), exclude : Seq(Selectors), exempt : Seq(Seq(STRING) \ {Root})]]

-----------------------------------------------------------------------------
(* Configuration.                                                            *)

Repeats(seq) == \E i, j \in DOMAIN seq : i # j /\ seq[i] = seq[j]

_validate_selectors(entries) == \A i \in DOMAIN entries : validate_link_selector(entries[i])

_validate_select(select) == select # <<>> /\ ~Repeats(select) /\ _validate_selectors(select)
_validate_exclude(coverage) ==
  ("exclude" \in coverage.keys => coverage.exclude # <<>>) /\ ~Repeats(coverage.exclude)
_validate_selector(selector) == validate_link_selector(selector) /\ ~Last(selector).deep
_validate_exempt(coverage) ==
  ("exempt" \in coverage.keys => coverage.exempt # <<>>) /\ ~Repeats(coverage.exempt)

_an_exclusion_cannot_prune_an_exemption(coverage) ==
  \A i \in DOMAIN coverage.exclude, j \in DOMAIN coverage.exempt :
    ~selector_prunes_path(coverage.exclude[i], coverage.exempt[j])

ValidCoverage(coverage) ==
  /\ _validate_select(coverage.select)
  /\ _validate_exclude(coverage)
  /\ \A i \in DOMAIN coverage.exclude : _validate_selector(coverage.exclude[i])
  /\ _validate_exempt(coverage)
  /\ _an_exclusion_cannot_prune_an_exemption(coverage)

_validate_sidecar_manifests(declared) == declared.declared => declared.entries # <<>>
_validate_legacy_marker_sources(declared) ==
  declared.declared => declared.entries # <<>> /\ _validate_selectors(declared.entries)

Valid(c) ==
  /\ c.coverage.declared => ValidCoverage(c.coverage)
  /\ _validate_sidecar_manifests(c.manifests)
  /\ _validate_selectors(c.link_sources) /\ _validate_legacy_marker_sources(c.legacy)

\* A root is missing, a directory or one document.
_resolve_roots(t, roots) ==
  \A i \in DOMAIN roots :
    LET root == safe_resolve(t, roots[i])
    IN  root.ok /\ (At(t, root.place).kind \in {"absent", "dir"}
                    \/ (At(t, root.place).kind = "file" /\ IsMarkdown(root.place)))

load_config(next) ==
  /\ pc = "config"
  /\ LET fine == Valid(config) /\ _resolve_roots(tree, config.roots)
     IN  /\ pc' = IF fine THEN next ELSE "refused"
         /\ todo' = IF ~fine THEN <<>>
                    ELSE IF next = "manifests" THEN config.manifests.entries ELSE <<>>
  /\ config' = [config EXCEPT !.roots = [i \in DOMAIN @ |-> Real(tree, @[i])]]
  /\ UNCHANGED <<tree, trees, walk, manifests, records, identities, nodes, warned, problems>>

-----------------------------------------------------------------------------
(* Manifests.                                                                *)

\* A declared path names a file inside the project.
_resolve_regular_file(t, path) == safe_resolve(t, path).ok /\ IsFile(t, path)

_check_path_spelling(path) == IsMarkdown(path)

Registration(t, record, manifest) ==
  [path |-> record.path, target |-> Real(t, record.path), manifest |-> manifest, id |-> record.id]

parse_manifest_bytes(t, text, manifest) ==
  [i \in DOMAIN text.records |-> Registration(t, text.records[i], manifest)]

_validate_record(t, record) == _check_path_spelling(record.path) /\ _resolve_regular_file(t, record.path)

\* The manifest can be read, is declared once, and its records are well formed.
_read_manifest(t, declared) ==
  /\ _resolve_regular_file(t, declared)
  /\ \A m \in manifests : m.place # Real(t, declared)
  /\ LET text == Text(t, declared)
     IN  text.records # <<>> /\ \A i \in DOMAIN text.records : _validate_record(t, text.records[i])

\* Every file is claimed by one record.
OwnedOnce(found) ==
  \A i, j \in DOMAIN found : i # j => found[i].target # found[j].target

build_registration_index ==
  /\ pc = "manifests" /\ todo # <<>>
  /\ LET declared == Head(todo)
         found == records \o IF _read_manifest(tree, declared)
                             THEN parse_manifest_bytes(tree, Text(tree, declared), declared) ELSE <<>>
         fine == _read_manifest(tree, declared) /\ OwnedOnce(found)
     IN  IF fine
         THEN /\ manifests' = manifests \cup {[declared |-> declared, place |-> Real(tree, declared)]}
              /\ records' = found
              /\ todo' = Tail(todo) /\ UNCHANGED pc
         ELSE pc' = "refused" /\ UNCHANGED <<manifests, records, todo>>
  /\ UNCHANGED <<tree, trees, walk, config, identities, nodes, warned, problems>>

Registered ==
  /\ pc = "manifests" /\ todo = <<>>
  /\ identities' = {[target |-> records[i].target, path |-> records[i].path] : i \in DOMAIN records}
  /\ pc' = "discover" /\ todo' = config.roots
  /\ UNCHANGED <<tree, trees, walk, config, manifests, records, nodes, warned, problems>>

-----------------------------------------------------------------------------
(* Discovery.                                                                *)

_ignored(path, root, globs) ==
  LET relative == IF path = root THEN <<Last(path)>> ELSE SubSeq(path, Len(root) + 1, Len(path))
  IN  \E g \in globs : selector_matches_path(g, relative)

\* The documents under a root: a link to one is one, a link to a directory is not
\* entered.
Walked(t, root) ==
  IF At(t, root).kind = "dir"
  THEN {p \in DOMAIN t : IsStrictPrefix(root, p) /\ Head(p) # Outside /\ IsMarkdown(p) /\ At(t, p).kind # "absent"}
  ELSE IF At(t, root).kind = "file" /\ IsMarkdown(root) THEN {root} ELSE {}

Found(t, root, globs) == {p \in Walked(t, root) : IsFile(t, p) /\ ~_ignored(p, root, globs)}

\* Of the paths to one document the first is its identity.
discover_doc_candidates(t, root, globs) ==
  LET paths == {p \in Found(t, root, globs) : safe_resolve(t, p).ok}
      first(target) == Head(Sorted({p \in paths : Real(t, p) = target}))
  IN  {[target |-> target, path |-> first(target)] : target \in {Real(t, p) : p \in paths}}

Discover ==
  /\ pc = "discover" /\ todo # <<>>
  /\ LET root == Head(todo)
         known == {i.target : i \in identities}
         found == discover_doc_candidates(tree, root, config.ignored)
     IN  /\ identities' = identities \cup {c \in found : c.target \notin known}
         /\ warned' = warned \cup {<<"escapes", p>> :
                                     p \in {q \in Found(tree, root, config.ignored) : ~safe_resolve(tree, q).ok}}
  /\ todo' = Tail(todo)
  /\ UNCHANGED <<tree, trees, pc, walk, config, manifests, records, nodes, problems>>

Discovered ==
  /\ pc = "discover" /\ todo = <<>>
  /\ pc' = "assemble"
  /\ LET paths == Sorted({i.path : i \in identities})
     IN  todo' = Joined([k \in DOMAIN paths |-> SetToSeq({i \in identities : i.path = paths[k]})])
  /\ UNCHANGED <<tree, trees, walk, config, manifests, records, identities, nodes, warned, problems>>

-----------------------------------------------------------------------------
(* Assembly.                                                                 *)

RecordsOf(target) == {records[k] : k \in {j \in DOMAIN records : records[j].target = target}}
IsManifest(target) == \E m \in manifests : m.place = target

\* A registered document is read where its record was resolved to, another by its path.
ReadAt(identity) == IF RecordsOf(identity.target) # {} THEN identity.target ELSE identity.path

Facts(identity) == parse_document(Text(tree, ReadAt(identity)).head)

\* (wrong: an envelope in the wrong place claims nothing)
ClaimedIfTracked(outcome) == outcome.disposition = "tracked"

\* The head claims the document for its own envelope, or shows one that nothing reads.
Claimed(outcome) == outcome.disposition \notin {"untracked", "id-less"} \/ outcome.shadowed

Conflict(target, outcome) ==
  \/ RecordsOf(target) # {} /\ Claimed(outcome)
  \/ IsManifest(target) /\ (RecordsOf(target) # {} \/ outcome.node # NoNode)

Acquirable(identity) ==
  /\ IsFile(tree, ReadAt(identity)) /\ Text(tree, ReadAt(identity)).decodes
  /\ ~Failed(Facts(identity)) /\ ~Conflict(identity.target, Facts(identity))

_report_load_diagnostics(path, outcome) ==
  (IF outcome.disposition \in {"id-less", "misplaced-envelope"} THEN {<<outcome.disposition, path>>} ELSE {})
    \cup (IF outcome.shadowed THEN {<<"shadowed", path>>} ELSE {})

\* A registered document has the metadata of its record, another those of its head.
NodeOf(identity, outcome) ==
  LET node(id, registered) == [path |-> identity.path, target |-> identity.target, id |-> id, registered |-> registered]
  IN  IF RecordsOf(identity.target) # {} THEN {node(r.id, TRUE) : r \in RecordsOf(identity.target)}
      ELSE IF outcome.node # NoNode THEN {node(outcome.node, FALSE)} ELSE {}

Acquire ==
  /\ pc = "assemble" /\ todo # <<>> /\ Acquirable(Head(todo))
  /\ LET identity == Head(todo)
     IN  /\ nodes' = nodes \cup NodeOf(identity, Facts(identity))
         /\ warned' = warned \cup (IF RecordsOf(identity.target) = {}
                                   THEN _report_load_diagnostics(identity.path, Facts(identity)) ELSE {})
  /\ todo' = Tail(todo)
  /\ UNCHANGED <<tree, trees, pc, walk, config, manifests, records, identities, problems>>

AcquireRefused ==
  /\ pc = "assemble" /\ todo # <<>> /\ ~Acquirable(Head(todo))
  /\ pc' = "refused"
  /\ UNCHANGED <<tree, trees, walk, config, manifests, records, identities, todo, nodes, warned, problems>>

\* Two nodes of one id are refused; coverage is judged once the lattice stands.
_assemble ==
  /\ pc = "assemble" /\ todo = <<>>
  /\ IF \E m, n \in nodes : m # n /\ m.id = n.id
     THEN pc' = "refused" /\ UNCHANGED walk
     ELSE IF ~config.coverage.declared THEN pc' = "loaded" /\ UNCHANGED walk
     ELSE select_paths(config.coverage.select, TRUE, ToSet(config.coverage.exclude), "refused")
  /\ UNCHANGED <<tree, trees, config, manifests, records, identities, todo, nodes, warned, problems>>

-----------------------------------------------------------------------------
(* Coverage.                                                                 *)

enrolled == {n.target : n \in nodes}

Judge ==
  /\ pc = "cover"
  /\ pc' = "inspect" /\ todo' = Sorted(walk.matched)
  /\ problems' = walk.refusals \cup {Refusal("stale exemption", p) : p \in ToSet(config.coverage.exempt) \ walk.matched}
  /\ UNCHANGED <<tree, trees, walk, config, manifests, records, identities, nodes, warned>>

Complaint(path) ==
  IF ~safe_resolve(tree, path).ok \/ Stat(tree, path).kind = "absent" THEN {Refusal("unresolved", path)}
  ELSE IF ~IsFile(tree, path) THEN {Refusal("not a file", path)}
  ELSE IF Real(tree, path) \notin enrolled /\ path \notin ToSet(config.coverage.exempt)
  THEN {Refusal("uncovered", path)}
  ELSE {}

Inspect ==
  /\ pc = "inspect" /\ todo # <<>>
  /\ problems' = problems \cup Complaint(Head(todo)) /\ todo' = Tail(todo)
  /\ UNCHANGED <<tree, trees, pc, walk, config, manifests, records, identities, nodes, warned>>

enforce_coverage ==
  /\ pc = "inspect" /\ todo = <<>>
  /\ pc' = IF problems = {} THEN "loaded" ELSE "refused"
  /\ UNCHANGED <<tree, trees, walk, config, manifests, records, identities, todo, nodes, warned, problems>>

CoverageWalk ==
  /\ walk.strict /\ WalkStep("cover")
  /\ UNCHANGED <<tree, trees, config, manifests, records, identities, todo, nodes, warned, problems>>

LoadStep ==
  \/ load_config("manifests") \/ build_registration_index \/ Registered \/ Discover \/ Discovered
  \/ Acquire \/ AcquireRefused \/ _assemble \/ CoverageWalk \/ Judge \/ Inspect \/ enforce_coverage
=============================================================================
