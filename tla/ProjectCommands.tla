----------------------------- MODULE ProjectCommands -----------------------------
(* A load or a run of the link gate over a project whose files may change meanwhile, *)
(* and what its outcome means.                                                       *)
EXTENDS LinkGate

CONSTANTS
  Projects,  \* a command, the files and the configuration it meets, and what may change
  MaxEdits   \* the changes that happen while it runs

\* What a document may be said to be.
Headed(entry) == entry.kind = "file" => entry.text.head \in Heads

\* No name of a file says "the directory above", and what is not written has no entries.
ASSUME ProjectAssumption ==
  /\ MaxEdits \in Nat
  /\ Order \in Seq(Seq(STRING) \ {Root}) /\ ~Repeats(Order)
  /\ \A k \in DOMAIN Order : Outside \notin ToSet(Order[k])
  /\ \A project \in Projects :
       /\ IsTree(project.tree) /\ WellFormed(project.tree)
       /\ \A p \in DOMAIN project.tree : Headed(project.tree[p])
       /\ project.command \in {"load", "links"}
       /\ project.config \in Configs
       /\ ~project.config.legacy.declared => project.config.legacy.entries = <<>>
       /\ LET coverage == project.config.coverage
          IN  /\ "exclude" \notin coverage.keys => coverage.exclude = <<>>
              /\ "exempt" \notin coverage.keys => coverage.exempt = <<>>
       /\ \A e \in project.edits : e.place \in Seq(STRING) \ {Root} /\ IsEntry(e.entry) /\ Headed(e.entry)

VARIABLES edits  \* the changes that may happen, and how many have
vars == <<tree, trees, pc, walk, todo, loading, links, edits>>

Init ==
  \E project \in Projects :
    /\ tree = project.tree /\ trees = {project.tree} /\ config = project.config
    /\ edits = [may |-> project.edits, made |-> 0]
    /\ pc = "config" /\ walk = [NoWalk EXCEPT !.strict = (project.command = "load")]
    /\ todo = <<>>
    /\ manifests = {} /\ records = <<>> /\ identities = {} /\ nodes = {}
    /\ warned = {} /\ problems = {}
    /\ sources = <<>> /\ legacy = {} /\ held = NothingHeld /\ memo = [p \in {} |-> Root] /\ verdicts = {}

Over == pc \in {"loaded", "reported", "refused"}

\* Somebody creates, rewrites, replaces or removes something.
Edit ==
  /\ ~Over /\ pc # "config" /\ edits.made < MaxEdits
  /\ \E e \in edits.may :
       /\ At(tree, e.place) # e.entry /\ At(tree, Front(e.place)).kind = "dir"
       /\ tree' = Put(tree, e.place, e.entry)
  /\ trees' = trees \cup {tree'}
  /\ edits' = [edits EXCEPT !.made = @ + 1]
  /\ UNCHANGED <<pc, walk, todo, loading, links>>

Load == walk.strict /\ LoadStep /\ UNCHANGED <<links, edits>>
CheckLinks == ~walk.strict /\ LinksStep /\ UNCHANGED edits

Next == Load \/ CheckLinks \/ Edit
Spec == Init /\ [][Next]_vars

-----------------------------------------------------------------------------

Spellings == ToSet(Order)

TypeOK ==
  /\ pc \in {"config", "manifests", "discover", "assemble", "walk", "cover", "inspect", "loaded",
             "links", "judge", "sources", "check", "open", "stat", "headings", "reported", "refused"}
  /\ WellFormed(tree) /\ tree \in trees
  /\ pc = "walk" => \A k \in DOMAIN walk.pending : walk.pending[k].index \in DOMAIN Head(walk.selectors)
  /\ \A n \in nodes : Contained(n.target)

\* What stays selectable while the walk goes on is found, and nothing is found that the
\* selector does not spell or an exclusion takes out, whatever happens to the directories
\* under the walk: the walk and the lexical matcher, which the configuration is judged
\* by, agree.
WalkFindsWhatIsThere ==
  pc = "walk" /\ walk.pending = <<>> =>
    LET segments == Head(walk.selectors)
    IN  /\ \A p \in Spellings :
             (\A t \in trees : At(t, p).kind = "file" /\ Selectable(t, p, segments, walk.exclusions)) => p \in walk.found
        /\ \A p \in walk.found :
             /\ Aligned(segments, p)
             /\ \A a \in Ancestors(p) \cup {p} : \A x \in walk.exclusions : ~Aligned(x, a)

\* The path names a document, however many links are on the way, that coverage selects
\* and does not exempt.
ToCover(t, path) ==
  /\ IsFile(t, path) /\ path \notin ToSet(config.coverage.exempt)
  /\ \E k \in DOMAIN config.coverage.select : Aligned(config.coverage.select[k], path)
  /\ \A a \in Ancestors(path) \cup {path} :
       \A k \in DOMAIN config.coverage.exclude : ~Aligned(config.coverage.exclude[k], a)

\* A load that coverage lets pass has a node for every document that the selectors spell
\* throughout, those too which only a link to a directory leads to; and an exemption that
\* the configuration accepts is not called stale of a file of the project that is there for
\* them to find.
CoverageIsWhole ==
  /\ pc = "loaded" /\ config.coverage.declared =>
       \A p \in Spellings :
         (\A t \in trees : ToCover(t, p)) => \E t \in trees : \E n \in nodes : n.target = Real(t, p)
  /\ \A problem \in problems :
       problem.kind = "stale exemption" /\ Contained(problem.spelling) =>
         \E t \in trees :
           \A k \in DOMAIN config.coverage.select :
             ~Selectable(t, problem.spelling, config.coverage.select[k], {}) \/ ~IsFile(t, problem.spelling)

\* Every record has its node and no other node its document; a manifest is none; and a
\* document whose head says that it is a node of its own is not registered as well.
OneOwner ==
  /\ TypeOK
  /\ pc = "loaded" =>
       /\ \A k \in DOMAIN records :
            /\ \E n \in nodes : n.registered /\ n.id = records[k].id /\ n.path = records[k].path
            /\ \A n \in nodes : n.target = records[k].target => n.registered
            /\ \E t \in trees : IsFile(t, records[k].target) /\ ~Declares(Text(t, records[k].target).head)
       /\ \A m \in manifests, n \in nodes : n.target # m.place
       /\ \A m, n \in nodes : m # n => m.id # n.id /\ m.target # n.target

Unlinked(t, path) == \A p \in DOMAIN t : t[p].kind = "link" => t[p].to # path
Unreached(t, path) == \A p \in DOMAIN t : t[p].kind = "link" => ~IsPrefix(t[p].to, path)

\* A document under a root, to which no link leads.
Standing(t, path) ==
  /\ At(t, path).kind = "file" /\ IsMarkdown(path) /\ Contained(path)
  /\ \E k \in DOMAIN config.roots :
       /\ IsPrefix(config.roots[k], path)
       /\ ~_ignored(path, config.roots[k], config.ignored)
  /\ Unlinked(t, path)

\* A document that declares itself to belong to a lattice is a node of what was loaded, or
\* the run warned of it; and one whose envelope nothing reads was warned of, node or not.
IntentIsNeverSilent ==
  pc = "loaded" =>
    \A p \in DOMAIN tree :
      (\A t \in trees : Standing(t, p) /\ At(t, p) = At(tree, p)) =>
        LET head == At(tree, p).text.head
        IN  /\ Declares(head) => (\E n \in nodes : n.path = p) \/ (\E w \in warned : w[2] = p)
            /\ DeclaresBelow(head) => \E w \in warned : w[2] = p

\* What a reader of the document would be offered there.
Offers(text, fragment, marked) ==
  text.decodes /\ (fragment \in text.headings
                   \/ (marked /\ \E m \in text.markers : m.name = fragment /\ m.rendered /\ m.addressable))

MayUseMarkers(path) ==
  config.legacy.declared /\ \E k \in DOMAIN config.legacy.entries : Aligned(config.legacy.entries[k], path)

Place(v) == _resolve_target(v.link.path, v.path)

\* The link leads into the project, to something, and its fragment to something in that.
Stays(t, v) == v.link.path = <<>> \/ (Place(v).ok /\ Contained(Real(t, Place(v).parts)))
Stands(t, v) ==
  IF v.link.path = <<>> THEN IsFile(t, v.path) ELSE Stat(t, Place(v).parts).kind # "absent"
Lands(t, v) ==
  LET own == v.link.path = <<>>
      path == IF own THEN v.path ELSE Place(v).parts
  IN  \/ v.link.plain \/ v.link.fragment = NoFragment \/ ~IsFile(t, path) \/ (~own /\ ~IsMarkdown(path))
      \/ Offers(Text(t, path), v.link.fragment, MayUseMarkers(v.path))

Judged == {v \in verdicts : v.link.scope = "relative" /\ v.why # "skipped"}

\* Of a link that the gate lets pass, each of the three held at some moment of the run, from
\* the document it is in and with that document's permission: the tree may change between
\* resolving, inspecting and reading the target, so that no single moment need have all
\* three.  What a link is reported for was so at some moment.
VerdictsAreTrue ==
  \A v \in Judged :
    CASE v.why = "resolves" ->
           /\ \E t \in trees : Stays(t, v)
           /\ \E t \in trees : Stands(t, v)
           /\ \E t \in trees : Lands(t, v)
      [] v.why \in {"outside", "symlink"} -> \E t \in trees : ~Stays(t, v)
      [] v.why = "missing" -> \E t \in trees : ~Stands(t, v)
      [] OTHER -> \E t \in trees : ~Lands(t, v)

\* A report covers every document that the selectors name throughout, under one of its
\* paths, and all its links.
EverySourceIsChecked ==
  pc = "reported" =>
    \A p \in Spellings :
      (\A t \in trees : /\ At(t, p) = At(tree, p) /\ At(t, p).kind = "file"
                        /\ Unreached(t, p) \/ trees = {tree}
                        /\ \E k \in DOMAIN config.link_sources : Selectable(t, p, config.link_sources[k], {})) =>
        \E v \in verdicts :
          /\ v.link = NoLink /\ \E t \in trees : Real(t, v.path) = p
          /\ v.why = "unparseable" \/ \A k \in DOMAIN At(tree, p).text.links :
               \E w \in verdicts : w.path = v.path /\ w.link = At(tree, p).text.links[k]

=============================================================================
