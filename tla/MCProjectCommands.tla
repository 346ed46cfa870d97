---------------------------- MODULE MCProjectCommands ----------------------------
(* Five families of projects: a document with every head there is; two documents   *)
(* and what may claim them; directories that coverage selects; documents that link *)
(* to each other; projects with nothing in between.                                *)
EXTENDS ProjectCommands

MCMarkdown == {"a.md", "b.md", "c.md", "n.md", "o.md"}

Docs == <<"docs">>
A == <<"docs", "a.md">>
B == <<"docs", "b.md">>
S == <<"docs", "s">>
C == <<"docs", "s", "c.md">>
M == <<"m.yml">>
N == <<"n.md">>
X == <<"x">>
XC == <<"x", "c.md">>
Elsewhere == <<Outside, "o.md">>

MCOrder == <<Docs, A, B, S, <<"docs", "s", "a.md">>, <<"docs", "s", "b.md">>, C, <<"docs", "s", "s">>,
             M, N, X, XC>>

-----------------------------------------------------------------------------
(* Texts.                                                                    *)

Head0 == [line1 |-> "prose", bom |-> FALSE, closed |-> TRUE, yaml |-> "mapping", keys |-> {},
          valid |-> TRUE, hyphens |-> FALSE, below |-> "no", node |-> "i"]
Prose == Head0
Fence(keys) == [Head0 EXCEPT !.line1 = "fence", !.keys = keys]
NodeHead(id) == [Fence({"id"}) EXCEPT !.node = id]
Opener(keys) == [Head0 EXCEPT !.line1 = "opener", !.keys = keys]

Belows == {"no", "quoted", "bare"}
AllHeads ==
  {[Prose EXCEPT !.bom = b, !.below = x] : b \in BOOLEAN, x \in Belows}
    \cup {[Prose EXCEPT !.line1 = "near miss"]}
    \cup {[Fence({"id"}) EXCEPT !.closed = FALSE], [Fence({"id"}) EXCEPT !.yaml = "broken"],
          [Fence({"id"}) EXCEPT !.valid = FALSE]}
    \cup {[Fence({}) EXCEPT !.yaml = "scalar", !.bom = b, !.below = x] : b \in BOOLEAN, x \in Belows}
    \cup {[Fence(k) EXCEPT !.below = x] : k \in SUBSET {"id", "wires", "other"}, x \in Belows}
    \cup {[Opener({"id"}) EXCEPT !.bom = TRUE], [Opener({"id"}) EXCEPT !.closed = FALSE],
          [Opener({}) EXCEPT !.yaml = "scalar"]}
    \cup {[Opener(k) EXCEPT !.below = x, !.hyphens = h] :
            k \in {{"id"}, {"other"}, {"id", "wires"}}, x \in Belows, h \in BOOLEAN}

Plain(head) == [head |-> head, records |-> <<>>, headings |-> {}, markers |-> {}, links |-> <<>>,
                decodes |-> TRUE, parses |-> TRUE, anchors |-> FALSE]
Doc(head) == File(Plain(head))
Record(path, id) == [path |-> path, id |-> id]
Manifest(found) == File([Plain(Prose) EXCEPT !.records = found])

Tree0 == [p \in {Docs, A, B, S, C, M, N, X, XC, <<Outside>>, Elsewhere} |->
            IF p \in {Docs, X, <<Outside>>} THEN Dir ELSE IF p = Elsewhere THEN Doc(NodeHead("o")) ELSE Absent]

\* The optional keys are written when they have something to say.
Coverage0(select, exclude, exempt) ==
  Coverage({k \in {"exclude", "exempt"} : (IF k = "exclude" THEN exclude ELSE exempt) # <<>>}, select, exclude, exempt)

Config0 == [roots |-> <<Docs>>, ignored |-> {}, manifests |-> Omitted, coverage |-> NoCoverage,
            link_sources |-> <<>>, legacy |-> Omitted]

Project(command, t, c, may) == [command |-> command, tree |-> t, config |-> c, edits |-> may]
Becomes(place, entry) == [place |-> place, entry |-> entry]

AnyMd == Name(MCMarkdown)
The(name) == Name({name})
Everything == <<The("docs"), Deep>>

-----------------------------------------------------------------------------

EachHead ==
  {Project("load",
      [Tree0 EXCEPT ![A] = Doc(head), ![B] = Doc(Prose), ![M] = Manifest(<<Record(owned, "r")>>)],
      [Config0 EXCEPT !.manifests = declared], {Becomes(A, Doc(Prose))}) :
    head \in AllHeads, owned \in {A, B}, declared \in {Omitted, Declared(<<M>>)}}

Owned ==
  {Project("load",
      [Tree0 EXCEPT ![A] = a, ![B] = b, ![N] = n, ![M] = Manifest(found)],
      [Config0 EXCEPT !.roots = r, !.manifests = declared, !.coverage = cover],
      {Becomes(A, Doc(NodeHead("k"))), Becomes(B, Link(N)), Becomes(N, Absent)}) :
    a \in {Doc(Prose), Doc(NodeHead("i"))},
    b \in {Absent, Doc(NodeHead("i")), Doc(NodeHead("j")), Link(A), Link(N), Link(Elsewhere)},
    n \in {Doc(Prose), Doc(NodeHead("n"))},
    found \in {<<Record(A, "r")>>, <<Record(A, "r"), Record(B, "q")>>, <<Record(N, "i")>>},
    declared \in {Omitted, Declared(<<M>>), Declared(<<M, N>>)},
    r \in {<<Docs>>, <<Docs, N>>, <<B, Docs>>},
    cover \in {NoCoverage, Coverage0(<<Everything>>, <<>>, <<A>>)}}

Covered ==
  {Project("load",
      [Tree0 EXCEPT ![A] = Doc(NodeHead("i")), ![B] = b, ![S] = s,
                    ![C] = IF s = Dir THEN c ELSE Absent, ![XC] = Doc(Prose)],
      [Config0 EXCEPT !.coverage = Coverage0(select, exclude, exempt)],
      {Becomes(S, Dir), Becomes(S, Absent), Becomes(S, Link(X)), Becomes(C, Doc(Prose)), Becomes(B, Absent)}) :
    b \in {Doc(NodeHead("j")), Link(A), Link(XC)},
    s \in {Dir, Link(X), Absent, Special}, c \in {Doc(Prose), Doc(NodeHead("k"))},
    select \in {<<Everything>>, <<<<The("docs"), Deep, AnyMd>>>>, <<<<The("docs"), AnyMd>>, <<Deep, Deep, The("c.md")>>>>,
                <<<<The("docs"), The("s"), AnyMd>>, <<The("docs"), Name({"a.md", "b.md", "s"})>>>>},
    exclude \in {<<>>, <<<<The("docs"), The("s")>>>>, <<<<Deep, The("b.md")>>>>, <<<<Deep, Name({"s", "c.md"})>>>>},
    exempt \in {<<>>, <<C>>, <<B>>}}

To(path, fragment) == [scope |-> "relative", plain |-> FALSE, path |-> path, fragment |-> fragment]
Marker(name, rendered, addressable) == [name |-> name, rendered |-> rendered, addressable |-> addressable]

TextA == [Plain(Prose) EXCEPT !.headings = {"top"}, !.markers = {Marker("m", TRUE, TRUE), Marker("h", FALSE, TRUE)},
                              !.links = <<To(<<>>, "top"), To(<<"s", "c.md">>, "m"), To(<<"..", "n.md">>, NoFragment)>>]
TextC == [Plain(Prose) EXCEPT !.headings = {"c"}, !.markers = {Marker("m", TRUE, TRUE), Marker("h", FALSE, TRUE)},
                              !.links = <<To(<<"..", "a.md">>, "h"), To(<<"..", "a.md">>, "m")>>]
TextB(link) == [Plain(Prose) EXCEPT !.headings = {"top"}, !.links = <<link>>]
External == [To(<<"n.md">>, "none such") EXCEPT !.scope = "external"]
PlainView == [To(<<"a.md">>, "none such") EXCEPT !.plain = TRUE]
Unreadable == [TextB(External) EXCEPT !.decodes = FALSE]
Anchored == [TextB(PlainView) EXCEPT !.anchors = TRUE]
\* Its headings can be read, its links cannot.
Unparsed == [TextC EXCEPT !.parses = FALSE]

Linked ==
  {Project("links",
      [Tree0 EXCEPT ![A] = File(TextA), ![B] = b, ![S] = s, ![C] = IF s = Dir THEN File(TextC) ELSE Absent,
                    ![N] = n, ![XC] = File(TextC)],
      [Config0 EXCEPT !.link_sources = select, !.legacy = marked],
      {Becomes(A, File([TextA EXCEPT !.headings = {"new"}])), Becomes(B, Absent), Becomes(C, File(Unparsed)),
       Becomes(S, Absent), Becomes(S, Link(X)), Becomes(N, Absent), Becomes(N, Link(Elsewhere))}) :
    b \in {Link(A), Link(Elsewhere), File(Unreadable), File(Anchored), File(TextB(External))} \cup
          {File(TextB(link)) : link \in {To(<<"a.md">>, "m"), To(<<"..", "..", "o.md">>, NoFragment),
                                         To(<<".", "s", "c.md">>, "c"), To(<<Structured>>, NoFragment)}},
    s \in {Dir, Link(X)},
    n \in {Doc(Prose), Link(Elsewhere)},
    select \in {<<<<The("docs"), Deep, AnyMd>>>>, <<<<The("docs"), AnyMd>>, <<Deep, Deep, The("c.md")>>>>},
    marked \in {Omitted, Declared(<<<<Deep, The("c.md")>>>>), Declared(<<<<The("docs"), The("b.md")>>>>)}}

\* A project that is one root, two whose coverage is written to no end, and one that names
\* no document to check.
Bare ==
  {Project("load",
      [Tree0 EXCEPT ![N] = n, ![A] = Doc(NodeHead("i"))], [Config0 EXCEPT !.roots = <<Root>>],
      {Becomes(N, Absent), Becomes(N, Link(A))}) :
    n \in {Doc(NodeHead("n")), Link(Elsewhere)}}
  \cup {Project("load", [Tree0 EXCEPT ![A] = Doc(NodeHead("i"))],
                [Config0 EXCEPT !.coverage = Coverage({key}, <<Everything>>, <<>>, <<>>)], {}) : key \in {"exclude", "exempt"}}
  \cup {Project("links", Tree0, Config0, {})}

MCProjects == EachHead \cup Owned \cup Covered \cup Linked \cup Bare
=============================================================================
