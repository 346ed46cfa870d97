------------------------------- MODULE ProjectTree -------------------------------
(* The files of a project.  A place is the sequence of names that leads to it from *)
(* the project root; a path is spelled the same way and may pass through links.    *)
EXTENDS Naturals, Sequences, SequencesExt, Iteration

CONSTANTS
  Markdown,  \* the names with the suffix .md
  Order      \* spellings, as the program sorts them: what it does not list comes last

Root == <<>>

Absent == [kind |-> "absent"]
Dir == [kind |-> "dir"]
Special == [kind |-> "special"]
File(text) == [kind |-> "file", text |-> text]
Link(to) == [kind |-> "link", to |-> to]

At(t, place) == IF place = Root THEN Dir ELSE IF place \in DOMAIN t THEN t[place] ELSE Absent

\* Links name places, not other links.
Through(t, place) == IF At(t, place).kind = "link" THEN At(t, place).to ELSE place
Real(t, path) ==
  LET real[n \in 0 .. Len(path)] == IF n = 0 THEN Root ELSE Through(t, Append(real[n - 1], path[n]))
  IN  real[Len(path)]

Stat(t, path) == At(t, Real(t, path))
IsDir(t, path) == Stat(t, path).kind = "dir"
IsFile(t, path) == Stat(t, path).kind = "file"
Text(t, path) == Stat(t, path).text

Outside == ".."
Contained(place) == place = Root \/ Head(place) # Outside

IsMarkdown(path) == path # Root /\ Last(path) \in Markdown

\* Resolved and required to stay inside the project.
safe_resolve(t, path) == [ok |-> Contained(Real(t, path)), place |-> Real(t, path)]

\* The names a directory holds, with what the listing says of each.
Listing(t, place) ==
  {[name |-> Last(p), kind |-> t[p].kind] :
     p \in {q \in DOMAIN t : q # Root /\ Front(q) = place /\ Last(q) # Outside /\ t[q].kind # "absent"}}

Sorted(paths) == Kept(Order, paths) \o SetToSeq(paths \ ToSet(Order))

\* What may be at a place: of what is written in a file, the records of a manifest and
\* the links of a document.
IsEntry(entry) ==
  /\ entry.kind \in {"absent", "dir", "special", "file", "link"}
  /\ entry.kind = "link" => entry.to \in Seq(STRING)
  /\ entry.kind = "file" =>
       /\ entry.text.records \in Seq([path : Seq(STRING) \ {Root}, id : STRING])
       /\ entry.text.links \in Seq([scope : STRING, plain : BOOLEAN, path : Seq(STRING), fragment : STRING])

\* Only what is outside the project has a name for that, and begins with it.
IsTree(t) ==
  /\ IsFiniteSet(DOMAIN t) /\ DOMAIN t \subseteq Seq(STRING) \ {Root}
  /\ \A p \in DOMAIN t : IsEntry(t[p]) /\ \A n \in 2 .. Len(p) : p[n] # Outside

\* A tree holds nothing beneath what is not a directory.
WellFormed(t) ==
  \A p \in DOMAIN t : t[p].kind # "absent" /\ Len(p) > 1 => At(t, Front(p)).kind = "dir"

\* What replaces a directory takes its contents away.
Put(t, place, entry) ==
  [p \in DOMAIN t |-> IF p = place THEN entry
                      ELSE IF IsStrictPrefix(place, p) THEN Absent ELSE t[p]]
=============================================================================
