------------------------------ MODULE MCLinearAudit ------------------------------
(* A document with two or three headings, in nine outlines, and four that derive  *)
(* from it; chains of four documents with every authority; and three documents    *)
(* with tickets, one edge stale and one ambiguous.                                *)
EXTENDS LinearAudit

Notes == <<"notes">>
Notes1 == <<"notes", "1">>
Other == <<"other">>
MCWords == {Notes, Notes1, Other}
MCMarkers == {NoMarker, <<"m">>}
MCLevels == {1, 2}
MCNewText == <<"new">>

Numbered(lines) == [i \in DOMAIN lines |-> [lines[i] EXCEPT !.uid = i]]
H(level, text) == Line("atx", level, text, NoMarker, 0)
Marked(level, text, m) == Line("atx", level, text, m, 0)
Setext(level, text) == Line("other", level, text, NoMarker, 0)
Hidden(level, text) == Line("hidden", level, text, NoMarker, 0)
T(word) == Line("text", 0, <<word>>, NoMarker, 0)

Outlines ==
  {<<H(1, Notes), T("p"), H(1, Notes1), T("q"), H(1, Notes)>>,
   <<H(1, Notes), H(2, Other), T("p"), H(1, Notes1), T("q")>>,
   <<T("p"), H(2, Notes), T("p"), H(1, Other), H(2, Notes1), T("q")>>,
   <<Setext(1, Other), H(2, Notes), T("p"), Setext(1, Notes1), T("q")>>,
   <<Setext(1, Notes), T("p"), H(1, Notes), T("q")>>,
   <<Hidden(1, Notes), T("p"), H(2, Notes1), T("q")>>,
   <<Marked(1, Notes, <<"m">>), T("p"), H(1, Notes), T("q")>>,
   <<H(1, Other), Marked(2, Other, <<"m">>), T("p"), H(2, Notes)>>,
   <<Marked(1, <<>>, Notes), T("p"), H(1, Notes), H(1, Notes), T("q")>>}

Doc(lines, refs, authority, owned) ==
  [body |-> Numbered(lines), entries |-> [i \in DOMAIN refs |-> RawEdge(refs[i], NoHash)],
   authority |-> authority, tickets |-> owned]
Reconciled(doc, seen) == [doc EXCEPT !.entries = [i \in DOMAIN @ |-> RawEdge(@[i].ref, seen)]]

Section(anchor) == SectionTarget("u", anchor)
TopAnchor == <<"top">>
Top == <<H(1, TopAnchor)>>

EditedProjects ==
  {[id \in {"u", "a", "b", "c", "d"} |->
      CASE id = "u" -> Doc(lines, <<>>, "binding", {})
        [] id = "a" -> Doc(Top, <<Section(Notes)>>, "derived", {})
        [] id = "b" -> Doc(Top, <<Section(Notes1), SectionTarget("a", TopAnchor)>>, "derived", {})
        [] id = "c" -> Doc(Top, <<Section(Other), Section(<<"m">>)>>, "exploratory", {})
        [] id = "d" -> Doc(Top, <<FileTarget("u"), FileTarget("b")>>, "exploratory", {})] :
     lines \in Outlines}

Chains ==
  {[id \in {"a", "b", "c", "d"} |->
      CASE id = "a" -> Doc(Top, cycle, w, {})
        [] id = "b" -> Doc(Top, <<SectionTarget("a", TopAnchor)>>, x, {})
        [] id = "c" -> Doc(Top, <<FileTarget("b")>>, y, {})
        [] id = "d" -> Doc(Top, <<SectionTarget("c", TopAnchor)>>, z, {})] :
     w \in Authorities, x \in Authorities, y \in Authorities, z \in Authorities,
     cycle \in {<<>>, <<FileTarget("d")>>}}

Old == <<T("old")>>
Audited ==
  {[id \in {"a", "b", "c"} |->
      CASE id = "a" -> Doc(<<H(1, Notes), H(1, TopAnchor), H(1, Notes)>>, <<>>, "derived", {"PC-1"})
        [] id = "b" -> Reconciled(Doc(Top, <<SectionTarget("a", TopAnchor)>>, "derived", first), Old)
        [] id = "c" -> Reconciled(Doc(Top, <<SectionTarget("a", Notes), FileTarget("b")>>, "derived", second), Old)] :
     first \in {{"PC-1", "PC-3"}, {"PC-2", "PC-1", "ENG-1"}},
     second \in {{"PC-2"}, {"PC-01", "PC-4"}}}

MCProjects == EditedProjects \cup Chains \cup Audited

Ticket(team, number, ok) == [team |-> team, number |-> number, ok |-> ok]
MCTickets ==
  ("PC-1" :> Ticket("PC", 1, TRUE)) @@ ("PC-2" :> Ticket("PC", 2, TRUE)) @@
  ("PC-3" :> Ticket("PC", 3, TRUE)) @@ ("PC-4" :> Ticket("PC", 4, TRUE)) @@
  ("PC-01" :> Ticket("PC", 1, FALSE)) @@ ("ENG-1" :> Ticket("ENG", 1, TRUE))
MCService ==
  ("PC-1" :> "completed") @@ ("PC-2" :> "started") @@ ("PC-4" :> "canceled") @@ ("ENG-1" :> "backlog")

MCAudits ==
  {[target |-> t, from |-> FALSE] : t \in {NoTarget, FileTarget("b"), SectionTarget("a", Notes), FileTarget("none")}}
    \cup {[target |-> t, from |-> TRUE] : t \in {FileTarget("a"), SectionTarget("a", TopAnchor)}}
=============================================================================
