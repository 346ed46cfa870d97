----------------------------- MODULE MCReconcilePlan -----------------------------
(* Two inline documents and two external ones that share a manifest and an        *)
(* upstream, with a copy of the manifest; one run and an edit at any point of it. *)
EXTENDS ReconcilePlan

MCPaths == 1 .. 5
MCRefs == {"a", "x", "gone", "clash"}
MCTargetOf == [r \in MCRefs |-> IF r \in {"a", "clash"} THEN "a" ELSE IF r = "x" THEN "x" ELSE "z"]

Doc(id, entries, ending) ==
  [id |-> id, entries |-> entries, merges |-> {}, body |-> <<1>>, ending |-> ending,
   fragile |-> FALSE, ok |-> TRUE]

\* The second entry takes its `seen` from the first.
Merges(doc) == [doc EXCEPT !.merges = {<<2, 1>>}, !.fragile = TRUE]

Old == <<0>>
Current == <<1>>

First == {<<>>, <<Edge("x", Old)>>, <<Edge("clash", Current)>>}
Second == {<<Edge("a", Old), Edge("gone", Unseen), Edge("a", Unseen)>>,
           <<Edge("a", Current), Edge("x", Old)>>, <<Edge("gone", Old)>>}
Inheriting == {<<Edge("x", Current), Edge("a", Current)>>, <<Edge("a", Old), Edge("x", Old)>>,
               <<Edge("x", Old), Edge("a", Old)>>}
External == {<<Edge("a", Old)>>, <<Edge("a", Current), Edge("a", Old), Edge("x", Unseen)>>}
Shared == {<<Edge("a", Unseen)>>, <<Edge("a", Current), Edge("gone", Old)>>}

Manifest(e, f, ending) ==
  [records |-> <<Record("x", 3, e), Record("y", 4, f)>>, ending |-> ending, ok |-> TRUE]

MCProjects ==
  {[doc |-> <<Doc("a", e1, "lf"), b,
              [Doc("", <<>>, "lf") EXCEPT !.body = <<3>>], Doc("", <<>>, "lf"), Doc("", <<>>, "lf")>>,
    man |-> [f \in ManifestFiles |-> Manifest(e3, e4, mn)],
    link |-> [p \in MCPaths |-> IF p = 4 THEN l ELSE p], mlink |-> [m \in Manifests |-> m]] :
     e1 \in First, e3 \in External, e4 \in Shared,
     b \in {Doc("b", e, en) : e \in Second, en \in {"lf", "mixed"}}
           \cup {Merges(Doc("b", e, "lf")) : e \in Inheriting},
     mn \in {"lf", "mixed"}, l \in {4, 5}}

Select1(i, r) == [id |-> i, ref |-> r, dry |-> FALSE]
All == Select1("None", "None")
MCSelections == {All, [All EXCEPT !.dry = TRUE], Select1("None", "a"), Select1("b", "None"),
                 Select1("y", "a"), Select1("b", "gone")}
=============================================================================
