-------------------------- MODULE MCFrontmatterRewrite --------------------------
(* Up to one template and three entries, with one anchor name that is used        *)
(* again: every way to spell `seen` in the first two entries, and the ways to     *)
(* depend on them in the third.                                                   *)
EXTENDS FrontmatterRewrite

MCRefs == {"r1", "r2"}
MCHashes == {"o", "n", "dd"}
MCSelections == {[r \in {"r1"} |-> "n"],
                 [r \in {"r1", "r2"} |-> IF r = "r1" THEN "n" ELSE "o"]}

Spelled == {NoSeen, Written("o"), Written("n"), Value("o", "a"), AliasOf("a")}
Odd == {Written(Null), Listed, Value("dd", "a")}

MCTemplates == {<<>>} \cup {<<Mapping("r1", s, <<>>)>> : s \in {NoSeen, Value("o", "a")}}

Sources(n) == {<<j>> : j \in 1 .. n} \cup {<<j, k>> : j, k \in 1 .. n}

Anchored(items) == {k \in DOMAIN items : items[k].kind = "map"}

MCEntry(items) ==
  LET merges == {m \in Sources(Len(items)) :
                   /\ \A p \in DOMAIN m : m[p] \in Anchored(items)
                   /\ Len(m) = 2 => m[1] # m[2]}
  IN  {Mapping(r, s, <<>>) : r \in MCRefs, s \in Spelled \cup Odd}
      \cup {Mapping(r, s, m) : r \in {"r2", Absent}, s \in {NoSeen, Written("o")},
                               m \in merges}
      \cup {ItemAlias(j) : j \in Anchored(items)}

MCMore(items) ==
  LET plain == \A i \in DOMAIN items : items[i].seen \notin Odd
      third == {Mapping("r2", NoSeen, <<j>>) : j \in Anchored(items)}
               \cup {Mapping("r1", s, <<>>) :
                       s \in {Written("o"), Value("n", "a"), AliasOf("a")}}
               \cup {ItemAlias(j) : j \in Anchored(items)}
  IN  {<<>>} \cup (IF plain THEN {<<x>> : x \in third} ELSE {})

MCTails(items) ==
  {NoTail, ScalarTail("a")} \cup {MergeTail(j) : j \in {Len(items)} \cap Anchored(items)}
=============================================================================
