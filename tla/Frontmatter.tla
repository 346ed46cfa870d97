------------------------------- MODULE Frontmatter -------------------------------
(* What the head of a document says it is: the envelope its first line opens, what *)
(* the envelope holds, and an envelope further down that nothing reads.            *)
EXTENDS Naturals

NoNode == "none"

\* line1: what the first line is; bom: a byte-order mark comes before it; closed: a
\* delimiter ends the envelope; yaml and keys: what is in it, `wires` for a key that
\* wires a document into the graph and `other` for one that does not; valid: the keys
\* are well formed; hyphens: `--` is in it; below: a line of the rest that spells the
\* opener of a comment envelope, bare or in a code block; node: the id.
Heads ==
  [line1 : {"prose", "fence", "opener", "near miss"}, bom : BOOLEAN, closed : BOOLEAN,
   yaml : {"broken", "scalar", "mapping"}, keys : SUBSET {"id", "wires", "other"},
   valid : BOOLEAN, hyphens : BOOLEAN, below : {"no", "quoted", "bare"}, node : STRING \ {NoNode}]

Fails(error) == [disposition |-> error, node |-> NoNode, shadowed |-> FALSE]
Untracked == [disposition |-> "untracked", node |-> NoNode, shadowed |-> FALSE]
IdLess == [disposition |-> "id-less", node |-> NoNode, shadowed |-> FALSE]
Misplaced == [disposition |-> "misplaced-envelope", node |-> NoNode, shadowed |-> FALSE]
Tracked(id) == [disposition |-> "tracked", node |-> id, shadowed |-> FALSE]

Failed(outcome) == outcome.disposition \in {"FrontmatterError", "UnreadableDocError"}

\* The first line opens an envelope, and why it cannot be split off if it cannot.
split_frontmatter_parts(head) ==
  CASE head.line1 = "prose" -> "none"
    [] head.line1 = "near miss" -> "FrontmatterError"
    [] head.line1 = "opener" /\ head.bom -> "FrontmatterError"
    [] head.line1 \in {"fence", "opener"} /\ ~head.closed -> "UnreadableDocError"
    [] OTHER -> head.line1

refuse_double_hyphen(head) == head.hyphens

detect_misplaced_envelope(head) == head.below = "bare"

_id_less(head) == IF "wires" \in head.keys THEN Fails("FrontmatterError") ELSE IdLess

parse_meta(head, kind) ==
  CASE head.yaml = "broken" -> Fails("UnreadableDocError")
    [] head.yaml = "scalar" -> IF kind = "opener" THEN Fails("FrontmatterError") ELSE Untracked
    [] head.yaml = "mapping" /\ "id" \notin head.keys ->
         IF kind = "opener" THEN Fails("FrontmatterError") ELSE _id_less(head)
    [] OTHER -> IF head.valid THEN Tracked(head.node) ELSE Fails("FrontmatterError")

\* (wrong: a document with an envelope of its own is not looked through)
ClassifiedByFirstLine(outcome, head, kind) == outcome

\* What was read of an envelope, given the opener further down.
Classified(outcome, head, kind) ==
  IF Failed(outcome) \/ kind = "opener" \/ ~detect_misplaced_envelope(head) THEN outcome
  ELSE IF outcome.node = NoNode THEN Misplaced
  ELSE [outcome EXCEPT !.shadowed = TRUE]

parse_document(head) ==
  LET parts == split_frontmatter_parts(head)
  IN  CASE parts \in {"FrontmatterError", "UnreadableDocError"} -> Fails(parts)
        [] parts = "none" -> IF detect_misplaced_envelope(head) THEN Misplaced ELSE Untracked
        [] parts = "opener" /\ refuse_double_hyphen(head) -> Fails("FrontmatterError")
        [] OTHER -> Classified(parse_meta(head, parts), head, parts)

-----------------------------------------------------------------------------
(* What its author meant.                                                    *)

\* A line says that the document belongs to a lattice, whether or not it can be read.
Declares(head) ==
  \/ head.line1 \in {"opener", "near miss"}
  \/ head.below = "bare"
  \/ head.line1 = "fence" /\ head.yaml = "mapping" /\ {"id", "wires"} \cap head.keys # {}

\* The envelope that an opener in a place of its own would have been.
DeclaresBelow(head) == head.below = "bare" /\ head.line1 \in {"prose", "fence"}
=============================================================================
