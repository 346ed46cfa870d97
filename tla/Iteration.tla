--------------------------------- MODULE Iteration ---------------------------------
(* Sequences as a loop builds them: what a comprehension with a condition returns, *)
(* and the lists that another appends one after the other.                         *)
EXTENDS Naturals, Sequences

Kept(seq, S) ==
  LET kept[n \in 0 .. Len(seq)] ==
        IF n = 0 THEN <<>>
        ELSE IF seq[n] \in S THEN Append(kept[n - 1], seq[n]) ELSE kept[n - 1]
  IN  kept[Len(seq)]

Joined(parts) ==
  LET joined[n \in 0 .. Len(parts)] == IF n = 0 THEN <<>> ELSE joined[n - 1] \o parts[n]
  IN  joined[Len(parts)]
=============================================================================
