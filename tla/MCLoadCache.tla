---------------------------- MODULE MCLoadCache ----------------------------
(***************************************************************************)
(* Constants for model checking LoadCache: three checkouts whose documents  *)
(* hold "x", "y", or "bad", which does not parse.                           *)
(***************************************************************************)
EXTENDS LoadCache, TLC

CONSTANTS r1, r2, r3, f1, f2, f3

MCParse == [b \in Bytes |->
  CASE b = "x" -> "X" [] b = "y" -> "Y" [] OTHER -> "malformed"]

MCFacts == {"X", "Y"}

\* One checkout has two documents; the others have another version of the
\* first, in a file that both reach through a link.
MCPath == (r1 :> <<f1, f2>>) @@ (r2 :> <<f3, None>>) @@ (r3 :> <<f3, None>>)

\* Nothing tells one process from another, nor the second checkout from the third.
Interchangeable == Permutations(Processes) \cup Permutations({r2, r3})

MCBytes0 == [f \in Files |-> IF f = f3 THEN "y" ELSE "x"]
=============================================================================
