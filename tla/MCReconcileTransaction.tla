----------------------- MODULE MCReconcileTransaction -----------------------
(***************************************************************************)
(* Constants for model checking ReconcileTransaction: two destinations,     *)
(* whose contents are drifted ("a"), acknowledged ("A": the rewrite of "a") *)
(* or something a person wrote ("u", which needs no rewrite).               *)
(***************************************************************************)
EXTENDS ReconcileInvariant

MCBytes == {"a", "A", "u"}
MCReconciled == [b \in MCBytes |-> IF b = "a" THEN "A" ELSE b]

\* An editor may leave anything, or anything but the very bytes of a rewrite.
AnyBytes == MCBytes \cup {Absent}
OwnBytes == AnyBytes \ {"A"}
=============================================================================
