--------------------------- MODULE ReconcileRepair ---------------------------
(***************************************************************************)
(* The operator's part of a partial rollback (RECONCILE.md, "Partial        *)
(* rollback"): recovery named the destinations it left unresolved, the      *)
(* operator puts recorded bytes back by hand and reruns recovery.           *)
(***************************************************************************)
EXTENDS ReconcileTransaction

VARIABLE named   \* what the last incomplete recovery named; {} once anybody did
                 \* anything but put recorded bytes back into a named destination

rvars == <<vars, named>>

\* The step that prints the unresolved destinations of a recovery.
Named == At("classify") /\ Gone /\ report' = "incomplete"

PutBack ==
  /\ At("idle")
  /\ \A d \in Docs : Now(d)'.dest # Now(d).dest =>
       d \in named /\ Now(d)'.dest \in {held.img[d], Image(held, <<d, "after">>)}

RNext ==
  /\ Next
  /\ named' = IF Named THEN unresolved
              ELSE IF ByProcess \/ PutBack THEN named ELSE {}

RSpec == Init /\ named = {} /\ [][RNext]_rvars

\* A recovery that ends in an error although every read and write succeeded.
Refused ==
  /\ goal \in {"recover", "auto"} /\ pc \notin {"plan", "restoreJournal"}
  /\ Gone /\ report' = "failed"
  /\ spent' = spent

\* RECONCILE.md:288-290, "Restore each named destination to its recorded before or
\* after image, then rerun --recover. [...] that run performs the ordinary full
\* cleanup and exits 0".
RepairFinishes ==
  [][named # {} /\ (\A d \in named : Now(d).dest \in
                      {held.img[d], Image(held, <<d, "after">>)})
       => ~Refused]_rvars

\* Putting the before image back always lets recovery finish, also when the before
\* stage was consumed by an earlier recovery.
RepairFromBeforeFinishes ==
  [][named # {} /\ (\A d \in named : Now(d).dest = held.img[d]) => ~Refused]_rvars
=============================================================================
