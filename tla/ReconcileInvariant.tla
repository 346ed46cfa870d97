-------------------------- MODULE ReconcileInvariant --------------------------
(***************************************************************************)
(* The inductive invariant behind the safety of ReconcileTransaction.  It   *)
(* speaks of every image a power loss may leave, since RollbackAuthority    *)
(* after a power loss is a statement about what was on disk before it.      *)
(***************************************************************************)
EXTENDS ReconcileTransaction

\* An image of a destination put there by a transaction that is not decided.
Undecided(s) == s.by \notin {0, User} \cup decided

NoneUndecided(d) == \A s \in dir[d].disk : ~Undecided(s)

\* A journal, prepared or committed, of the batch in memory.
OfBatch(j) == j \notin {None, Foreign} /\ j.txn = held.txn /\ j.img = held.img

BeforeStage(d) == [txn |-> held.txn, data |-> held.img[d]]

\* What was authenticated and is about to be renamed is still authentic, or was damaged
\* or removed since; only tampering does that.
Trust ==
  /\ \A x \in Docs \X Roles : Trusted(x) =>
       \/ Authentic(held, x)
       \/ x[1] \in tainted /\ (Present(held, x) => Slot(x).data = Torn)
  /\ Untampered => tainted = {}

\* The process works on the batch it holds.
OnBatch ==
  /\ At("stage") \/ At("cleanup") => left \subseteq Images(held)
  /\ pc \in {"fingerprint", "checkAfter", "replace", "classify", "checkBefore", "restore"}
       => todo \subseteq Batch(held)
  /\ held.state = "committed" => held.txn \in decided

\* Every undecided image has its way back: the before image beside it, and the
\* journal in every image of the root.
WayBack ==
  \A d \in Docs : \A s \in dir[d].disk : Undecided(s) =>
    /\ s.by = held.txn /\ d \in Batch(held)
    /\ s.dest = Reconciled[held.img[d]]
    /\ s.before = BeforeStage(d)
    /\ \A r \in root.disk : OfBatch(r.journal)

\* Staging, and everything else that happens without a journal, finds no
\* destination in between.
Untouched ==
  pc \in {"stage", "unstage", "unpublish", "restoreJournal"}
    => \A d \in Docs : NoneUndecided(d)

\* Replacing starts from a durable journal and durable before images.
Armed ==
  /\ pc \in {"load", "fingerprint", "checkAfter", "replace", "reset"}
       => \A r \in root.disk : OfBatch(r.journal)
  /\ pc \in {"load", "fingerprint", "checkAfter", "replace"}
       => \A d \in Batch(held) : \A s \in dir[d].disk : s.before = BeforeStage(d)
  /\ At("stage")
       => \A d \in Batch(held) : <<d, "before">> \notin left
            => \A s \in dir[d].disk : s.before = BeforeStage(d)

\* Rollback leaves no after image behind it, and cleanup makes that durable
\* before the journal goes.
Settled ==
  /\ pc \in {"classify", "checkBefore", "restore"}
       => \A d \in Batch(held) \ todo : ~Undecided(Now(d))
  /\ At("cleanup")
       => \A d \in Batch(held) :
            /\ ~Undecided(Now(d))
            /\ <<d, "before">> \notin left => NoneUndecided(d)

Authority == WayBack /\ Untouched /\ Armed /\ Settled

IInv == TypeOK /\ OnBatch /\ Trust /\ (Untampered => Authority)
-----------------------------------------------------------------------------
(***************************************************************************)
(* What makes a success durable, and the journal the last to go: where      *)
(* every stage and every writer comes from.  None of it depends on nobody   *)
(* tampering, except what is said of the journal after a success.           *)
(***************************************************************************)

\* The journals reconcile can come to hold: the one in memory, and every one a
\* power loss may leave.
Known == {held} \cup ({r.journal : r \in root.disk} \ {None, Foreign})

\* The transactions whose stage x some image on disk still has.
Found(x) == {s[x[2]].txn : s \in {q \in dir[x[1]].disk : q[x[2]] # None}}

\* A batch has one journal, and every stage on disk belongs to the batch its
\* name was made for.
Lineage ==
  /\ \A j \in Known : j.txn <= spent.txns
  /\ \A i, j \in Known : i.txn = j.txn => i.img = j.img
  /\ \A x \in Docs \X Roles : \A t \in Found(x) :
       /\ t <= spent.txns
       /\ \A j \in Known : t = j.txn => x \in Images(j)

\* What cleanup has passed is gone from every image.
Cleaning == At("cleanup") => \A x \in Images(held) \ left : held.txn \notin Found(x)

\* Only a commit goes on to report success.
GoalKept ==
  /\ At("recover") => goal \in {"recover", "auto"}
  /\ pc \in {"classify", "checkBefore", "restore"} => goal # "commit"

Committing == At("cleanup") /\ goal = "commit"

\* No image of d has a stage of another batch.
OwnStages(d) == \A x \in {d} \X Roles : Found(x) \subseteq {held.txn}

\* A batch starts from a tree without stages; each stage it writes synchronizes
\* its directory, so the stages of earlier batches are gone from it for good.
Tidy ==
  /\ At("plan") => \A x \in Docs \X Roles : Slot(x) = None
  /\ At("stage") =>
       /\ \A x \in Docs \X Roles : Slot(x) # None => Slot(x).txn = held.txn
       /\ \A d \in Batch(held) : <<d, "before">> \notin left => OwnStages(d)
  /\ Committing \/ pc \in {"load", "fingerprint", "checkAfter", "replace"}
       => \A d \in Batch(held) : OwnStages(d)

\* The writers of a destination the batch has replaced.
Writers == {held.txn, User}

Written ==
  /\ pc \in {"fingerprint", "checkAfter", "replace"}
       => \A d \in Batch(held) \ todo : Now(d).by \in Writers
  /\ Committing =>
       \A d \in Batch(held) :
         /\ Now(d).by \in Writers
         /\ <<d, "before">> \notin left => \A s \in dir[d].disk : s.by \in Writers

\* Nothing is left of a batch whose success was reported.
Succeeded ==
  report = "success" =>
    /\ pc \in {"idle", "recover", "scan", "plan"}
    /\ \A r \in root.disk : r.journal = None \/ (r.journal = Foreign /\ ~Untampered)
    /\ \A d \in Batch(held) :
         /\ \A s \in dir[d].disk : s.by \in Writers
         /\ \A x \in {d} \X Roles : Found(x) = {}

Provenance ==
  TypeOK /\ OnBatch /\ Lineage /\ Cleaning /\ GoalKept /\ Tidy /\ Written /\ Succeeded

-----------------------------------------------------------------------------
(***************************************************************************)
(* The point of no return, and what a committed marker stands for.  Both    *)
(* hold of what recovery finds only if it finds the journal that was shown. *)
(***************************************************************************)

Faithful == ~revived

Real(j) == j \notin {None, Foreign}

\* An after image names its batch and needs no further rewrite, unless it was damaged
\* in the window before its rename.
Branded ==
  \A d \in Docs : \A s \in dir[d].disk : s.by \notin {0, User} =>
    /\ s.by <= spent.txns
    /\ \/ d \in tainted /\ s.dest = Torn
       \/ s.dest \in Bytes /\ Reconciled[s.dest] = s.dest
    /\ \A j \in Known : s.by = j.txn =>
         d \in Batch(j) /\ s.dest \in {Torn, Reconciled[j.img[d]]}

Rest == {"idle", "recover", "scan", "plan"}

\* Batches count from one, and nothing is undone once the marker was held.
Numbered ==
  /\ \A t \in decided : t # 0 /\ t <= spent.txns
  /\ \A r \in root.disk : Real(r.journal) => r.journal.txn # 0
  /\ pc \notin Rest => held.txn # 0
  /\ pc \notin Rest \cup {"cleanup", "restoreJournal"} => held.state = "prepared"

\* The journal that is shown is the one of the batch in memory.
Shown ==
  /\ Real(journal) => OfBatch(journal)
  /\ held.state = "prepared" => held.txn \notin decided
  /\ held.state = "committed" /\ Real(journal) => journal.state = "committed"
  /\ pc \in {"stage", "unstage", "unpublish", "load", "fingerprint", "checkAfter", "replace",
             "abort", "classify", "checkBefore", "restore"}
       => journal \in {None, Foreign, held}

\* Every image of d was put there by one of W.
By(d, W) == \A s \in dir[d].disk : s.by \in W

\* A batch is planned over documents no earlier batch has written since, and
\* makes that durable before its journal is shown.
Fresh ==
  /\ At("stage") => \A d \in Batch(held) :
       /\ Now(d).by \in {0, User}
       /\ <<d, "before">> \notin left => By(d, {0, User})
  /\ Real(journal) \/ pc \notin Rest \cup {"stage", "unstage"}
       => \A d \in Batch(held) : By(d, {0, User, held.txn})

\* The batch is marked, or may be: what a committed marker rests on.
Marked == \/ At("reset") \/ held.state = "committed"
          \/ Real(journal) /\ journal.state = "committed"

\* What the batch has passed is replaced for good.
Rewritten ==
  pc \in {"fingerprint", "checkAfter", "replace"}
    => \A d \in Batch(held) \ todo : By(d, Writers)

Whole ==
  /\ Marked => \A d \in Batch(held) : By(d, Writers)
  /\ \A d \in Docs : Now(d).by \in decided => \A s \in dir[d].disk : s.by # 0

Decision == Shown /\ Fresh /\ Whole

DInv == /\ TypeOK /\ OnBatch /\ Trust /\ Lineage /\ Branded /\ Numbered /\ Rewritten
        /\ Faithful => Decision

-----------------------------------------------------------------------------
(***************************************************************************)
(* Why a marker whose write returned is final, whatever a power loss brings *)
(* back: no rollback is ever armed against what a sealed batch wrote.       *)
(***************************************************************************)

\* No image of d was put there by a sealed transaction.
Unsealed(d) == \A s \in dir[d].disk : s.by \notin sealed

Prepared(j) == Real(j) /\ j.state = "prepared"

Sealing ==
  /\ sealed \subseteq decided
  /\ \A j \in Known : Prepared(j) => j.txn \notin sealed
  /\ \A r \in root.disk : Prepared(r.journal) => \A d \in Batch(r.journal) : Unsealed(d)
  /\ At("stage") => \A d \in Batch(held) :
       /\ Now(d).by \notin sealed
       /\ <<d, "before">> \notin left => Unsealed(d)
  /\ pc \notin Rest \cup {"stage", "unstage"} /\ Prepared(held)
       => \A d \in Batch(held) : Unsealed(d)
  /\ \A d \in Docs : Now(d).by \in sealed => \A s \in dir[d].disk : s.by # 0
-----------------------------------------------------------------------------
(***************************************************************************)
(* What the refinement of AtomicBatch needs besides.  It is claimed of an   *)
(* undisturbed tree: power loss takes back edits, a repair by hand accepts  *)
(* part of a batch, and an edit that lands in the window between reading    *)
(* and renaming, or that happens to write the very bytes of a rewrite, is   *)
(* taken for reconcile's own.                                               *)
(***************************************************************************)

Undisturbed ==
  /\ ~WindowEdits
  /\ MaxOutages = 0 /\ MaxTampers = 0 /\ MaxRepairs = 0
  /\ \A b \in Bytes : Reconciled[b] # b => Reconciled[b] \notin EditBytes

Bounded ==
  /\ \A k \in Events : spent[k] <= Budget(k)
  /\ revived => spent.outages # 0

\* Only the batch itself puts its after images in place.
Distinct ==
  held.txn \notin decided =>
    \A d \in Batch(held) :
      /\ Reconciled[held.img[d]] # held.img[d]
      /\ Now(d).by \in {0, User} => Now(d).dest # Reconciled[held.img[d]]
-----------------------------------------------------------------------------
(***************************************************************************)
(* What a rollback knows of the edits around it: when it removes the        *)
(* evidence (EvidenceOutlivesDoubt), and when it gives up for good          *)
(* (IncompleteIsIdempotent).                                                *)
(***************************************************************************)

\* No transaction's after image is, or was edited, at d.
Spared(d) == d \notin overlaid /\ Now(d).by \in {0, User}

Rolling == {"classify", "checkBefore", "restore"}

\* Until its rename is tried a destination of the batch is spared; from then on it
\* is a candidate.
Suspected ==
  /\ pc \in {"stage", "unpublish", "load"} => \A d \in Batch(held) : Spared(d)
  /\ pc \in Rolling \cup {"fingerprint", "checkAfter", "replace", "reset", "abort"}
       => \A d \in Batch(held) \ candidates : Spared(d)

\* An edit over an after image that the rollback has passed, and none has followed.
Seen(d) == d \in overlaid \ (dirty \cup tainted)

\* The rollback has passed no such edit but those it counts as unresolved, and
\* it goes on to clean up only when there are none.
Accounted ==
  /\ pc \in Rolling =>
       \A d \in Batch(held) \ todo : Seen(d) =>
         Now(d).dest = held.img[d] \/ d \in unresolved
  /\ At("cleanup") /\ held.state = "prepared" =>
       \A d \in Batch(held) : Seen(d) => Now(d).dest = held.img[d]

Doubts == TypeOK /\ OnBatch /\ Trust /\ Lineage /\ Branded /\ Suspected /\ Accounted

\* Every batch rewrites every destination it has.
Planned == \A j \in Known : \A d \in Batch(j) : Reconciled[j.img[d]] # j.img[d]

\* d holds neither recorded image of j.
Foreigner(j, d) == Now(d).dest \notin {j.img[d], Reconciled[j.img[d]]}

\* A recovery works on the prepared journal it read, counts every destination as
\* a candidate, and leaves no after image behind it.
Recovering ==
  /\ unresolved \subseteq Batch(held) \ todo
  /\ pc \notin Rolling => unresolved = {}
  /\ pc \in Rolling /\ goal # "abort" =>
       /\ journal \in {held, None, Foreign}
       /\ held.state = "prepared" /\ candidates = Docs
       /\ \A d \in Batch(held) \ (todo \cup dirty) : Now(d).dest # Reconciled[held.img[d]]
       /\ \A d \in unresolved \ dirty : Foreigner(held, d)

\* Orphans are looked for only once no journal is there to account for them.
Cleared == At("scan") => journal \in {None, Foreign}

\* Nothing is left of j for a rollback to restore, and something it cannot place.
Stuck(j) ==
  /\ j.state = "prepared"
  /\ \A d \in Batch(j) : Now(d).dest # Reconciled[j.img[d]]
  /\ \E d \in Batch(j) : Foreigner(j, d)

\* After an incomplete recovery there is no journal to act on, or one that every
\* later run is stuck with as well.
GivenUp ==
  report = "incomplete" =>
    \/ journal \in {None, Foreign} /\ pc \in Rest
    \/ /\ Real(journal) /\ Stuck(journal)
       /\ pc \in {"idle", "recover", "classify"}
       /\ At("classify") =>
            /\ held = journal /\ candidates = Docs
            /\ \A d \in Batch(held) : Foreigner(held, d) => d \in todo \cup unresolved

Impasse == TypeOK /\ OnBatch /\ Trust /\ Planned /\ Recovering /\ Cleared /\ GivenUp

=============================================================================
