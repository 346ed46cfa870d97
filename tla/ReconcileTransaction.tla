---------------------------- MODULE ReconcileTransaction ----------------------------
(***************************************************************************)
(* The durable whole-batch transaction of `doc-lattice reconcile`:          *)
(* reconcile_transaction.py over the primitives of persistence.py, driven   *)
(* by cli/commands/reconcile.py (AD-5).                                     *)
(*                                                                         *)
(* One process at a time runs (it holds the advisory lock of the project    *)
(* root).  It stages a before and an after image beside each destination,   *)
(* publishes a prepared journal, replaces the destinations one by one,      *)
(* turns the journal into the committed marker, and removes the stages and  *)
(* then the journal.  Any failed I/O call aborts and rolls back; a crash or *)
(* a power loss leaves the files as they are and the next run recovers.     *)
(*                                                                         *)
(* A directory is [now, disk]: what its names show, and the set of images   *)
(* a power loss may leave.  A rename or unlink adds an image to `disk`;     *)
(* fsync of the directory reduces `disk` to what is shown.  Every           *)
(* destination has a directory of its own, so that no fsync covers more     *)
(* than the code asked for.                                                 *)
(***************************************************************************)
EXTENDS Naturals, FiniteSets

CONSTANTS
  N,               \* destinations 1..N, in the order of the batch's entries
  Bytes,           \* document contents
  Reconciled,      \* [Bytes -> Bytes]: the rewrite that acknowledges drift
  Absent,          \* content of a destination that no longer exists
  Torn,            \* bytes of a partial or substituted stage
  None,            \* no such file
  Foreign,         \* a journal path holding bytes reconcile did not write
  User,            \* the writer of an edit made outside reconcile
  EditBytes,       \* contents that edits made outside reconcile may leave
  WindowEdits,     \* may an edit land between a fingerprint and its rename?
  MaxTxns, MaxFaults, MaxCrashes, MaxOutages, MaxEdits, MaxTampers, MaxRepairs

ASSUME NAssumption == N \in Nat \ {0}
ASSUME BytesAssumption ==
  /\ Reconciled \in [Bytes -> Bytes]
  /\ \A b \in Bytes : Reconciled[Reconciled[b]] = Reconciled[b]
  /\ Absent \notin Bytes /\ Torn \notin Bytes /\ None \notin Bytes
  /\ Absent # Torn
  /\ EditBytes \subseteq Bytes \cup {Absent}
ASSUME WriterAssumption == User \notin Nat
ASSUME BoundsAssumption ==
  /\ WindowEdits \in BOOLEAN
  /\ \A k \in {MaxTxns, MaxFaults, MaxCrashes, MaxOutages, MaxEdits,
               MaxTampers, MaxRepairs} : k \in Nat

Docs == 1..N
Roles == {"before", "after"}

VARIABLES
  dir,       \* dir[d]: the directory of destination d
  root,      \* the project root, which holds the journal and its helper stages
  pc,        \* where the reconcile process stands; "idle" when none runs
  goal,      \* what the process is about
  todo,      \* destinations still to fingerprint, replace or classify
  left,      \* stages still to write or to clean
  candidates,\* destinations the process may have replaced
  unresolved,\* destinations rollback found in neither recorded state
  held,      \* the journal record the process has in memory (kept as the name
             \* of the last batch once the process is gone)
  report,    \* how the last process ended
  decided,   \* history: transactions past the point of no return
  dirty,     \* history: destinations edited since reconcile last read them
  overlaid,  \* history: destinations edited over an after image that was not
             \* past the point of no return
  sealed,    \* history: transactions whose committed marker was written for good
  tainted,   \* history: destinations one of whose stages was damaged or removed
             \* between its authentication and its rename
  revived,   \* history: has a power loss brought back a journal that was not the
             \* one shown?
  spent      \* the bounded events that already happened

work == <<goal, todo, left, candidates, unresolved>>
marks == <<sealed, tainted, revived>>
vars == <<dir, root, pc, goal, todo, left, candidates, unresolved, held, report,
          decided, dirty, overlaid, spent, marks>>

(***************************************************************************)
(* Files.                                                                   *)
(***************************************************************************)
Contents == Bytes \cup {Absent, Torn}
Stages   == [txn : Nat, data : Bytes \cup {Torn}]
DocImages == [dest : Contents, by : Nat \cup {User},
              before : Stages \cup {None}, after : Stages \cup {None}]
Journals == [txn : Nat, state : {"prepared", "committed"},
             img : [Docs -> Bytes \cup {None}]]
RootImages == [journal : Journals \cup {None, Foreign}, helpers : Nat]

\* What is shown would survive, if nothing more happened and power stayed on.
Directories(S) == {D \in [now : S, disk : SUBSET S] : D.now \in D.disk}

ASSUME FilesAssumption ==
  /\ None \notin Stages
  /\ None \notin Journals /\ Foreign \notin Journals /\ None # Foreign

Now(d)  == dir[d].now
journal == root.now.journal

\* A name operation that is synchronized, and one whose fsync raised.
Durable(img)   == [now |-> img, disk |-> {img}]
Unsynced(D, img) == [now |-> img, disk |-> D.disk \cup {img}]

\* Outcomes of one rename or unlink that would show img: done and synchronized,
\* refused, or done with a failed fsync.
Primitive(D, img) ==
  { [ok |-> TRUE,  dir |-> Durable(img)],
    [ok |-> FALSE, dir |-> D],
    [ok |-> FALSE, dir |-> Unsynced(D, img)] }

WithHelper(img) == [img EXCEPT !.helpers = @ + 1]

\* (wrong: the link is not synchronized)
AtomicCreateUnsynced(j) ==
  {[ok |-> journal = None,
    dir |-> IF journal # None THEN root
            ELSE Unsynced(root, [root.now EXCEPT !.journal = j])]}

\* atomic_create_bytes: stage a helper, link it to the journal's name, fsync,
\* unlink the helper.  It never replaces an existing journal, and it can raise
\* although the journal is published.
AtomicCreate(j) ==
  LET linked == [root.now EXCEPT !.journal = j]
      failed == {root, Unsynced(root, WithHelper(root.now))}
      published == {Unsynced(root, linked), Unsynced(root, WithHelper(linked)),
                    Durable(linked), Durable(WithHelper(linked))}
  IN  IF journal # None
      THEN {[ok |-> FALSE, dir |-> D] : D \in failed}
      ELSE {[ok |-> TRUE, dir |-> Durable(linked)]}
             \cup {[ok |-> FALSE, dir |-> D] : D \in failed \cup published}

\* (wrong: the rename is not synchronized)
AtomicReplaceUnsynced(j) ==
  {[ok |-> TRUE, dir |-> Unsynced(root, [root.now EXCEPT !.journal = j])]}

\* atomic_replace_bytes: stage a helper, rename it over the journal, fsync.
AtomicReplace(j) ==
  LET renamed == [root.now EXCEPT !.journal = j]
  IN  Primitive(root, renamed)
        \cup {[ok |-> FALSE, dir |-> Unsynced(root, WithHelper(root.now))]}

(***************************************************************************)
(* Journal entries.                                                         *)
(***************************************************************************)
Batch(j)  == {d \in Docs : j.img[d] # None}
Images(j) == Batch(j) \X Roles
Image(j, x) == IF x[2] = "before" THEN j.img[x[1]] ELSE Reconciled[j.img[x[1]]]
Slot(x) == IF x[2] = "before" THEN Now(x[1]).before ELSE Now(x[1]).after
With(x, s) == [dest |-> Now(x[1]).dest, by |-> Now(x[1]).by,
               before |-> IF x[2] = "before" THEN s ELSE Now(x[1]).before,
               after |-> IF x[2] = "after" THEN s ELSE Now(x[1]).after]

\* d holds what a transaction that is not past the point of no return put there.
Applied(d) == Now(d).by \notin {0, User} \cup decided

\* A stage is found under the name the journal recorded only if that very
\* transaction staged it: mkstemp never reuses a name.
Present(j, x)   == Slot(x) # None /\ Slot(x).txn = j.txn
Authentic(j, x) == Present(j, x) /\ Slot(x).data = Image(j, x)
\* (wrong: a stage consumed or cleaned earlier is missed)
AllPresent(j) == \A x \in Images(j) : Authentic(j, x)
AllAuthentic(j) == \A x \in Images(j) : Present(j, x) => Authentic(j, x)

\* The order of entries; within an entry the before image comes first.
First(d, S) == d \in S /\ \A e \in S : d <= e
Last(d, S)  == d \in S /\ \A e \in S : e <= d
FirstImage(x, S) ==
  /\ x \in S
  /\ \A y \in S : x[1] < y[1] \/ (x[1] = y[1] /\ (x[2] = "before" \/ y = x))

\* Everything the orphan scan reports once no journal accounts for it.
Orphans == root.now.helpers > 0 \/ \E x \in Docs \X Roles : Slot(x) # None

(***************************************************************************)
(* The process.                                                             *)
(***************************************************************************)
Pcs == {"idle", "recover", "scan", "plan", "stage", "unstage", "unpublish",
        "load", "fingerprint", "checkAfter", "replace", "reset", "abort", "classify",
        "checkBefore", "restore", "cleanup", "restoreJournal"}
Goals == {"none", "recover", "auto", "unpublish", "commit", "abort"}
Reports == {"none", "success", "aborted", "recovered", "incomplete", "failed"}

At(p)   == pc = p
Goto(p) == pc' = p /\ UNCHANGED work

\* No process: a command ended, crashed or lost power.
Gone == /\ pc' = "idle" /\ goal' = "none"
        /\ todo' = {} /\ left' = {} /\ candidates' = {} /\ unresolved' = {}
Exit(r) == Gone /\ report' = r

\* Roll back every destination of the batch; remove every stage of it.
StartRollback(j, g, C) ==
  /\ pc' = "classify" /\ goal' = g /\ todo' = Batch(j) /\ candidates' = C
  /\ UNCHANGED <<left, unresolved>>
StartCleanup(j, g) ==
  /\ pc' = "cleanup" /\ goal' = g /\ left' = Images(j)
  /\ UNCHANGED <<todo, candidates, unresolved>>

\* Bounded events.
Budget(k) == CASE k = "txns" -> MaxTxns      [] k = "faults" -> MaxFaults
               [] k = "crashes" -> MaxCrashes [] k = "outages" -> MaxOutages
               [] k = "edits" -> MaxEdits     [] k = "tampers" -> MaxTampers
               [] k = "repairs" -> MaxRepairs
Events == {"txns", "faults", "crashes", "outages", "edits", "tampers", "repairs"}
Spend(k) == spent[k] < Budget(k) /\ spent' = [spent EXCEPT ![k] = @ + 1]
Faulty(ok) == IF ok THEN UNCHANGED spent ELSE Spend("faults")

-----------------------------------------------------------------------------
(***************************************************************************)
(* Taking the lock, and recovery.                                           *)
(***************************************************************************)

\* `reconcile` (auto) and `reconcile --recover` both take the lock and recover
\* before anything else.  A competing invocation is refused by flock.
Begin(g) ==
  /\ At("idle")
  /\ pc' = "recover" /\ goal' = g
  /\ UNCHANGED <<todo, left, candidates, unresolved>>
  /\ UNCHANGED <<dir, root, held, report, decided, dirty, overlaid, marks, spent>>

RecoverNothing ==
  /\ At("recover") /\ journal = None
  /\ Goto("scan")
  /\ UNCHANGED <<dir, root, held, report, decided, dirty, overlaid, marks, spent>>

\* An invalid journal or an unauthenticated stage stops recovery before it
\* changes anything.
RecoverRefused ==
  /\ At("recover") /\ journal # None
  /\ journal # Foreign => ~AllAuthentic(journal)
  /\ Exit("failed")
  /\ UNCHANGED <<dir, root, held, decided, dirty, overlaid, marks, spent>>

RecoverPrepared ==
  /\ At("recover") /\ journal \notin {None, Foreign}
  /\ journal.state = "prepared" /\ AllAuthentic(journal)
  /\ held' = journal
  /\ StartRollback(journal, goal, Docs)
  /\ UNCHANGED <<dir, root, report, decided, dirty, overlaid, marks, spent>>

RecoverCommitted ==
  /\ At("recover") /\ journal \notin {None, Foreign}
  /\ journal.state = "committed" /\ AllAuthentic(journal)
  /\ held' = journal
  /\ decided' = decided \cup {journal.txn}
  /\ StartCleanup(journal, goal)
  /\ UNCHANGED <<dir, root, report, dirty, overlaid, marks, spent>>

\* Orphans are reported, never deleted; a real run goes on to plan only from a
\* tree without them.
Scan ==
  /\ At("scan")
  /\ \/ Orphans /\ Exit("incomplete")
     \/ ~Orphans /\ goal = "recover" /\ Exit("recovered")
     \/ /\ ~Orphans /\ goal = "auto"
        /\ pc' = "plan" /\ goal' = "commit"
        /\ UNCHANGED <<todo, left, candidates, unresolved, report>>
  /\ UNCHANGED <<dir, root, held, decided, dirty, overlaid, marks, spent>>

(***************************************************************************)
(* Preparation.                                                             *)
(***************************************************************************)

\* The fresh read of every selected drifted document fixes the before bytes.
Plan(S) ==
  /\ At("plan") /\ journal = None
  /\ S # {}
  /\ \A d \in S : Now(d).dest \in Bytes /\ Reconciled[Now(d).dest] # Now(d).dest
  /\ Spend("txns")
  /\ held' = [txn |-> spent.txns + 1, state |-> "prepared",
              img |-> [d \in Docs |-> IF d \in S THEN Now(d).dest ELSE None]]
  /\ pc' = "stage" /\ left' = S \X Roles
  /\ UNCHANGED <<goal, todo, candidates, unresolved>>
  /\ dirty' = dirty \ S
  /\ overlaid' = overlaid \ S
  /\ report' = "none"
  /\ UNCHANGED <<dir, root, decided, marks>>

PlanNothing ==
  /\ At("plan")
  /\ Exit(IF journal = None THEN "none" ELSE "failed")
  /\ UNCHANGED <<dir, root, held, decided, dirty, overlaid, marks, spent>>

\* stage_bytes: on failure its own cleanup may fail too and leave a torn file
\* that this run does not count among its stages.
Stage(x) ==
  LET staged(b) == With(x, [txn |-> held.txn, data |-> b])
  IN
  /\ At("stage") /\ FirstImage(x, left)
  /\ \/ /\ dir' = [dir EXCEPT ![x[1]] = Durable(staged(Image(held, x)))]
        /\ left' = left \ {x}
        /\ UNCHANGED <<pc, spent>>
     \/ /\ \E D \in {dir[x[1]], Unsynced(dir[x[1]], staged(Torn))} :
             dir' = [dir EXCEPT ![x[1]] = D]
        /\ pc' = "unstage" /\ left' = Images(held) \ left
        /\ Spend("faults")
  /\ UNCHANGED <<root, goal, todo, candidates, unresolved, held, report, decided,
                 dirty, overlaid, marks>>

Publish ==
  /\ At("stage") /\ left = {}
  /\ \E o \in AtomicCreate(held) :
       /\ root' = o.dir
       /\ Faulty(o.ok \/ journal # None)
       /\ pc' = IF journal # None THEN "unstage"
                ELSE IF o.ok THEN "load" ELSE "unpublish"
  /\ left' = IF journal # None THEN Images(held) ELSE left
  /\ UNCHANGED <<dir, goal, todo, candidates, unresolved, held, report, decided, dirty,
                 overlaid, marks>>

\* A failed publication that nevertheless left the exact journal is cleaned as a
\* transaction; otherwise, or if the journal cannot be read, only the stages go.
Unpublish ==
  /\ At("unpublish")
  /\ \/ /\ journal = held
        /\ IF AllAuthentic(held)
           THEN StartCleanup(held, "unpublish") /\ UNCHANGED report
           ELSE Exit("failed")
        /\ UNCHANGED spent
     \/ /\ pc' = "unstage" /\ left' = Images(held)
        /\ Faulty(journal # held)
        /\ UNCHANGED <<goal, todo, candidates, unresolved, report>>
  /\ UNCHANGED <<dir, root, held, decided, dirty, overlaid, marks>>

\* Cleanup of unpublished stages notes a failure and goes on.
Unstage(x) ==
  /\ At("unstage") /\ FirstImage(x, left)
  /\ \E o \in Primitive(dir[x[1]], With(x, None)) :
       dir' = [dir EXCEPT ![x[1]] = o.dir] /\ Faulty(o.ok)
  /\ left' = left \ {x}
  /\ UNCHANGED <<root, pc, goal, todo, candidates, unresolved, held, report, decided,
                 dirty, overlaid, marks>>

Unstaged ==
  /\ At("unstage") /\ left = {}
  /\ Exit("failed")
  /\ UNCHANGED <<dir, root, held, decided, dirty, overlaid, marks, spent>>

\* The published journal is read back; applying it starts without candidates.
Load ==
  /\ At("load")
  /\ IF journal = held
     THEN /\ pc' = "fingerprint" /\ todo' = Batch(held) /\ candidates' = {}
          /\ UNCHANGED <<goal, left, unresolved, report>>
     ELSE Exit("failed")
  /\ UNCHANGED <<dir, root, held, decided, dirty, overlaid, marks, spent>>

(***************************************************************************)
(* Applying the batch and marking it committed.                             *)
(***************************************************************************)

\* (wrong: the destination is read but not compared)
FingerprintBlind(d) ==
  /\ At("fingerprint") /\ First(d, todo)
  /\ dirty' = dirty \ {d}
  /\ Goto("checkAfter")
  /\ UNCHANGED <<dir, root, held, report, decided, overlaid, marks, spent>>

\* The destination must still hold the before bytes, or the batch aborts; so it
\* does when the destination cannot be read.
Fingerprint(d) ==
  /\ At("fingerprint") /\ First(d, todo)
  /\ dirty' = dirty \ {d}
  /\ \/ /\ Goto(IF Now(d).dest = held.img[d] THEN "checkAfter" ELSE "abort")
        /\ UNCHANGED spent
     \/ Goto("abort") /\ Spend("faults")
  /\ UNCHANGED <<dir, root, held, report, decided, overlaid, marks>>

\* (wrong: the stage is only looked for)
AuthenticateByName(d) ==
  /\ At("checkAfter") /\ First(d, todo)
  /\ Present(held, <<d, "after">>)
  /\ Goto("replace")
  /\ UNCHANGED <<dir, root, held, report, decided, dirty, overlaid, marks, spent>>

\* The stage is read and compared with the journal before the destination counts as
\* possibly applied; the rename is a later call.
Authenticate(d) ==
  /\ At("checkAfter") /\ First(d, todo)
  /\ Authentic(held, <<d, "after">>)
  /\ Goto("replace")
  /\ UNCHANGED <<dir, root, held, report, decided, dirty, overlaid, marks, spent>>

\* The after stage renamed over the destination.
Replaced(d) == [dest |-> Now(d).after.data, by |-> held.txn,
                before |-> Now(d).before, after |-> None]

\* Outcomes of the rename of a stage, which somebody may have removed.
Renamed(d, x, img) ==
  IF Present(held, x) THEN Primitive(dir[d], img) ELSE {[ok |-> FALSE, dir |-> dir[d]]}

\* A rename fails by itself, or because its stage is gone.
Failed(x, ok) == Faulty(ok \/ ~Present(held, x))

\* (wrong: the destination becomes a candidate only when the rename succeeded)
ReplaceThenCandidate(d) ==
  /\ At("replace") /\ First(d, todo)
  /\ \E o \in Renamed(d, <<d, "after">>, Replaced(d)) :
       /\ dir' = [dir EXCEPT ![d] = o.dir]
       /\ Failed(<<d, "after">>, o.ok)
       /\ pc' = IF o.ok THEN "fingerprint" ELSE "abort"
       /\ candidates' = IF o.ok THEN candidates \cup {d} ELSE candidates
  /\ todo' = todo \ {d}
  /\ UNCHANGED <<root, goal, left, unresolved, held, report, decided, dirty, overlaid, marks>>

\* The destination counts as possibly applied before the rename is tried.
Replace(d) ==
  /\ At("replace") /\ First(d, todo)
  /\ \E o \in Renamed(d, <<d, "after">>, Replaced(d)) :
       /\ dir' = [dir EXCEPT ![d] = o.dir]
       /\ Failed(<<d, "after">>, o.ok)
       /\ pc' = IF o.ok THEN "fingerprint" ELSE "abort"
  /\ todo' = todo \ {d} /\ candidates' = candidates \cup {d}
  /\ UNCHANGED <<root, goal, left, unresolved, held, report, decided, dirty, overlaid, marks>>

\* A missing, corrupt or unreadable after image aborts without authenticating the
\* others.
ReplaceRefused(d) ==
  /\ At("checkAfter") /\ First(d, todo)
  /\ Faulty(~Authentic(held, <<d, "after">>))
  /\ StartRollback(held, "abort", candidates)
  /\ UNCHANGED <<dir, root, held, report, decided, dirty, overlaid, marks>>

Committed(j) == [j EXCEPT !.state = "committed"]

\* (wrong: the marker is written while destinations are left to replace)
MarkEarly ==
  /\ At("fingerprint") /\ candidates # {}
  /\ root' = Durable([root.now EXCEPT !.journal = Committed(held)])
  /\ held' = Committed(held)
  /\ decided' = decided \cup {held.txn} /\ sealed' = sealed \cup {held.txn}
  /\ StartCleanup(held, goal)
  /\ UNCHANGED <<dir, report, dirty, overlaid, tainted, revived, spent>>

\* The durable marker is the point of no return; cleanup begins by authenticating
\* every stage.
Mark ==
  /\ At("fingerprint") /\ todo = {}
  /\ \E o \in AtomicReplace(Committed(held)) :
       /\ root' = o.dir
       /\ Faulty(o.ok)
       /\ \/ /\ o.ok
             /\ held' = Committed(held)
             /\ decided' = decided \cup {held.txn} /\ sealed' = sealed \cup {held.txn}
             /\ IF AllAuthentic(held)
                THEN StartCleanup(held, goal) /\ UNCHANGED report
                ELSE Exit("failed")
          \/ /\ ~o.ok
             /\ Goto("reset")
             /\ UNCHANGED <<held, report, decided, sealed>>
  /\ UNCHANGED <<dir, dirty, overlaid, tainted, revived>>

\* (wrong: rolls back whatever journal is on disk)
ResetSkipped ==
  /\ At("reset")
  /\ Goto("abort")
  /\ UNCHANGED <<dir, root, held, report, decided, dirty, overlaid, marks, spent>>

\* After a failed marker nothing is rolled back until the prepared journal is
\* the one on disk again.
Reset ==
  /\ At("reset")
  /\ \/ /\ journal = held
        /\ Goto("abort")
        /\ UNCHANGED <<root, report, spent>>
     \/ \E o \in CASE journal = Committed(held) -> AtomicReplace(held)
                   [] journal = None            -> AtomicCreate(held)
                   [] OTHER                     -> {} :
          /\ root' = o.dir
          /\ Faulty(o.ok)
          /\ IF o.ok THEN Goto("abort") /\ UNCHANGED report ELSE Exit("failed")
     \/ /\ journal \notin {held, Committed(held), None}
        /\ Exit("failed")
        /\ UNCHANGED <<root, spent>>
  /\ UNCHANGED <<dir, held, decided, dirty, overlaid, marks>>

(***************************************************************************)
(* Rollback, for an abort and for recovery alike.                           *)
(***************************************************************************)

Abort ==
  /\ At("abort")
  /\ IF AllAuthentic(held)
     THEN StartRollback(held, "abort", candidates) /\ UNCHANGED report
     ELSE Exit("failed")
  /\ UNCHANGED <<dir, root, held, decided, dirty, overlaid, marks, spent>>

\* (wrong: whatever is not the before image is taken for the after image)
ClassifyEager(d) ==
  /\ At("classify") /\ Last(d, todo)
  /\ dirty' = dirty \ {d}
  /\ IF Now(d).dest = held.img[d]
     THEN todo' = todo \ {d} /\ UNCHANGED pc
     ELSE pc' = "checkBefore" /\ UNCHANGED todo
  /\ UNCHANGED <<dir, root, goal, left, candidates, unresolved, held, report, decided,
                 overlaid, marks, spent>>

\* Reverse order.  An after image is restored, a before image needs nothing, and
\* anything else is left alone: unresolved if the batch may have applied it.
Classify(d) ==
  LET isAfter  == Now(d).dest = Image(held, <<d, "after">>)
      isBefore == Now(d).dest = held.img[d]
  IN
  /\ At("classify") /\ Last(d, todo)
  /\ dirty' = dirty \ {d}
  /\ pc' = IF isAfter THEN "checkBefore" ELSE pc
  /\ todo' = IF isAfter THEN todo ELSE todo \ {d}
  /\ unresolved' = IF ~isAfter /\ ~isBefore /\ d \in candidates
                   THEN unresolved \cup {d} ELSE unresolved
  /\ UNCHANGED <<dir, root, goal, left, candidates, held, report, decided, overlaid,
                 marks, spent>>

\* The before stage is authenticated, and renamed by a later call.
AuthenticateBefore(d) ==
  /\ At("checkBefore") /\ Last(d, todo)
  /\ Authentic(held, <<d, "before">>)
  /\ Goto("restore")
  /\ UNCHANGED <<dir, root, held, report, decided, dirty, overlaid, marks, spent>>

RestoreRefused(d) ==
  /\ At("checkBefore") /\ Last(d, todo)
  /\ ~Authentic(held, <<d, "before">>)
  /\ Exit("failed")
  /\ UNCHANGED <<dir, root, held, decided, dirty, overlaid, marks, spent>>

\* The before stage renamed over the destination.
Restored(d) == [dest |-> Now(d).before.data, by |-> 0,
                before |-> None, after |-> Now(d).after]

\* (wrong: a destination that cannot be restored is reported as unresolved)
RestoreOrReport(d) ==
  /\ At("restore") /\ Last(d, todo)
  /\ \E o \in Renamed(d, <<d, "before">>, Restored(d)) :
       /\ dir' = [dir EXCEPT ![d] = o.dir]
       /\ Failed(<<d, "before">>, o.ok)
       /\ unresolved' = IF o.ok THEN unresolved ELSE unresolved \cup {d}
  /\ pc' = "classify" /\ todo' = todo \ {d}
  /\ UNCHANGED <<root, goal, left, candidates, held, report, decided, dirty, overlaid, marks>>

\* A rename that raised ends the rollback where it stands.
Restore(d) ==
  /\ At("restore") /\ Last(d, todo)
  /\ \E o \in Renamed(d, <<d, "before">>, Restored(d)) :
       /\ dir' = [dir EXCEPT ![d] = o.dir]
       /\ Failed(<<d, "before">>, o.ok)
       /\ IF o.ok
          THEN /\ pc' = "classify" /\ todo' = todo \ {d}
               /\ UNCHANGED <<goal, left, candidates, unresolved, report>>
          ELSE Exit("failed")
  /\ UNCHANGED <<root, held, decided, dirty, overlaid, marks>>

\* The report of a recovery that left destinations unresolved; one that an edit
\* overtook after reconcile read the destination describes nothing.
Unresolved == IF goal = "abort" THEN "failed"
              ELSE IF dirty \cap Batch(held) = {} THEN "incomplete" ELSE "none"

\* A rollback that could not account for a destination deletes nothing.
Settle ==
  /\ At("classify") /\ todo = {}
  /\ \/ /\ unresolved # {}
        /\ Exit(Unresolved)
     \/ /\ unresolved = {} /\ AllAuthentic(held)
        /\ StartCleanup(held, goal)
        /\ UNCHANGED report
     \/ /\ unresolved = {} /\ ~AllAuthentic(held)
        /\ Exit("failed")
  /\ UNCHANGED <<dir, root, held, decided, dirty, overlaid, marks, spent>>

(***************************************************************************)
(* Cleanup: every stage in entry order, then the journal.                   *)
(***************************************************************************)

Cleaned(x) == left' = left \ {x} /\ UNCHANGED <<pc, goal, todo, candidates, unresolved>>

\* (wrong: nothing is done for a stage that is gone already)
CleanStageLazily(x) ==
  LET d == x[1] IN
  /\ At("cleanup") /\ FirstImage(x, left)
  /\ \E o \in IF Present(held, x) THEN Primitive(dir[d], With(x, None))
             ELSE {[ok |-> TRUE, dir |-> dir[d]]} :
       /\ dir' = [dir EXCEPT ![d] = o.dir]
       /\ Faulty(o.ok)
       /\ IF o.ok
          THEN Cleaned(x) /\ UNCHANGED report
          ELSE Exit("failed")
  /\ UNCHANGED <<root, held, decided, dirty, overlaid, marks>>

\* (wrong: a stage that is gone already is an error)
CleanStageStrictly(x) ==
  LET d == x[1] IN
  /\ At("cleanup") /\ FirstImage(x, left)
  /\ IF Present(held, x)
     THEN /\ dir' = [dir EXCEPT ![d] = Durable(With(x, None))]
          /\ Cleaned(x) /\ UNCHANGED report
     ELSE Exit("failed") /\ UNCHANGED dir
  /\ UNCHANGED <<root, held, decided, dirty, overlaid, marks, spent>>

\* An absent stage still has its directory synchronized.
CleanStage(x) ==
  LET d == x[1]
      cleaned == IF Present(held, x) THEN With(x, None) ELSE Now(d)
  IN
  /\ At("cleanup") /\ FirstImage(x, left)
  /\ Present(held, x) => Authentic(held, x)
  /\ \E o \in Primitive(dir[d], cleaned) :
       /\ dir' = [dir EXCEPT ![d] = o.dir]
       /\ Faulty(o.ok)
       /\ IF o.ok
          THEN Cleaned(x) /\ UNCHANGED report
          ELSE Exit("failed")
  /\ UNCHANGED <<root, held, decided, dirty, overlaid, marks>>

CleanStageRefused(x) ==
  /\ At("cleanup") /\ FirstImage(x, left)
  /\ Present(held, x) /\ ~Authentic(held, x)
  /\ Exit("failed")
  /\ UNCHANGED <<dir, root, held, decided, dirty, overlaid, marks, spent>>

\* What a process does once the journal is gone.
Finish ==
  CASE goal \in {"recover", "auto"} -> Goto("scan") /\ UNCHANGED report
    [] goal = "commit"              -> Exit("success")
    [] goal = "abort"               -> Exit("aborted")
    [] OTHER                            -> Exit("failed")

\* (wrong: an unlink that was not synchronized counts as done)
UnlinkJournalUnsynced ==
  /\ At("cleanup") /\ left = {}
  /\ IF journal = held
     THEN \E o \in Primitive(root, [root.now EXCEPT !.journal = None]) :
            /\ root' = o.dir
            /\ Faulty(o.ok)
            /\ IF o.dir = root THEN Exit("failed") ELSE Finish
     ELSE Exit("failed") /\ UNCHANGED <<root, spent>>
  /\ UNCHANGED <<dir, held, decided, dirty, overlaid, marks>>

UnlinkJournal ==
  /\ At("cleanup") /\ left = {}
  /\ IF journal = held
     THEN \E o \in Primitive(root, [root.now EXCEPT !.journal = None]) :
            /\ root' = o.dir
            /\ Faulty(o.ok)
            /\ CASE o.ok          -> Finish
                 [] o.dir = root  -> Exit("failed")
                 [] OTHER         -> Goto("restoreJournal") /\ UNCHANGED report
     ELSE Exit("failed") /\ UNCHANGED <<root, spent>>
  /\ UNCHANGED <<dir, held, decided, dirty, overlaid, marks>>

\* The journal's unlink could not be made durable: put the exact bytes back.
RestoreJournal ==
  /\ At("restoreJournal")
  /\ IF journal = None
     THEN \E o \in AtomicCreate(held) : root' = o.dir /\ Faulty(o.ok)
     ELSE UNCHANGED <<root, spent>>
  /\ Exit("failed")
  /\ UNCHANGED <<dir, held, decided, dirty, overlaid, marks>>

\* A read that raises ends the command where it stands.
ReadFault ==
  /\ pc \in {"recover", "scan", "plan", "load", "reset", "abort", "classify",
                 "checkBefore", "cleanup", "restoreJournal"}
  /\ Spend("faults")
  /\ Exit("failed")
  /\ UNCHANGED <<dir, root, held, decided, dirty, overlaid, marks>>

(***************************************************************************)
(* The environment.                                                         *)
(***************************************************************************)

\* A person was told that recovery is incomplete; anything that changes the
\* files afterwards makes that report out of date.
Outdated == report' = IF report = "incomplete" THEN "none" ELSE report

Crash ==
  /\ ~At("idle")
  /\ Spend("crashes")
  /\ Gone
  /\ UNCHANGED <<dir, root, held, report, decided, dirty, overlaid, marks>>

\* A journal that is not the one shown.
Revives(img) == img.journal \notin {None, Foreign, journal}

\* Every directory comes back as one of the images that may be on disk.
PowerLoss ==
  /\ Spend("outages")
  /\ \E kept \in [Docs -> UNION {dir[d].disk : d \in Docs}] :
       /\ \A d \in Docs : kept[d] \in dir[d].disk
       /\ dir' = [d \in Docs |-> Durable(kept[d])]
  /\ \E kept \in root.disk :
       root' = Durable(kept) /\ revived' = (revived \/ Revives(kept))
  /\ Gone
  /\ Outdated
  /\ UNCHANGED <<held, decided, dirty, overlaid, sealed, tainted>>

\* d was fingerprinted and its rename is to come.
InWindow(d) == \/ pc \in {"checkAfter", "replace"} /\ First(d, todo)
               \/ pc \in {"checkBefore", "restore"} /\ Last(d, todo)

\* An editor, a checkout, any writer that does not take the lock.
Edit(d, b) ==
  /\ b # Now(d).dest
  /\ WindowEdits \/ ~InWindow(d)
  /\ Spend("edits")
  /\ dir' = [dir EXCEPT ![d] = Unsynced(@, [dest |-> b, by |-> User,
                                          before |-> Now(d).before,
                                          after |-> Now(d).after])]
  /\ dirty' = dirty \cup {d}
  /\ overlaid' = IF Applied(d) THEN overlaid \cup {d} ELSE overlaid
  /\ Outdated
  /\ UNCHANGED <<root, pc, work, held, decided, marks>>

\* Stage x was authenticated and its rename is next.
Trusted(x) == \/ At("replace") /\ First(x[1], todo) /\ x[2] = "after"
              \/ At("restore") /\ Last(x[1], todo) /\ x[2] = "before"

\* A stage is damaged or removed behind reconcile's back.
TamperStage(x) ==
  /\ Slot(x) # None
  /\ Spend("tampers")
  /\ \E s \in {None, [Slot(x) EXCEPT !.data = Torn]} :
       dir' = [dir EXCEPT ![x[1]] = Durable(With(x, s))]
  /\ tainted' = IF Trusted(x) THEN tainted \cup {x[1]} ELSE tainted
  /\ Outdated
  /\ UNCHANGED <<root, pc, work, held, decided, dirty, overlaid, sealed, revived>>

\* The journal is removed, or its path is taken by other bytes.
TamperJournal ==
  /\ Spend("tampers")
  /\ \E j \in {None, Foreign} \ {journal} :
       root' = Durable([root.now EXCEPT !.journal = j])
  /\ Outdated
  /\ UNCHANGED <<dir, pc, work, held, decided, dirty, overlaid, marks>>

\* The documented way out: the operator moves the journal and the stages aside
\* and keeps the documents as they are.
SetAside ==
  /\ At("idle") /\ report \in {"incomplete", "failed"}
  /\ Spend("repairs")
  /\ dir' = [d \in Docs |-> Durable([dest |-> Now(d).dest, by |-> User,
                                      before |-> None, after |-> None])]
  /\ root' = Durable([journal |-> None, helpers |-> 0])
  /\ report' = "none"
  /\ UNCHANGED <<pc, work, held, decided, dirty, overlaid, marks>>

-----------------------------------------------------------------------------
Init ==
  /\ \E f \in [Docs -> Bytes] :
       dir = [d \in Docs |-> Durable([dest |-> f[d], by |-> 0,
                                      before |-> None, after |-> None])]
  /\ root = Durable([journal |-> None, helpers |-> 0])
  /\ pc = "idle" /\ goal = "none"
  /\ todo = {} /\ left = {} /\ candidates = {} /\ unresolved = {}
  /\ held = [txn |-> 0, state |-> "prepared", img |-> [d \in Docs |-> None]]
  /\ report = "none"
  /\ decided = {} /\ dirty = {} /\ overlaid = {}
  /\ sealed = {} /\ tainted = {} /\ revived = FALSE
  /\ spent = [k \in Events |-> 0]

Start == Begin("recover") \/ Begin("auto")

Recovery == RecoverNothing \/ RecoverRefused \/ RecoverPrepared \/ RecoverCommitted
              \/ Scan

Preparation == \/ \E S \in SUBSET Docs : Plan(S)
               \/ PlanNothing \/ Publish \/ Unpublish \/ Unstaged \/ Load
               \/ \E x \in Docs \X Roles : Stage(x) \/ Unstage(x)

Commit == \/ Mark \/ Reset
          \/ \E d \in Docs : Fingerprint(d) \/ Authenticate(d) \/ Replace(d)
                              \/ ReplaceRefused(d)

Rollback == \/ Abort \/ Settle
            \/ \E d \in Docs : Classify(d) \/ AuthenticateBefore(d) \/ Restore(d)
                                \/ RestoreRefused(d)

Cleanup == \/ UnlinkJournal \/ RestoreJournal
           \/ \E x \in Docs \X Roles : CleanStage(x) \/ CleanStageRefused(x)

Process == Start \/ Recovery \/ Preparation \/ Commit \/ Rollback \/ Cleanup \/ ReadFault

Environment == \/ Crash \/ PowerLoss \/ TamperJournal \/ SetAside
               \/ \E d \in Docs, b \in EditBytes : Edit(d, b)
               \/ \E x \in Docs \X Roles : TamperStage(x)

Next == Process \/ Environment

Spec == Init /\ [][Next]_vars

\* The operator (or a scheduler) keeps running reconcile, and a started process
\* takes its steps; nothing is assumed of the environment.
FairSpec == Spec /\ WF_vars(Process)

-----------------------------------------------------------------------------
(***************************************************************************)
(* Properties.                                                              *)
(***************************************************************************)

\* Every variable stays in its domain; every image a power loss can restore is a
\* directory image, and the visible one is among them.
TypeOK ==
  /\ dir \in [Docs -> Directories(DocImages)]
  /\ root \in Directories(RootImages)
  /\ pc \in Pcs /\ goal \in Goals
  /\ todo \subseteq Docs /\ left \subseteq Docs \X Roles
  /\ candidates \subseteq Docs /\ unresolved \subseteq Docs
  /\ held \in Journals
  /\ report \in Reports
  /\ decided \subseteq Nat /\ dirty \subseteq Docs /\ overlaid \subseteq Docs
  /\ sealed \subseteq Nat /\ tainted \subseteq Docs /\ revived \in BOOLEAN
  /\ spent \in [Events -> Nat]

Untampered == spent.tampers = 0

\* AD-5, "leave an interrupted multi-file batch recoverable": as long as a
\* destination holds an after image of a transaction that is not past the point
\* of no return, that transaction's journal is on disk and the before image is
\* intact, at every step, failure and crash of every command.
RollbackAuthority ==
  Untampered => \A d \in Docs : Applied(d) =>
    /\ journal \in {held, Committed(held)}
    /\ Now(d).by = held.txn
    /\ Authentic(held, <<d, "before">>)

\* RECONCILE.md, "the transaction is durable and every destination holds its
\* after image": a committed marker is only ever seen over a batch whose every
\* destination was replaced, and perhaps edited since, but not taken back.
MarkerIsWhole ==
  Untampered /\ journal \notin {None, Foreign} /\ journal.state = "committed"
    => \A d \in Batch(journal) : Now(d).by \in {journal.txn, User}

\* The same authority in every image a power loss may leave: a prepared journal
\* that could come back finds, beside every after image that could come back
\* with it, the before image to restore.
DurableAuthority ==
  Untampered =>
    \A d \in Docs : \A s \in dir[d].disk : \A r \in root.disk :
      s.by \notin {0, User} \cup decided =>
        /\ r.journal \notin {None, Foreign}
        /\ r.journal.txn = s.by
        /\ s.before = [txn |-> s.by, data |-> r.journal.img[d]]

\* RECONCILE.md, "success output waits until committed cleanup": once a command
\* reported success no power loss can bring back the before bytes, a stage or a
\* journal of its batch.
SuccessIsDurable ==
  Untampered /\ report = "success" =>
    /\ \A r \in root.disk : r.journal = None
    /\ \A d \in Batch(held) : \A s \in dir[d].disk :
         s.by \in {held.txn, User} /\ s.before = None /\ s.after = None

\* No partial or substituted stage reaches a destination, in any image, unless it was
\* damaged in the window between the calls that authenticate and that rename it.
NoTornDestination ==
  \A d \in Docs : \A s \in dir[d].disk : s.dest = Torn => d \in tainted

\* Steps of reconcile itself.
ByProcess == \A k \in {"outages", "edits", "tampers", "repairs"} : spent'[k] = spent[k]

\* The journal goes last: when reconcile unlinks it, no image on disk still has
\* a stage of that transaction (README: the journal is the only record binding a
\* stage to its destination).
JournalGoesLast ==
  [][ByProcess /\ journal \notin {None, Foreign} /\ journal' = None =>
       \A x \in Docs \X Roles : \A s \in dir[x[1]].disk :
         s[x[2]] # None => s[x[2]].txn # journal.txn]_vars

\* "Rollback complete" is only ever said of a batch all of whose replaced
\* destinations are accounted for: while reconcile sees that one holds something
\* a person wrote over its after image, the journal and the before image that
\* a manual repair needs stay (AD-5's candidates).  A destination whose own stage was
\* damaged in the window before its rename is left out.
EvidenceOutlivesDoubt ==
  [][ByProcess /\ journal = held /\ held.state = "prepared" /\ journal' = None =>
       \A d \in Batch(held) \cap (overlaid \ (dirty \cup tainted)) :
         Now(d).dest = held.img[d]]_vars

\* AD-5's point of no return: once the write of the committed marker returned, no
\* destination of its transaction is ever taken back to its before image, whatever
\* power losses follow.  A marker that only recovery has seen may not be durable; what
\* rests on it is not taken back until a power loss brings back another journal.
PointOfNoReturn ==
  [][\A d \in Docs : Now(d).by \in sealed \/ (~revived' /\ Now(d).by \in decided)
       => Now(d)'.by # 0]_vars

\* A destination reconcile overwrites holds one of the two recorded images:
\* bytes of an unrelated editor are never lost (ARCHITECTURE.md, AD-4).
EditsArePreserved ==
  [][ByProcess => \A d \in Docs :
       Now(d)'.dest # Now(d).dest =>
         Now(d).dest \in {held.img[d], Image(held, <<d, "after">>)}]_vars

\* ... or the editor wrote between the fingerprint and the rename that follows it.
LostEditsAreInTheWindow ==
  [][ByProcess => \A d \in Docs :
       Now(d)'.dest # Now(d).dest =>
         d \in dirty \/ Now(d).dest \in {held.img[d], Image(held, <<d, "after">>)}]_vars

\* RECONCILE.md, "Recovery stays idempotent while a destination is unresolved":
\* after an incomplete recovery no run changes a file until somebody else does.
IncompleteIsIdempotent ==
  [][report = "incomplete" /\ ByProcess => UNCHANGED <<dir, root>>]_vars

\* AD-5, "a durable all-or-nothing batch from the operator's perspective": until
\* the point of no return a destination counts as what recovery would make of
\* it, its recorded before image; seen that way a batch changes in one step.
Logical(d) == IF Applied(d) THEN held.img[d] ELSE Now(d).dest

docsA   == [d \in Docs |-> Logical(d)]
batchA  == [d \in Docs |-> IF held.txn \in decided THEN None ELSE held.img[d]]
editedA == {d \in Docs : Now(d).by = User}

Atomic == INSTANCE AtomicBatch WITH docs <- docsA, batch <- batchA, edited <- editedA

ImplementsAtomicBatch == Atomic!ASpec

\* With nobody else touching the tree, an outstanding journal is eventually
\* recovered and removed, whatever failed on the way.
JournalIsRecovered ==
  journal # None /\ spent.edits = 0 ~> journal = None \/ spent.edits > 0
=============================================================================
