---------------------------- MODULE AtomicBatch ----------------------------
(***************************************************************************)
(* What the operator is promised by `doc-lattice reconcile` (AD-5): a batch *)
(* of documents is acknowledged in one step or not at all, documents that   *)
(* somebody else edits keep those edits, and nothing else changes a         *)
(* document.  Crashes, failed I/O and recovery are invisible here.          *)
(***************************************************************************)
CONSTANTS Docs, Bytes, Reconciled, Absent, None

VARIABLES
  docs,      \* the content of each document
  batch,     \* the before bytes of the documents of the open batch, else None
  edited     \* documents an editor changed and reconcile has not read since

avars == <<docs, batch, edited>>

Open(d) == batch[d] # None

\* Any subset of the documents that need it, at the bytes they have now.
Begin(S) ==
  /\ \A d \in S : docs[d] \in Bytes /\ Reconciled[docs[d]] # docs[d]
  /\ batch' = [d \in Docs |-> IF d \in S THEN docs[d] ELSE None]
  /\ UNCHANGED <<docs, edited>>

\* A document that holds the batch's before bytes is as good as unedited.
Reread(d) ==
  /\ Open(d) /\ docs[d] = batch[d]
  /\ edited' = edited \ {d}
  /\ UNCHANGED <<docs, batch>>

\* All documents of the batch change at once, except those edited meanwhile.
Commit(S) ==
  /\ {d \in Docs : Open(d)} \ edited \subseteq S
  /\ \A d \in S : Open(d) /\ docs[d] = batch[d]
  /\ docs' = [d \in Docs |-> IF d \in S THEN Reconciled[batch[d]] ELSE docs[d]]
  /\ batch' = [d \in Docs |-> None]
  /\ UNCHANGED edited

Edit(d, b) ==
  /\ docs' = [docs EXCEPT ![d] = b]
  /\ edited' = edited \cup {d}
  /\ UNCHANGED batch

AInit ==
  /\ docs \in [Docs -> Bytes]
  /\ batch = [d \in Docs |-> None]
  /\ edited = {}

ANext == \/ \E S \in SUBSET Docs : Begin(S) \/ Commit(S)
         \/ \E d \in Docs : Reread(d)
         \/ \E d \in Docs, b \in Bytes \cup {Absent} : Edit(d, b)

ASpec == AInit /\ [][ANext]_avars
=============================================================================
