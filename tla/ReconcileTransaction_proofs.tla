--------------------- MODULE ReconcileTransaction_proofs ---------------------
(***************************************************************************)
(* The safety of reconcile's transaction for any number of destinations,    *)
(* faults, crashes, power losses, edits and batches.  First the types, the  *)
(* inductive invariant IInv, and where every stage and every writer on disk *)
(* comes from: the journal is the last file of a batch to go, and a success *)
(* that was reported is durable.                                            *)
(* Then the point of no return: what a committed marker stands for, and     *)
(* that it is never taken back, until a power loss brings back a journal    *)
(* other than the one shown; what reconcile writes into destinations, and   *)
(* over what: no bytes but those it authenticated, except those of a stage  *)
(* damaged between the call that authenticates it and the call that renames *)
(* it, and over no bytes it does not recognise except those of an editor    *)
(* who won the race for the window between the last read of a destination   *)
(* and its rename; and, of an undisturbed tree, that a batch is atomic: the *)
(* refinement of AtomicBatch.                                               *)
(* Last, what a rollback does about edits: it keeps the evidence a repair   *)
(* needs, and an incomplete recovery stays as it is.                        *)
(***************************************************************************)
EXTENDS ReconcileInvariant, TLAPS

LEMMA DirectoryTypes ==
  ASSUME NEW S, NEW img \in S, NEW D \in Directories(S)
  PROVE  Durable(img) \in Directories(S) /\ Unsynced(D, img) \in Directories(S)
  BY DEF Durable, Unsynced, Directories

LEMMA PrimitiveTypes ==
  ASSUME NEW S, NEW img \in S, NEW D \in Directories(S), NEW o \in Primitive(D, img)
  PROVE  o.ok \in BOOLEAN /\ o.dir \in Directories(S)
<1>1. Durable(img) \in Directories(S) /\ Unsynced(D, img) \in Directories(S)
  BY DirectoryTypes
<1>2. \/ o = [ok |-> TRUE, dir |-> Durable(img)]
      \/ o = [ok |-> FALSE, dir |-> D]
      \/ o = [ok |-> FALSE, dir |-> Unsynced(D, img)]
  BY DEF Primitive
<1>3. (o.ok = TRUE \/ o.ok = FALSE) /\ o.dir \in {Durable(img), D, Unsynced(D, img)}
  BY <1>2
<1> QED BY <1>1, <1>3

LEMMA HelperType ==
  ASSUME NEW img \in RootImages
  PROVE  WithHelper(img) \in RootImages
<1>1. img.helpers + 1 \in Nat
  BY DEF RootImages
<1>2. WithHelper(img) = [journal |-> img.journal, helpers |-> img.helpers + 1]
  BY DEF RootImages, WithHelper
<1> QED BY <1>1, <1>2 DEF RootImages

LEMMA AtomicTypes ==
  ASSUME root \in Directories(RootImages), NEW j \in Journals
  PROVE  /\ \A o \in AtomicCreate(j) : o.ok \in BOOLEAN /\ o.dir \in Directories(RootImages)
         /\ \A o \in AtomicReplace(j) : o.ok \in BOOLEAN /\ o.dir \in Directories(RootImages)
<1> DEFINE linked == [root.now EXCEPT !.journal = j]
           helped == WithHelper(root.now)
           both   == WithHelper(linked)
<1>1. root.now \in RootImages
  BY DEF Directories
<1>2. linked \in RootImages
  BY <1>1 DEF RootImages
<1>3. helped \in RootImages /\ both \in RootImages
  BY <1>1, <1>2, HelperType
<1> HIDE DEF linked, helped, both
<1>4. {Durable(linked), Durable(both), Unsynced(root, linked), Unsynced(root, helped),
       Unsynced(root, both)} \subseteq Directories(RootImages)
  BY <1>2, <1>3, DirectoryTypes
<1>5. ASSUME NEW o \in AtomicCreate(j)
      PROVE  o.ok \in BOOLEAN /\ o.dir \in Directories(RootImages)
  <2>1. \/ o = [ok |-> TRUE, dir |-> Durable(linked)]
        \/ \E D \in {root, Unsynced(root, helped), Unsynced(root, linked),
                     Unsynced(root, both), Durable(linked), Durable(both)} :
             o = [ok |-> FALSE, dir |-> D]
    BY <1>5 DEF AtomicCreate, linked, helped, both
  <2>2. /\ o.ok = TRUE \/ o.ok = FALSE
        /\ o.dir \in {root, Unsynced(root, helped), Unsynced(root, linked),
                     Unsynced(root, both), Durable(linked), Durable(both)}
    BY <2>1
  <2> QED BY <2>2, <1>4
<1>6. ASSUME NEW o \in AtomicReplace(j)
      PROVE  o.ok \in BOOLEAN /\ o.dir \in Directories(RootImages)
  <2>1. o \in Primitive(root, linked) \/ o = [ok |-> FALSE, dir |-> Unsynced(root, helped)]
    BY <1>6 DEF AtomicReplace, linked, helped
  <2>2. CASE o \in Primitive(root, linked)
    BY <2>2, <1>2, PrimitiveTypes
  <2>3. CASE o = [ok |-> FALSE, dir |-> Unsynced(root, helped)]
    <3>1. o.ok = FALSE /\ o.dir = Unsynced(root, helped)
      BY <2>3
    <3> QED BY <3>1, <1>4
  <2> QED BY <2>1, <2>2, <2>3
<1> QED BY <1>5, <1>6
LEMMA SpendType ==
  ASSUME spent \in [Events -> Nat], NEW k \in Events, Spend(k)
  PROVE  spent' \in [Events -> Nat]
  BY DEF Spend

LEMMA FaultyType ==
  ASSUME spent \in [Events -> Nat], NEW ok, Faulty(ok)
  PROVE  spent' \in [Events -> Nat]
  BY SpendType DEF Faulty, Events

LEMMA SlotTypes ==
  ASSUME dir \in [Docs -> Directories(DocImages)], NEW d \in Docs
  PROVE  /\ dir[d] \in Directories(DocImages) /\ Now(d) \in DocImages
         /\ Now(d).dest \in Contents /\ Now(d).by \in Nat \cup {User}
         /\ Now(d).before \in Stages \cup {None} /\ Now(d).after \in Stages \cup {None}
<1>1. dir[d] \in Directories(DocImages)
  OBVIOUS
<1>2. Now(d) \in DocImages
  BY <1>1 DEF Now, Directories
<1> QED BY <1>1, <1>2 DEF DocImages

LEMMA WithType ==
  ASSUME dir \in [Docs -> Directories(DocImages)], NEW x \in Docs \X Roles,
         NEW s \in Stages \cup {None}
  PROVE  With(x, s) \in DocImages
<1> DEFINE d == x[1]
           b == IF x[2] = "before" THEN s ELSE Now(x[1]).before
           a == IF x[2] = "after" THEN s ELSE Now(x[1]).after
<1>1. d \in Docs
  OBVIOUS
<1>2. b \in Stages \cup {None} /\ a \in Stages \cup {None}
  BY <1>1, SlotTypes
<1>3. With(x, s) = [dest |-> Now(d).dest, by |-> Now(d).by, before |-> b, after |-> a]
  BY DEF With
<1> HIDE DEF d, b, a
<1>4. Now(d).dest \in Contents /\ Now(d).by \in Nat \cup {User}
  BY <1>1, SlotTypes
<1> QED BY <1>2, <1>3, <1>4 DEF DocImages

LEMMA ImageType ==
  ASSUME NEW j \in Journals, NEW x \in Images(j)
  PROVE  x \in Docs \X Roles /\ Image(j, x) \in Bytes
<1>1. x[1] \in Docs /\ x \in Docs \X Roles /\ j.img[x[1]] # None
  BY DEF Images, Batch
<1>2. j.img \in [Docs -> Bytes \cup {None}]
  BY DEF Journals
<1>3. j.img[x[1]] \in Bytes
  BY <1>1, <1>2
<1> QED BY <1>1, <1>3, BytesAssumption DEF Image

LEMMA JournalType ==
  ASSUME root \in Directories(RootImages)
  PROVE  journal \in Journals \cup {None, Foreign}
  BY DEF journal, Directories, RootImages

LEMMA RootWithJournal ==
  ASSUME root \in Directories(RootImages), NEW j \in Journals \cup {None, Foreign}
  PROVE  [root.now EXCEPT !.journal = j] \in RootImages
<1>1. root.now \in RootImages
  BY DEF Directories
<1> QED BY <1>1 DEF RootImages

LEMMA CommittedType ==
  ASSUME NEW j \in Journals
  PROVE  /\ Committed(j) \in Journals /\ Committed(j).txn = j.txn /\ Committed(j).img = j.img
         /\ Committed(j).state = "committed"
  BY DEF Committed, Journals

\* A rename is a primitive; the rename of a stage that is gone changes nothing.
LEMMA RenameForms ==
  ASSUME NEW d, NEW x, NEW img, NEW o \in Renamed(d, x, img)
  PROVE  /\ o \in Primitive(dir[d], img)
         /\ Present(held, x) \/ (o.ok = FALSE /\ o.dir = dir[d])
<1>1. CASE Present(held, x)
  BY <1>1 DEF Renamed
<1>2. CASE ~Present(held, x)
  <2>1. o = [ok |-> FALSE, dir |-> dir[d]]
    BY <1>2 DEF Renamed
  <2> QED BY <2>1 DEF Primitive
<1> QED BY <1>1, <1>2

LEMMA ReplaceForms ==
  ASSUME NEW d, Replace(d)
  PROVE  \E o \in Primitive(dir[d], Replaced(d)) :
           /\ dir' = [dir EXCEPT ![d] = o.dir]
           /\ Failed(<<d, "after">>, o.ok)
           /\ pc' = IF o.ok THEN "fingerprint" ELSE "abort"
           /\ Present(held, <<d, "after">>) \/ (o.ok = FALSE /\ o.dir = dir[d])
<1>1. PICK o \in Renamed(d, <<d, "after">>, Replaced(d)) :
        /\ dir' = [dir EXCEPT ![d] = o.dir]
        /\ Failed(<<d, "after">>, o.ok)
        /\ pc' = IF o.ok THEN "fingerprint" ELSE "abort"
  BY DEF Replace
<1> QED BY <1>1, RenameForms

LEMMA RestoreForms ==
  ASSUME NEW d, Restore(d)
  PROVE  \E o \in Primitive(dir[d], Restored(d)) :
           /\ dir' = [dir EXCEPT ![d] = o.dir]
           /\ Failed(<<d, "before">>, o.ok)
           /\ Present(held, <<d, "before">>) \/ (o.ok = FALSE /\ o.dir = dir[d])
           /\ \/ /\ o.ok /\ pc' = "classify" /\ todo' = todo \ {d}
                 /\ UNCHANGED <<goal, left, candidates, unresolved, report>>
              \/ ~o.ok /\ Exit("failed")
<1>1. PICK o \in Renamed(d, <<d, "before">>, Restored(d)) :
        /\ dir' = [dir EXCEPT ![d] = o.dir]
        /\ Failed(<<d, "before">>, o.ok)
        /\ IF o.ok
           THEN /\ pc' = "classify" /\ todo' = todo \ {d}
                /\ UNCHANGED <<goal, left, candidates, unresolved, report>>
           ELSE Exit("failed")
  BY DEF Restore
<1> QED BY <1>1, RenameForms

LEMMA TypeStep ==
  ASSUME TypeOK, OnBatch, [Next]_vars
  PROVE  TypeOK' /\ OnBatch'
<1> USE DEF TypeOK, OnBatch, At, Goto, Gone, Exit, work, Pcs, Goals, Reports, marks
<1>0. Batch(held) \subseteq Docs /\ Images(held) \subseteq Docs \X Roles
  BY DEF Batch, Images
<1>1. ASSUME Start PROVE TypeOK' /\ OnBatch'
  BY <1>1 DEF Start, Begin
<1>2. ASSUME RecoverNothing PROVE TypeOK' /\ OnBatch'
  BY <1>2 DEF RecoverNothing
<1>3. ASSUME RecoverRefused PROVE TypeOK' /\ OnBatch'
  BY <1>3 DEF RecoverRefused
<1>4. ASSUME RecoverPrepared PROVE TypeOK' /\ OnBatch'
  <2>1. journal \in Journals /\ held' = journal
    BY <1>4, JournalType DEF RecoverPrepared
  <2>2. Batch(journal) \subseteq Docs
    BY DEF Batch
  <2>3. pc' = "classify" /\ todo' = Batch(held') /\ held'.state # "committed"
    BY <1>4 DEF RecoverPrepared, StartRollback
  <2> QED BY <1>4, <2>1, <2>2, <2>3 DEF RecoverPrepared, StartRollback
<1>5. ASSUME RecoverCommitted PROVE TypeOK' /\ OnBatch'
  <2>1. journal \in Journals /\ held' = journal
    BY <1>5, JournalType DEF RecoverCommitted
  <2>2. Images(journal) \subseteq Docs \X Roles
    BY DEF Batch, Images
  <2>3. pc' = "cleanup" /\ left' = Images(held')
    BY <1>5 DEF RecoverCommitted, StartCleanup
  <2>4. decided' \subseteq Nat /\ held'.txn \in decided'
    BY <1>5, <2>1 DEF RecoverCommitted, Journals
  <2> QED BY <1>5, <2>1, <2>2, <2>3, <2>4 DEF RecoverCommitted, StartCleanup
<1>6. ASSUME Scan PROVE TypeOK' /\ OnBatch'
  BY <1>6 DEF Scan
<1>7. ASSUME NEW S \in SUBSET Docs, Plan(S) PROVE TypeOK' /\ OnBatch'
  <2> DEFINE img == [d \in Docs |-> IF d \in S THEN Now(d).dest ELSE None]
  <2>1. img \in [Docs -> Bytes \cup {None}]
    BY <1>7 DEF Plan
  <2>2. spent' \in [Events -> Nat]
    BY <1>7, SpendType DEF Plan, Events
  <2>3. spent.txns + 1 \in Nat
    BY DEF Events
  <2>4. held' = [txn |-> spent.txns + 1, state |-> "prepared", img |-> img]
    BY <1>7 DEF Plan
  <2>5. \A d \in S : img[d] # None
    BY <1>7, BytesAssumption DEF Plan
  <2> HIDE DEF img
  <2>6. held' \in Journals /\ held'.img = img /\ held'.state # "committed"
    BY <2>1, <2>3, <2>4 DEF Journals
  <2>7. S \X Roles \subseteq Images(held')
    BY <2>5, <2>6 DEF Images, Batch
  <2> QED BY <1>7, <2>2, <2>6, <2>7 DEF Plan
<1>8. ASSUME PlanNothing PROVE TypeOK' /\ OnBatch'
  BY <1>8 DEF PlanNothing
<1>9. ASSUME Publish PROVE TypeOK' /\ OnBatch'
  <2>1. PICK o \in AtomicCreate(held) : root' = o.dir /\ Faulty(o.ok \/ journal # None)
    BY <1>9 DEF Publish
  <2>2. root' \in Directories(RootImages) /\ spent' \in [Events -> Nat]
    BY <2>1, AtomicTypes, FaultyType
  <2>3. pc' \in {"unstage", "load", "unpublish"}
    BY <1>9 DEF Publish
  <2>4. left' \in {Images(held), left}
    BY <1>9 DEF Publish
  <2> QED BY <1>0, <1>9, <2>2, <2>3, <2>4 DEF Publish
<1>10. ASSUME Unpublish PROVE TypeOK' /\ OnBatch'
  <2>1. spent' \in [Events -> Nat]
    BY <1>10, FaultyType DEF Unpublish
  <2> QED BY <1>0, <1>10, <2>1 DEF Unpublish, StartCleanup
<1>11. ASSUME Unstaged PROVE TypeOK' /\ OnBatch'
  BY <1>11 DEF Unstaged
<1>12. ASSUME Load PROVE TypeOK' /\ OnBatch'
  BY <1>0, <1>12 DEF Load
<1>13. ASSUME NEW x \in Docs \X Roles, Stage(x) PROVE TypeOK' /\ OnBatch'
  <2>1. x \in left /\ x \in Images(held) /\ x[1] \in Docs
    BY <1>13 DEF Stage, FirstImage
  <2>2. /\ With(x, [txn |-> held.txn, data |-> Image(held, x)]) \in DocImages
        /\ With(x, [txn |-> held.txn, data |-> Torn]) \in DocImages
    <3>1. held.txn \in Nat
      BY DEF Journals
    <3>2. Image(held, x) \in Bytes
      BY <2>1, ImageType
    <3>3. /\ [txn |-> held.txn, data |-> Image(held, x)] \in Stages
          /\ [txn |-> held.txn, data |-> Torn] \in Stages
      BY <3>1, <3>2 DEF Stages
    <3> QED BY <3>3, WithType
  <2>3. dir[x[1]] \in Directories(DocImages)
    BY <2>1
  <2>4. CASE /\ dir' = [dir EXCEPT ![x[1]] =
                          Durable(With(x, [txn |-> held.txn, data |-> Image(held, x)]))]
             /\ left' = left \ {x} /\ UNCHANGED <<pc, spent>>
    <3>1. dir' \in [Docs -> Directories(DocImages)]
      BY <2>1, <2>2, <2>3, <2>4, DirectoryTypes
    <3> QED BY <1>13, <2>4, <3>1 DEF Stage
  <2>5. CASE /\ \E D \in {dir[x[1]], Unsynced(dir[x[1]],
                            With(x, [txn |-> held.txn, data |-> Torn]))} :
                  dir' = [dir EXCEPT ![x[1]] = D]
             /\ pc' = "unstage" /\ left' = Images(held) \ left
             /\ Spend("faults")
    <3>1. dir' \in [Docs -> Directories(DocImages)]
      <4> DEFINE torn == Unsynced(dir[x[1]], With(x, [txn |-> held.txn, data |-> Torn]))
      <4>1. torn \in Directories(DocImages)
        BY <2>2, <2>3, DirectoryTypes
      <4>2. \E D \in {dir[x[1]], torn} : dir' = [dir EXCEPT ![x[1]] = D]
        BY <2>5
      <4> HIDE DEF torn
      <4>3. PICK D \in {dir[x[1]], torn} : dir' = [dir EXCEPT ![x[1]] = D]
        BY <4>2
      <4>4. D \in Directories(DocImages)
        BY <2>3, <4>1, <4>3
      <4> QED BY <2>1, <4>3, <4>4
    <3>2. spent' \in [Events -> Nat]
      BY <2>5, SpendType DEF Events
    <3> QED BY <1>0, <1>13, <2>5, <3>1, <3>2 DEF Stage
  <2> QED BY <1>13, <2>4, <2>5 DEF Stage
<1>14. ASSUME NEW x \in Docs \X Roles, Unstage(x) PROVE TypeOK' /\ OnBatch'
  <2>1. PICK o \in Primitive(dir[x[1]], With(x, None)) :
           dir' = [dir EXCEPT ![x[1]] = o.dir] /\ Faulty(o.ok)
    BY <1>14 DEF Unstage
  <2>2. With(x, None) \in DocImages /\ x[1] \in Docs
    BY WithType
  <2>3. o.dir \in Directories(DocImages)
    BY <2>1, <2>2, PrimitiveTypes
  <2>4. dir' \in [Docs -> Directories(DocImages)] /\ spent' \in [Events -> Nat]
    BY <2>1, <2>2, <2>3, FaultyType
  <2> QED BY <1>14, <2>4 DEF Unstage
<1>15. ASSUME Mark PROVE TypeOK' /\ OnBatch'
  <2>1. PICK o \in AtomicReplace(Committed(held)) :
          /\ root' = o.dir /\ Faulty(o.ok)
          /\ \/ /\ o.ok
                /\ held' = Committed(held)
                /\ decided' = decided \cup {held.txn}
                /\ IF AllAuthentic(held)
                   THEN StartCleanup(held, goal) /\ UNCHANGED report
                   ELSE Exit("failed")
             \/ ~o.ok /\ Goto("reset") /\ UNCHANGED <<held, report, decided>>
    BY <1>15 DEF Mark
  <2>2. root' \in Directories(RootImages) /\ spent' \in [Events -> Nat]
    BY <2>1, AtomicTypes, CommittedType, FaultyType
  <2>3. held.txn \in Nat
    BY DEF Journals
  <2>4. Images(Committed(held)) = Images(held)
    BY CommittedType DEF Images, Batch
  <2>5. CASE o.ok
    BY <1>0, <1>15, <2>1, <2>2, <2>3, <2>4, <2>5, CommittedType DEF Mark, StartCleanup
  <2>6. CASE ~o.ok
    BY <1>15, <2>1, <2>2, <2>6 DEF Mark
  <2> QED BY <2>5, <2>6
<1>16. ASSUME Reset PROVE TypeOK' /\ OnBatch'
  <2>1. root' \in Directories(RootImages) /\ spent' \in [Events -> Nat]
    <3>1. CASE UNCHANGED <<root, spent>>
      BY <3>1
    <3>2. CASE \E o \in CASE journal = Committed(held) -> AtomicReplace(held)
                          [] journal = None            -> AtomicCreate(held)
                          [] OTHER                     -> {} :
                  root' = o.dir /\ Faulty(o.ok)
      <4>1. PICK o \in AtomicReplace(held) \cup AtomicCreate(held) :
              root' = o.dir /\ Faulty(o.ok)
        BY <3>2
      <4> QED BY <4>1, AtomicTypes, FaultyType
    <3> QED BY <1>16, <3>1, <3>2 DEF Reset
  <2>2. pc' \in {"abort", "idle"} /\ report' \in Reports
    BY <1>16 DEF Reset
  <2>3. (UNCHANGED work) \/ Gone
    BY <1>16 DEF Reset
  <2> QED BY <1>16, <2>1, <2>2, <2>3 DEF Reset
<1>17. ASSUME NEW d \in Docs, Fingerprint(d) PROVE TypeOK' /\ OnBatch'
  <2>1. spent' \in [Events -> Nat]
    BY <1>17, SpendType DEF Fingerprint, Events
  <2> QED BY <1>17, <2>1 DEF Fingerprint
<1>18. ASSUME NEW d \in Docs, Replace(d) PROVE TypeOK' /\ OnBatch'
  <2>1. PICK o \in Primitive(dir[d], Replaced(d)) :
          /\ dir' = [dir EXCEPT ![d] = o.dir] /\ Failed(<<d, "after">>, o.ok)
          /\ pc' = IF o.ok THEN "fingerprint" ELSE "abort"
          /\ Present(held, <<d, "after">>) \/ (o.ok = FALSE /\ o.dir = dir[d])
    BY <1>18, ReplaceForms
  <2>2. ASSUME Present(held, <<d, "after">>) PROVE Replaced(d) \in DocImages
    <3>1. Now(d).after \in Stages
      BY <2>2, SlotTypes DEF Present, Slot
    <3>2. Now(d).after.data \in Contents /\ held.txn \in Nat
      BY <3>1 DEF Stages, Contents, Journals
    <3> QED BY <3>2, SlotTypes DEF Replaced, DocImages
  <2>3. o.dir \in Directories(DocImages)
    BY <2>1, <2>2, PrimitiveTypes
  <2>4. dir' \in [Docs -> Directories(DocImages)] /\ spent' \in [Events -> Nat]
    BY <2>1, <2>3, FaultyType DEF Failed
  <2>5. pc' \in {"fingerprint", "abort"}
    BY <2>1
  <2> QED BY <1>18, <2>4, <2>5 DEF Replace
<1>19. ASSUME NEW d \in Docs, ReplaceRefused(d) PROVE TypeOK' /\ OnBatch'
  <2>1. spent' \in [Events -> Nat]
    BY <1>19, FaultyType DEF ReplaceRefused
  <2> QED BY <1>0, <1>19, <2>1 DEF ReplaceRefused, StartRollback
<1>20. ASSUME Abort PROVE TypeOK' /\ OnBatch'
  BY <1>0, <1>20 DEF Abort, StartRollback
<1>21. ASSUME Settle PROVE TypeOK' /\ OnBatch'
  BY <1>0, <1>21 DEF Settle, StartCleanup, Unresolved
<1>22. ASSUME NEW d \in Docs, Classify(d) PROVE TypeOK' /\ OnBatch'
  BY <1>22 DEF Classify
<1>23. ASSUME NEW d \in Docs, Restore(d) PROVE TypeOK' /\ OnBatch'
  <2>1. PICK o \in Primitive(dir[d], Restored(d)) :
          /\ dir' = [dir EXCEPT ![d] = o.dir] /\ Failed(<<d, "before">>, o.ok)
          /\ Present(held, <<d, "before">>) \/ (o.ok = FALSE /\ o.dir = dir[d])
    BY <1>23, RestoreForms
  <2>2. ASSUME Present(held, <<d, "before">>) PROVE Restored(d) \in DocImages
    <3>1. Now(d).before \in Stages
      BY <2>2, SlotTypes DEF Present, Slot
    <3>2. Now(d).before.data \in Contents
      BY <3>1 DEF Stages, Contents
    <3> QED BY <3>2, SlotTypes DEF Restored, DocImages
  <2>3. o.dir \in Directories(DocImages)
    BY <2>1, <2>2, PrimitiveTypes
  <2>4. dir' \in [Docs -> Directories(DocImages)] /\ spent' \in [Events -> Nat]
    BY <2>1, <2>3, FaultyType DEF Failed
  <2>5. \/ /\ pc' = "classify" /\ todo' = todo \ {d}
           /\ UNCHANGED <<goal, left, candidates, unresolved, report>>
        \/ Exit("failed")
    BY <1>23 DEF Restore
  <2> QED BY <1>23, <2>4, <2>5 DEF Restore
<1>24. ASSUME NEW d \in Docs, RestoreRefused(d) PROVE TypeOK' /\ OnBatch'
  BY <1>24 DEF RestoreRefused
<1>25. ASSUME UnlinkJournal PROVE TypeOK' /\ OnBatch'
  <2>1. root' \in Directories(RootImages) /\ spent' \in [Events -> Nat]
    <3>1. CASE journal = held
      <4>1. PICK o \in Primitive(root, [root.now EXCEPT !.journal = None]) :
               root' = o.dir /\ Faulty(o.ok)
        BY <1>25, <3>1 DEF UnlinkJournal
      <4> QED BY <4>1, RootWithJournal, PrimitiveTypes, FaultyType
    <3>2. CASE journal # held
      BY <1>25, <3>2 DEF UnlinkJournal
    <3> QED BY <3>1, <3>2
  <2>2. /\ pc' \in {"idle", "scan", "restoreJournal"} /\ report' \in Reports
        /\ (UNCHANGED work) \/ Gone
    <3>1. ASSUME Finish
          PROVE  /\ pc' \in {"idle", "scan"} /\ report' \in Reports
                 /\ (UNCHANGED work) \/ Gone
      BY <3>1 DEF Finish
    <3> QED BY <1>25, <3>1 DEF UnlinkJournal
  <2> QED BY <1>25, <2>1, <2>2 DEF UnlinkJournal
<1>26. ASSUME RestoreJournal PROVE TypeOK' /\ OnBatch'
  <2>1. root' \in Directories(RootImages) /\ spent' \in [Events -> Nat]
    BY <1>26, AtomicTypes, FaultyType DEF RestoreJournal
  <2> QED BY <1>26, <2>1 DEF RestoreJournal
<1>27. ASSUME NEW x \in Docs \X Roles, CleanStage(x) PROVE TypeOK' /\ OnBatch'
  <2> DEFINE cleaned == IF Present(held, x) THEN With(x, None) ELSE Now(x[1])
  <2>1. PICK o \in Primitive(dir[x[1]], cleaned) :
          dir' = [dir EXCEPT ![x[1]] = o.dir] /\ Faulty(o.ok)
    BY <1>27 DEF CleanStage
  <2>2. cleaned \in DocImages /\ x[1] \in Docs
    BY WithType, SlotTypes
  <2> HIDE DEF cleaned
  <2>3. o.dir \in Directories(DocImages)
    BY <2>1, <2>2, PrimitiveTypes
  <2>4. dir' \in [Docs -> Directories(DocImages)] /\ spent' \in [Events -> Nat]
    BY <2>1, <2>2, <2>3, FaultyType
  <2>5. (Cleaned(x) /\ UNCHANGED report) \/ Exit("failed")
    BY <1>27 DEF CleanStage
  <2> QED BY <1>27, <2>4, <2>5 DEF CleanStage, Cleaned
<1>28. ASSUME NEW x \in Docs \X Roles, CleanStageRefused(x) PROVE TypeOK' /\ OnBatch'
  BY <1>28 DEF CleanStageRefused
<1>29. ASSUME ReadFault PROVE TypeOK' /\ OnBatch'
  <2>1. spent' \in [Events -> Nat]
    BY <1>29, SpendType DEF ReadFault, Events
  <2> QED BY <1>29, <2>1 DEF ReadFault
<1>30. ASSUME Crash PROVE TypeOK' /\ OnBatch'
  <2>1. spent' \in [Events -> Nat]
    BY <1>30, SpendType DEF Crash, Events
  <2> QED BY <1>30, <2>1 DEF Crash
<1>31. ASSUME PowerLoss PROVE TypeOK' /\ OnBatch'
  <2>1. spent' \in [Events -> Nat]
    BY <1>31, SpendType DEF PowerLoss, Events
  <2>2. PICK kept \in [Docs -> UNION {dir[d].disk : d \in Docs}] :
          /\ \A d \in Docs : kept[d] \in dir[d].disk
          /\ dir' = [d \in Docs |-> Durable(kept[d])]
    BY <1>31 DEF PowerLoss
  <2>3. \A d \in Docs : dir[d].disk \subseteq DocImages
    BY DEF Directories
  <2>4. dir' \in [Docs -> Directories(DocImages)]
    BY <2>2, <2>3, DirectoryTypes
  <2>5. root' \in Directories(RootImages)
    <3>1. PICK image \in root.disk : root' = Durable(image)
      BY <1>31 DEF PowerLoss
    <3>2. image \in RootImages
      BY <3>1 DEF Directories
    <3> QED BY <3>1, <3>2, DirectoryTypes
  <2>6. revived' \in BOOLEAN /\ tainted' = tainted
    BY <1>31 DEF PowerLoss
  <2> QED BY <1>31, <2>1, <2>4, <2>5, <2>6 DEF PowerLoss, Outdated
<1>32. ASSUME TamperJournal PROVE TypeOK' /\ OnBatch'
  <2>1. spent' \in [Events -> Nat]
    BY <1>32, SpendType DEF TamperJournal, Events
  <2>2. root' \in Directories(RootImages)
    BY <1>32, RootWithJournal, DirectoryTypes DEF TamperJournal
  <2> QED BY <1>32, <2>1, <2>2 DEF TamperJournal, Outdated
<1>33. ASSUME SetAside PROVE TypeOK' /\ OnBatch'
  <2>1. spent' \in [Events -> Nat]
    BY <1>33, SpendType DEF SetAside, Events
  <2>2. \A d \in Docs : [dest |-> Now(d).dest, by |-> User, before |-> None,
                         after |-> None] \in DocImages
    BY SlotTypes DEF DocImages
  <2>3. dir' \in [Docs -> Directories(DocImages)]
    BY <1>33, <2>2, DirectoryTypes DEF SetAside
  <2>4. [journal |-> None, helpers |-> 0] \in RootImages
    BY DEF RootImages
  <2>5. root' \in Directories(RootImages)
    BY <1>33, <2>4, DirectoryTypes DEF SetAside
  <2> QED BY <1>33, <2>1, <2>3, <2>5 DEF SetAside
<1>34. ASSUME NEW d \in Docs, NEW b \in EditBytes, Edit(d, b) PROVE TypeOK' /\ OnBatch'
  <2>1. spent' \in [Events -> Nat]
    BY <1>34, SpendType DEF Edit, Events
  <2>2. [dest |-> b, by |-> User, before |-> Now(d).before, after |-> Now(d).after]
           \in DocImages
    BY SlotTypes, BytesAssumption DEF DocImages, Contents
  <2>3. dir' \in [Docs -> Directories(DocImages)]
    BY <1>34, <2>2, DirectoryTypes DEF Edit
  <2> QED BY <1>34, <2>1, <2>3 DEF Edit, Outdated
<1>35. ASSUME NEW x \in Docs \X Roles, TamperStage(x) PROVE TypeOK' /\ OnBatch'
  <2>1. spent' \in [Events -> Nat]
    BY <1>35, SpendType DEF TamperStage, Events
  <2>2. x[1] \in Docs /\ Slot(x) \in Stages
    BY <1>35, SlotTypes DEF TamperStage, Slot
  <2>3. [Slot(x) EXCEPT !.data = Torn] \in Stages
    BY <2>2 DEF Stages
  <2>4. PICK s \in {None, [Slot(x) EXCEPT !.data = Torn]} :
          dir' = [dir EXCEPT ![x[1]] = Durable(With(x, s))]
    BY <1>35 DEF TamperStage
  <2>5. With(x, s) \in DocImages
    BY <2>3, <2>4, WithType
  <2>6. dir' \in [Docs -> Directories(DocImages)]
    BY <2>2, <2>4, <2>5, DirectoryTypes
  <2> QED BY <1>35, <2>1, <2>2, <2>6 DEF TamperStage, Outdated
<1>36. CASE UNCHANGED vars
  BY <1>36 DEF vars
<1>37. ASSUME NEW d \in Docs, Authenticate(d) PROVE TypeOK' /\ OnBatch'
  BY <1>37 DEF Authenticate
<1>38. ASSUME NEW d \in Docs, AuthenticateBefore(d) PROVE TypeOK' /\ OnBatch'
  BY <1>38 DEF AuthenticateBefore
<1> QED
  BY <1>1, <1>2, <1>3, <1>4, <1>5, <1>6, <1>7, <1>8, <1>9, <1>10, <1>11, <1>12, <1>13,
     <1>14, <1>15, <1>16, <1>17, <1>18, <1>19, <1>20, <1>21, <1>22, <1>23, <1>24, <1>25,
     <1>26, <1>27, <1>28, <1>29, <1>30, <1>31, <1>32, <1>33, <1>34, <1>35, <1>36, <1>37, <1>38
     DEF Next, Process, Environment, Recovery, Preparation, Commit, Rollback, Cleanup

LEMMA InitTypes == Init => TypeOK /\ OnBatch
<1> SUFFICES ASSUME Init PROVE TypeOK /\ OnBatch
  OBVIOUS
<1>1. PICK f \in [Docs -> Bytes] :
        dir = [d \in Docs |-> Durable([dest |-> f[d], by |-> 0,
                                       before |-> None, after |-> None])]
  BY DEF Init
<1>2. \A d \in Docs : [dest |-> f[d], by |-> 0, before |-> None, after |-> None]
                         \in DocImages
  BY DEF DocImages, Contents
<1>3. dir \in [Docs -> Directories(DocImages)]
  BY <1>1, <1>2, DirectoryTypes DEF Durable, Directories
<1>4. [journal |-> None, helpers |-> 0] \in RootImages
  BY DEF RootImages
<1>5. root \in Directories(RootImages)
  BY <1>4 DEF Init, Durable, Directories
<1>6. held \in Journals /\ held.state # "committed"
  BY DEF Init, Journals
<1> QED BY <1>3, <1>5, <1>6 DEF Init, TypeOK, OnBatch, At, Pcs, Goals, Reports, Events

\* Every behaviour keeps every variable in its domain.
THEOREM TypeCorrect == Spec => []TypeOK
<1>1. Init => TypeOK /\ OnBatch
  BY InitTypes
<1>2. TypeOK /\ OnBatch /\ [Next]_vars => TypeOK' /\ OnBatch'
  BY TypeStep
<1> QED BY <1>1, <1>2, PTL DEF Spec

-----------------------------------------------------------------------------
(***************************************************************************)
(* Control flow.                                                            *)
(***************************************************************************)

\* Steps that leave the process where it stands.
Outside == \/ TamperJournal
           \/ UNCHANGED vars
           \/ \E y \in Docs \X Roles : TamperStage(y)
           \/ \E d \in Docs, b \in EditBytes : Edit(d, b)

\* The steps by which the process comes to, or stays at, each point.
LEMMA ControlFlow ==
  ASSUME [Next]_vars, ~Outside
  PROVE  /\ pc' = "recover" => Start
         /\ pc' = "scan" => RecoverNothing \/ UnlinkJournal
         /\ pc' = "plan" => Scan
         /\ pc' = "stage" => \/ \E S \in SUBSET Docs : Plan(S)
                             \/ \E x \in Docs \X Roles : Stage(x)
         /\ pc' = "unstage" => \/ Publish \/ Unpublish
                               \/ \E x \in Docs \X Roles : Stage(x) \/ Unstage(x)
         /\ pc' = "unpublish" => Publish
         /\ pc' = "load" => Publish
         /\ pc' = "fingerprint" => Load \/ \E d \in Docs : Replace(d)
         /\ pc' = "checkAfter" => \E d \in Docs : Fingerprint(d)
         /\ pc' = "replace" => \E d \in Docs : Authenticate(d)
         /\ pc' = "reset" => Mark
         /\ pc' = "abort" => Reset \/ \E d \in Docs : Fingerprint(d) \/ Replace(d)
         /\ pc' = "classify" => \/ RecoverPrepared \/ Abort
                                \/ \E d \in Docs : ReplaceRefused(d) \/ Classify(d) \/ Restore(d)
         /\ pc' = "checkBefore" => \E d \in Docs : Classify(d)
         /\ pc' = "restore" => \E d \in Docs : AuthenticateBefore(d)
         /\ pc' = "cleanup" => \/ RecoverCommitted \/ Unpublish \/ Mark \/ Settle
                               \/ \E x \in Docs \X Roles : CleanStage(x)
         /\ pc' = "restoreJournal" => UnlinkJournal
<1> USE DEF At, Goto, Gone, Exit, StartRollback, StartCleanup, work
<1>1. CASE Start \/ Recovery
  BY <1>1 DEF Start, Begin, Recovery, RecoverNothing, RecoverRefused, RecoverPrepared,
              RecoverCommitted, Scan
<1>2. CASE PlanNothing \/ Unpublish \/ Unstaged \/ Load
  BY <1>2 DEF PlanNothing, Unpublish, Unstaged, Load
<1>3. CASE Publish
  <2>1. pc' \in {"unstage", "load", "unpublish"}
    BY <1>3 DEF Publish
  <2> QED BY <1>3, <2>1
<1>4. CASE \/ \E S \in SUBSET Docs : Plan(S)
           \/ \E x \in Docs \X Roles : Stage(x) \/ Unstage(x)
  BY <1>4 DEF Plan, Stage, Unstage
<1>5. CASE Mark \/ Reset \/ Abort \/ Settle
  BY <1>5 DEF Mark, Reset, Abort, Settle
<1>6. CASE \E d \in Docs : Fingerprint(d) \/ Authenticate(d) \/ Replace(d) \/ ReplaceRefused(d)
  BY <1>6 DEF Fingerprint, Authenticate, Replace, ReplaceRefused, Failed
<1>7. CASE \E d \in Docs : Classify(d) \/ AuthenticateBefore(d) \/ Restore(d) \/ RestoreRefused(d)
  BY <1>7 DEF Classify, AuthenticateBefore, Restore, RestoreRefused, Failed
<1>8. CASE UnlinkJournal \/ RestoreJournal
  BY <1>8 DEF UnlinkJournal, RestoreJournal, Finish
<1>9. CASE \E x \in Docs \X Roles : CleanStage(x) \/ CleanStageRefused(x)
  BY <1>9 DEF CleanStage, CleanStageRefused, Cleaned
<1>10. CASE ReadFault \/ Crash \/ PowerLoss \/ SetAside
  BY <1>10 DEF ReadFault, Crash, PowerLoss, SetAside
<1>11. CASE Preparation
  BY <1>2, <1>3, <1>4, <1>11 DEF Preparation
<1>12. CASE Commit \/ Rollback \/ Cleanup
  BY <1>5, <1>6, <1>7, <1>8, <1>9, <1>12 DEF Commit, Rollback, Cleanup
<1> QED BY <1>1, <1>10, <1>11, <1>12 DEF Next, Process, Environment, Outside

\* One destination's directory changes.
LEMMA OneChanged ==
  ASSUME dir \in [Docs -> Directories(DocImages)], NEW d \in Docs, NEW D,
         dir' = [dir EXCEPT ![d] = D]
  PROVE  dir'[d] = D /\ \A e \in Docs \ {d} : dir'[e] = dir[e]
  OBVIOUS

LEMMA Slots ==
  ASSUME NEW x \in Docs \X Roles
  PROVE  x[1] \in Docs /\ x[2] \in {"before", "after"} /\ Now(x[1])[x[2]] = Slot(x)
  BY DEF Roles, Slot

LEMMA WithSlots ==
  ASSUME NEW x \in Docs \X Roles, NEW y \in Docs \X Roles, x[1] = y[1], NEW s
  PROVE  With(y, s)[x[2]] = IF x = y THEN s ELSE Slot(x)
<1>1. x = <<x[1], x[2]>> /\ y = <<y[1], y[2]>>
  OBVIOUS
<1>2. x = y <=> x[2] = y[2]
  BY <1>1
<1> QED BY <1>2, Slots DEF With, Slot

-----------------------------------------------------------------------------
(***************************************************************************)
(* IInv is inductive.                                                      *)
(***************************************************************************)

\* What a primitive leaves on disk.
LEMMA PrimitiveImages ==
  ASSUME NEW D, NEW img, NEW o \in Primitive(D, img)
  PROVE  /\ o.ok \in BOOLEAN
         /\ o.dir.disk \subseteq D.disk \cup {img}
         /\ o.ok => o.dir = Durable(img)
<1>1. \/ o = [ok |-> TRUE, dir |-> Durable(img)]
      \/ o = [ok |-> FALSE, dir |-> D]
      \/ o = [ok |-> FALSE, dir |-> Unsynced(D, img)]
  BY DEF Primitive
<1>2. Durable(img).disk = {img} /\ Unsynced(D, img).disk = D.disk \cup {img}
  BY DEF Durable, Unsynced
<1> HIDE DEF Durable, Unsynced
<1>3. \/ o.ok = TRUE /\ o.dir = Durable(img)
      \/ o.ok = FALSE /\ o.dir \in {D, Unsynced(D, img)}
  BY <1>1
<1> QED BY <1>2, <1>3

\* A journal primitive leaves, in every image, the new journal or one that was
\* there; when it succeeds, only the new one.
LEMMA AtomicImages ==
  ASSUME root \in Directories(RootImages), NEW j \in Journals,
         NEW o \in AtomicCreate(j) \cup AtomicReplace(j)
  PROVE  /\ \A r \in o.dir.disk : r.journal = j \/ \E q \in root.disk : r.journal = q.journal
         /\ o.ok => \A r \in o.dir.disk : r.journal = j
<1> DEFINE linked == [root.now EXCEPT !.journal = j]
           helped == WithHelper(root.now)
           both   == WithHelper(linked)
<1>1. root.now \in RootImages /\ root.now \in root.disk
  BY DEF Directories
<1>2. linked.journal = j /\ helped.journal = root.now.journal /\ both.journal = j
  BY <1>1 DEF RootImages, WithHelper
<1> HIDE DEF linked, helped, both
<1>3. /\ Durable(linked).disk = {linked} /\ Durable(both).disk = {both}
      /\ Unsynced(root, linked).disk = root.disk \cup {linked}
      /\ Unsynced(root, helped).disk = root.disk \cup {helped}
      /\ Unsynced(root, both).disk = root.disk \cup {both}
  BY DEF Durable, Unsynced
<1> DEFINE failed == {root, Durable(linked), Durable(both), Unsynced(root, linked),
                      Unsynced(root, helped), Unsynced(root, both)}
<1>4. \/ o = [ok |-> TRUE, dir |-> Durable(linked)]
      \/ \E D \in failed : o = [ok |-> FALSE, dir |-> D]
  BY DEF AtomicCreate, AtomicReplace, Primitive, linked, helped, both
<1>5. \/ o.ok = TRUE /\ o.dir = Durable(linked)
      \/ o.ok = FALSE /\ o.dir \in failed
  BY <1>4
<1>6. CASE o.ok = TRUE /\ o.dir = Durable(linked)
  BY <1>2, <1>3, <1>6
<1>7. CASE o.ok = FALSE /\ o.dir \in failed
  BY <1>1, <1>2, <1>3, <1>7
<1> QED BY <1>5, <1>6, <1>7

\* Only a tamperer spends from the budget of tampering.
LEMMA SpendKeeps ==
  ASSUME spent \in [Events -> Nat], NEW k \in Events \ {"tampers"},
         Spend(k) \/ UNCHANGED spent
  PROVE  spent'.tampers = spent.tampers
  BY DEF Spend, Events

LEMMA FaultyKeeps ==
  ASSUME spent \in [Events -> Nat], NEW ok, Faulty(ok)
  PROVE  spent'.tampers = spent.tampers
  BY SpendKeeps DEF Faulty, Events

LEMMA TamperCounts ==
  ASSUME spent \in [Events -> Nat], Spend("tampers")
  PROVE  ~Untampered'
  BY DEF Spend, Events, Untampered

LEMMA TamperStep ==
  ASSUME TypeOK, [Next]_vars, Untampered'
  PROVE  Untampered
<1> USE DEF TypeOK
<1>1. CASE TamperJournal \/ \E x \in Docs \X Roles : TamperStage(x)
  BY <1>1, TamperCounts DEF TamperJournal, TamperStage
<1>2. CASE UNCHANGED spent
  BY <1>2 DEF Untampered
<1>3. CASE \E ok : Faulty(ok)
  BY <1>3, FaultyKeeps DEF Untampered
<1>4. CASE \E k \in Events \ {"tampers"} : Spend(k)
  BY <1>4, SpendKeeps DEF Untampered
<1>5. CASE Preparation
  BY <1>2, <1>3, <1>4, <1>5
     DEF Preparation, Plan, PlanNothing, Publish, Unpublish, Unstaged, Load, Stage, Unstage,
         Events
<1>6. CASE Commit
  BY <1>2, <1>3, <1>4, <1>6
     DEF Commit, Mark, Reset, Fingerprint, Authenticate, Replace, ReplaceRefused, Failed, Events
<1>7. CASE Rollback
  BY <1>2, <1>3, <1>7
     DEF Rollback, Abort, Settle, Classify, AuthenticateBefore, Restore, RestoreRefused, Failed
<1>8. CASE Cleanup
  BY <1>2, <1>3, <1>8
     DEF Cleanup, UnlinkJournal, RestoreJournal, CleanStage, CleanStageRefused
<1>9. CASE Start \/ Recovery
  BY <1>2, <1>9
     DEF Start, Begin, Recovery, RecoverNothing, RecoverRefused, RecoverPrepared,
         RecoverCommitted, Scan
<1>10. CASE ReadFault \/ Crash \/ PowerLoss \/ SetAside
           \/ \E d \in Docs, b \in EditBytes : Edit(d, b)
  BY <1>4, <1>10 DEF ReadFault, Crash, PowerLoss, SetAside, Edit, Events
<1>11. CASE UNCHANGED vars
  BY <1>2, <1>11 DEF vars
<1> QED BY <1>1, <1>5, <1>6, <1>7, <1>8, <1>9, <1>10, <1>11
        DEF Next, Process, Environment

\* The way back survives a step that adds no undecided image, and keeps the
\* journal of the batch in every image of the root.
LEMMA WayKept ==
  ASSUME WayBack, UNCHANGED <<held, decided>>,
         \A d \in Docs : \A s \in dir'[d].disk : Undecided(s) => s \in dir[d].disk,
         \A r \in root'.disk : OfBatch(r.journal) \/ \E q \in root.disk : r.journal = q.journal
  PROVE  WayBack'
  BY DEF WayBack, Undecided, BeforeStage, OfBatch, Batch

\* Without undecided images there is nothing to find the way back from.
LEMMA WayVoid ==
  ASSUME \A d \in Docs : NoneUndecided(d)'
  PROVE  WayBack'
  BY DEF WayBack, NoneUndecided

\* Between the phases that touch files nothing but the way back is required.
LEMMA Resting ==
  ASSUME WayBack', pc' \in {"idle", "recover", "scan", "plan", "abort"}
  PROVE  Authority'
  BY DEF Authority, Untouched, Armed, Settled, At

\* An undecided image proves that the visible journal is the batch's.
LEMMA JournalOfUndecided ==
  ASSUME TypeOK, WayBack, NEW d \in Docs, NEW s \in dir[d].disk, Undecided(s)
  PROVE  OfBatch(journal)
  BY DEF TypeOK, WayBack, journal, Directories

\* Without tampering what is about to be renamed is what the journal says.
LEMMA TrustedIs ==
  ASSUME Trust, Untampered, NEW x \in Docs \X Roles, Trusted(x)
  PROVE  Authentic(held, x)
  BY DEF Trust

LEMMA AuthorityStep ==
  ASSUME TypeOK, OnBatch, Trust, TypeOK', Authority, [Next]_vars, Untampered'
  PROVE  Authority'
<1> USE DEF At, Goto, Gone, Exit
<1>t. /\ dir \in [Docs -> Directories(DocImages)] /\ root \in Directories(RootImages)
      /\ held \in Journals /\ held' \in Journals
      /\ \A d \in Docs : Now(d) \in dir[d].disk
      /\ root.now \in root.disk /\ held \notin {None, Foreign}
  BY FilesAssumption DEF TypeOK, Now, Directories
<1>v. Untampered
  BY TamperStep
<1>w. WayBack
  BY DEF Authority
<1>q. ASSUME UNCHANGED <<dir, root, held, decided>> PROVE WayBack'
  BY <1>w, <1>q DEF WayBack, Undecided, BeforeStage, OfBatch, Batch
<1>1. CASE Start
  BY <1>1, <1>q, Resting DEF Start, Begin
<1>2. CASE RecoverNothing \/ RecoverRefused \/ Scan \/ PlanNothing \/ Unstaged
  BY <1>2, <1>q, Resting DEF RecoverNothing, RecoverRefused, Scan, PlanNothing, Unstaged
<1>3. CASE RecoverPrepared
  <2>1. held' = journal /\ UNCHANGED <<dir, root, decided>>
        /\ pc' = "classify" /\ todo' = Batch(journal)
    BY <1>3 DEF RecoverPrepared, StartRollback
  <2>2. WayBack'
    <3> SUFFICES ASSUME NEW d \in Docs, NEW s \in dir[d].disk, Undecided(s)
                 PROVE  /\ s.by = held'.txn /\ d \in Batch(held')
                        /\ s.dest = Reconciled[held'.img[d]]
                        /\ s.before = BeforeStage(d)'
                        /\ \A r \in root.disk : OfBatch(r.journal)'
      BY <2>1 DEF WayBack, Undecided
    <3>1. OfBatch(journal)
      BY <1>w, JournalOfUndecided
    <3>2. held'.txn = held.txn /\ held'.img = held.img
      BY <2>1, <3>1 DEF OfBatch
    <3> QED BY <1>w, <3>2 DEF WayBack, BeforeStage, OfBatch, Batch
  <2> QED BY <2>1, <2>2 DEF Authority, Untouched, Armed, Settled
<1>4. CASE RecoverCommitted
  <2>1. /\ held' = journal /\ decided' = decided \cup {journal.txn}
        /\ UNCHANGED <<dir, root>> /\ pc' = "cleanup"
    BY <1>4 DEF RecoverCommitted, StartCleanup
  <2>2. \A d \in Docs : NoneUndecided(d)'
    <3> SUFFICES ASSUME NEW d \in Docs, NEW s \in dir[d].disk, Undecided(s)'
                 PROVE  FALSE
      BY <2>1 DEF NoneUndecided
    <3>1. Undecided(s) /\ s.by # journal.txn
      BY <2>1 DEF Undecided
    <3>2. OfBatch(journal) /\ s.by = held.txn
      BY <1>w, <3>1, JournalOfUndecided DEF WayBack
    <3> QED BY <3>1, <3>2 DEF OfBatch
  <2>3. \A d \in Docs : ~Undecided(Now(d))'
    BY <1>t, <2>1, <2>2 DEF NoneUndecided, Now
  <2> QED BY <2>1, <2>2, <2>3, WayVoid, <1>t DEF Authority, Untouched, Armed, Settled, Batch
<1>5. CASE \E S \in SUBSET Docs : Plan(S)
  <2>1. PICK S \in SUBSET Docs : Plan(S)
    BY <1>5
  <2>2. /\ journal = None /\ UNCHANGED <<dir, root, decided>>
        /\ pc' = "stage" /\ left' = S \X Roles
        /\ held'.img = [d \in Docs |-> IF d \in S THEN Now(d).dest ELSE None]
    BY <2>1 DEF Plan
  <2>3. \A d \in Docs : NoneUndecided(d)'
    BY <1>w, <2>2, JournalOfUndecided DEF NoneUndecided, Undecided, OfBatch
  <2>4. Batch(held') \subseteq S
    BY <2>2 DEF Batch
  <2>5. Armed'
    BY <2>2, <2>4 DEF Armed, Roles
  <2> QED BY <2>2, <2>3, <2>5, WayVoid DEF Authority, Untouched, Settled
<1>6. CASE Publish
  <2>1. PICK o \in AtomicCreate(held) :
          /\ root' = o.dir
          /\ pc' = IF journal # None THEN "unstage" ELSE IF o.ok THEN "load" ELSE "unpublish"
    BY <1>6 DEF Publish
  <2>2. At("stage") /\ left = {} /\ UNCHANGED <<dir, held, decided>>
    BY <1>6 DEF Publish
  <2>3. \A d \in Docs : NoneUndecided(d)'
    BY <2>2 DEF Authority, Untouched, NoneUndecided, Undecided
  <2>4. \A d \in Batch(held) : \A s \in dir[d].disk : s.before = BeforeStage(d)
    BY <2>2 DEF Authority, Armed
  <2>5. pc' = "load" => \A r \in root'.disk : OfBatch(r.journal)'
    BY <1>t, <2>1, <2>2, AtomicImages DEF OfBatch
  <2>6. pc' \in {"unstage", "load", "unpublish"}
    BY <2>1
  <2> QED BY <2>2, <2>3, <2>4, <2>5, <2>6, WayVoid
          DEF Authority, Untouched, Armed, Settled, BeforeStage, Batch
<1>7. CASE Unpublish
  <2>1. At("unpublish") /\ UNCHANGED <<dir, root, held, decided>>
        /\ pc' \in {"cleanup", "idle", "unstage"}
    BY <1>7 DEF Unpublish, StartCleanup
  <2>2. \A d \in Docs : NoneUndecided(d)'
    BY <2>1 DEF Authority, Untouched, NoneUndecided, Undecided
  <2>3. \A d \in Docs : ~Undecided(Now(d))'
    BY <1>t, <2>1, <2>2 DEF NoneUndecided, Now
  <2> QED BY <2>1, <2>2, <2>3, WayVoid DEF Authority, Untouched, Armed, Settled, Batch
<1>8. CASE Load
  <2>1. At("load") /\ UNCHANGED <<dir, root, held, decided>> /\ pc' \in {"fingerprint", "idle"}
    BY <1>8 DEF Load
  <2> QED BY <1>q, <2>1 DEF Authority, Untouched, Armed, Settled, OfBatch, BeforeStage, Batch
<1>9. CASE \E x \in Docs \X Roles : Stage(x)
  <2>1. PICK x \in Docs \X Roles : Stage(x)
    BY <1>9
  <2> DEFINE d == x[1]
             ok == With(x, [txn |-> held.txn, data |-> Image(held, x)])
             torn == With(x, [txn |-> held.txn, data |-> Torn])
  <2>2. At("stage") /\ d \in Docs /\ UNCHANGED <<root, held, decided>>
    BY <2>1 DEF Stage
  <2>3. ok.by = Now(d).by /\ torn.by = Now(d).by
        /\ ok.before = IF x[2] = "before" THEN [txn |-> held.txn, data |-> Image(held, x)]
                       ELSE Now(d).before
    BY DEF With
  <2>4. \A e \in Docs : NoneUndecided(e)
    BY <2>2 DEF Authority, Untouched
  <2>5. ~Undecided(Now(d)) /\ ~Undecided(ok) /\ ~Undecided(torn)
    BY <1>t, <2>2, <2>3, <2>4 DEF NoneUndecided, Undecided
  <2>6. \/ /\ dir' = [dir EXCEPT ![d] = Durable(ok)]
           /\ left' = left \ {x} /\ pc' = "stage"
        \/ /\ \E D \in {dir[d], Unsynced(dir[d], torn)} : dir' = [dir EXCEPT ![d] = D]
           /\ pc' = "unstage"
    BY <2>1 DEF Stage
  <2> HIDE DEF d, ok, torn
  <2>7. Durable(ok).disk = {ok} /\ Unsynced(dir[d], torn).disk = dir[d].disk \cup {torn}
    BY DEF Durable, Unsynced
  <2>8. CASE /\ dir' = [dir EXCEPT ![d] = Durable(ok)]
             /\ left' = left \ {x} /\ pc' = "stage"
    <3>1. dir'[d].disk = {ok} /\ \A e \in Docs \ {d} : dir'[e] = dir[e]
      BY <1>t, <2>2, <2>7, <2>8, OneChanged
    <3>2. \A e \in Docs : NoneUndecided(e)'
      BY <2>2, <2>4, <2>5, <3>1 DEF NoneUndecided, Undecided
    <3>3. ASSUME NEW e \in Batch(held), <<e, "before">> \notin left',
                 NEW s \in dir'[e].disk
          PROVE  s.before = BeforeStage(e)
      <4>1. e \in Docs
        BY DEF Batch
      <4>2. CASE e # d
        <5>1. <<e, "before">> \notin left
          BY <2>8, <3>3, <4>2 DEF d
        <5> QED BY <2>2, <3>1, <3>3, <4>1, <4>2, <5>1 DEF Authority, Armed
      <4>3. CASE e = d /\ x[2] = "before"
        BY <2>3, <3>1, <3>3, <4>3 DEF BeforeStage, Image, d
      <4>4. CASE e = d /\ x[2] # "before"
        <5>1. <<e, "before">> \notin left
          BY <2>8, <3>3, <4>4 DEF d
        <5>2. Now(d).before = BeforeStage(e)
          BY <1>t, <2>2, <4>4, <5>1 DEF Authority, Armed
        <5> QED BY <2>3, <3>1, <3>3, <4>4, <5>2
      <4> QED BY <4>2, <4>3, <4>4
    <3>4. Armed'
      BY <2>2, <2>8, <3>3 DEF Armed, BeforeStage, Batch
    <3> QED BY <2>8, <3>2, <3>4, WayVoid DEF Authority, Untouched, Settled
  <2>9. CASE /\ \E D \in {dir[d], Unsynced(dir[d], torn)} : dir' = [dir EXCEPT ![d] = D]
             /\ pc' = "unstage"
    <3>1. PICK D \in {dir[d], Unsynced(dir[d], torn)} : dir' = [dir EXCEPT ![d] = D]
      BY <2>9
    <3>2. dir'[d] = D /\ \A e \in Docs \ {d} : dir'[e] = dir[e]
      BY <1>t, <2>2, <3>1, OneChanged
    <3>3. dir'[d].disk \subseteq dir[d].disk \cup {torn}
      BY <2>7, <3>1, <3>2
    <3>4. \A e \in Docs : NoneUndecided(e)'
      BY <2>2, <2>4, <2>5, <3>2, <3>3 DEF NoneUndecided, Undecided
    <3> QED BY <2>9, <3>4, WayVoid DEF Authority, Untouched, Armed, Settled
  <2> QED BY <2>6, <2>8, <2>9
<1>10. CASE \E x \in Docs \X Roles : Unstage(x)
  <2>1. PICK x \in Docs \X Roles : Unstage(x)
    BY <1>10
  <2> DEFINE d == x[1]
  <2>2. At("unstage") /\ d \in Docs /\ UNCHANGED <<root, held, decided, pc>>
    BY <2>1 DEF Unstage
  <2>3. PICK o \in Primitive(dir[d], With(x, None)) : dir' = [dir EXCEPT ![d] = o.dir]
    BY <2>1 DEF Unstage
  <2>4. With(x, None).by = Now(d).by
    BY DEF With
  <2> HIDE DEF d
  <2>5. dir'[d] = o.dir /\ \A e \in Docs \ {d} : dir'[e] = dir[e]
    BY <1>t, <2>2, <2>3, OneChanged
  <2>6. dir'[d].disk \subseteq dir[d].disk \cup {With(x, None)}
    BY <2>5, PrimitiveImages
  <2>7. \A e \in Docs : NoneUndecided(e)
    BY <2>2 DEF Authority, Untouched
  <2>8. \A e \in Docs : NoneUndecided(e)'
    BY <1>t, <2>2, <2>4, <2>5, <2>6, <2>7 DEF NoneUndecided, Undecided
  <2> QED BY <2>2, <2>8, WayVoid DEF Authority, Untouched, Armed, Settled
<1>11. CASE Mark
  <2>1. PICK o \in AtomicReplace(Committed(held)) :
          /\ root' = o.dir
          /\ \/ /\ held' = Committed(held)
                /\ decided' = decided \cup {held.txn}
                /\ pc' \in {"cleanup", "idle"}
             \/ ~o.ok /\ pc' = "reset" /\ UNCHANGED <<held, decided>>
    BY <1>11 DEF Mark, StartCleanup
  <2>2. At("fingerprint") /\ UNCHANGED dir
    BY <1>11 DEF Mark
  <2>3. CASE decided' = decided \cup {held.txn} /\ pc' \in {"cleanup", "idle"}
    <3>1. \A d \in Docs : NoneUndecided(d)'
      BY <1>w, <2>2, <2>3 DEF WayBack, NoneUndecided, Undecided
    <3>2. \A d \in Docs : ~Undecided(Now(d))'
      BY <1>t, <2>2, <3>1 DEF NoneUndecided, Now
    <3> QED BY <2>3, <3>1, <3>2, WayVoid DEF Authority, Untouched, Armed, Settled, Batch
  <2>4. CASE pc' = "reset" /\ UNCHANGED <<held, decided>>
    <3>1. \A r \in root.disk : OfBatch(r.journal)
      BY <2>2 DEF Authority, Armed
    <3>2. OfBatch(Committed(held))
      BY <1>t, CommittedType, FilesAssumption DEF OfBatch
    <3>3. \A r \in root'.disk : OfBatch(r.journal)
      BY <1>t, <2>1, <3>1, <3>2, CommittedType, AtomicImages
    <3>4. WayBack'
      BY <1>w, <2>2, <2>4, <3>3, WayKept
    <3> QED BY <2>4, <3>3, <3>4 DEF Authority, Untouched, Armed, Settled, OfBatch
  <2> QED BY <2>1, <2>3, <2>4
<1>12. CASE Reset
  <2>1. At("reset") /\ UNCHANGED <<dir, held, decided>> /\ pc' \in {"abort", "idle"}
    BY <1>12 DEF Reset
  <2>2. \A r \in root.disk : OfBatch(r.journal)
    BY <2>1 DEF Authority, Armed
  <2>3. \/ UNCHANGED root
        \/ \E o \in AtomicCreate(held) \cup AtomicReplace(held) : root' = o.dir
    BY <1>12 DEF Reset
  <2>4. OfBatch(held)
    BY <1>t DEF OfBatch
  <2>5. \A r \in root'.disk : OfBatch(r.journal)
    BY <1>t, <2>2, <2>3, <2>4, AtomicImages
  <2> QED BY <1>w, <2>1, <2>5, WayKept, Resting
<1>13. CASE \E d \in Docs : Fingerprint(d)
  <2>1. /\ At("fingerprint") /\ pc' \in {"checkAfter", "abort"}
        /\ UNCHANGED <<dir, root, held, decided>>
    BY <1>13 DEF Fingerprint
  <2> QED BY <1>q, <2>1 DEF Authority, Untouched, Armed, Settled, OfBatch, BeforeStage, Batch
<1>14. CASE \E d \in Docs : Replace(d)
  <2>1. PICK d \in Docs : Replace(d)
    BY <1>14
  <2>2. /\ At("replace") /\ First(d, todo) /\ d \in Batch(held)
        /\ UNCHANGED <<root, held, decided>> /\ pc' \in {"fingerprint", "abort"}
    BY <2>1 DEF Replace, First, OnBatch
  <2>a. Authentic(held, <<d, "after">>)
    BY <1>v, <2>2, TrustedIs DEF Trusted, Roles
  <2>3. PICK o \in Primitive(dir[d], Replaced(d)) : dir' = [dir EXCEPT ![d] = o.dir]
    BY <2>1, ReplaceForms
  <2>4. /\ \A r \in root.disk : OfBatch(r.journal)
        /\ \A e \in Batch(held) : \A s \in dir[e].disk : s.before = BeforeStage(e)
    BY <2>2 DEF Authority, Armed
  <2>5. /\ Replaced(d).by = held.txn /\ Replaced(d).before = BeforeStage(d)
        /\ Replaced(d).dest = Reconciled[held.img[d]]
    BY <1>t, <2>2, <2>a, <2>4 DEF Replaced, Authentic, Slot, Image
  <2>6. dir'[d] = o.dir /\ \A e \in Docs \ {d} : dir'[e] = dir[e]
    BY <1>t, <2>3, OneChanged
  <2>7. dir'[d].disk \subseteq dir[d].disk \cup {Replaced(d)}
    BY <2>6, PrimitiveImages
  <2>8. WayBack'
    BY <1>w, <2>2, <2>4, <2>5, <2>6, <2>7
       DEF WayBack, Undecided, BeforeStage, OfBatch, Batch
  <2>9. \A e \in Batch(held) : \A s \in dir'[e].disk : s.before = BeforeStage(e)
    BY <2>4, <2>5, <2>6, <2>7 DEF Batch
  <2> QED BY <2>2, <2>4, <2>8, <2>9
          DEF Authority, Untouched, Armed, Settled, OfBatch, BeforeStage, Batch
<1>15. CASE Abort \/ \E d \in Docs : ReplaceRefused(d)
  <2>1. /\ UNCHANGED <<dir, root, held, decided>>
        /\ pc' = "idle" \/ (pc' = "classify" /\ todo' = Batch(held'))
    BY <1>15 DEF Abort, ReplaceRefused, StartRollback
  <2> QED BY <1>q, <2>1 DEF Authority, Untouched, Armed, Settled
<1>16. CASE Settle
  <2>1. /\ At("classify") /\ todo = {} /\ UNCHANGED <<dir, root, held, decided>>
        /\ pc' = "idle" \/ (pc' = "cleanup" /\ left' = Images(held))
    BY <1>16 DEF Settle, StartCleanup
  <2>2. \A d \in Batch(held) : ~Undecided(Now(d))'
    BY <2>1 DEF Authority, Settled, Undecided, Now
  <2>3. \A d \in Batch(held) : <<d, "before">> \in Images(held)
    BY DEF Images, Roles
  <2> QED BY <1>q, <2>1, <2>2, <2>3 DEF Authority, Untouched, Armed, Settled, Batch
<1>17. CASE \E d \in Docs : Classify(d)
  <2>1. PICK d \in Docs : Classify(d)
    BY <1>17
  <2>2. /\ At("classify") /\ d \in Batch(held) /\ UNCHANGED <<dir, root, held, decided>>
        /\ \/ pc' = "checkBefore" /\ UNCHANGED todo
           \/ /\ pc' = "classify" /\ todo' = todo \ {d}
              /\ Now(d).dest # Image(held, <<d, "after">>)
    BY <2>1 DEF Classify, Last, OnBatch
  <2>3. \A e \in Batch(held) \ todo : ~Undecided(Now(e))
    BY <2>2 DEF Authority, Settled
  <2>4. todo' # todo => ~Undecided(Now(d))
    BY <1>t, <1>w, <2>2 DEF WayBack, Image
  <2>5. \A e \in Batch(held) \ todo' : ~Undecided(Now(e))
    BY <2>2, <2>3, <2>4
  <2> QED BY <1>q, <2>2, <2>5
          DEF Authority, Untouched, Armed, Settled, Undecided, Now, Batch
<1>18. CASE \E d \in Docs : Restore(d)
  <2>1. PICK d \in Docs : Restore(d)
    BY <1>18
  <2>2. /\ At("restore") /\ UNCHANGED <<root, held, decided>>
    BY <2>1 DEF Restore
  <2>3. PICK o \in Primitive(dir[d], Restored(d)) :
          /\ dir' = [dir EXCEPT ![d] = o.dir]
          /\ \/ o.ok /\ pc' = "classify" /\ todo' = todo \ {d}
             \/ pc' = "idle"
    BY <2>1, RestoreForms
  <2>4. ~Undecided(Restored(d))
    BY DEF Undecided, Restored
  <2>5. dir'[d] = o.dir /\ \A e \in Docs \ {d} : dir'[e] = dir[e]
    BY <1>t, <2>3, OneChanged
  <2>6. dir'[d].disk \subseteq dir[d].disk \cup {Restored(d)}
    BY <2>5, PrimitiveImages
  <2>7. WayBack'
    BY <1>w, <2>2, <2>4, <2>5, <2>6, WayKept
  <2>8. CASE o.ok /\ pc' = "classify" /\ todo' = todo \ {d}
    <3>1. Now(d)' = Restored(d)
      <4>1. dir'[d] = Durable(Restored(d))
        BY <2>5, <2>8, PrimitiveImages
      <4> QED BY <4>1 DEF Now, Durable
    <3>2. \A e \in Batch(held) \ todo : ~Undecided(Now(e))
      BY <2>2 DEF Authority, Settled
    <3>3. \A e \in Batch(held) \ todo' : ~Undecided(Now(e))'
      BY <2>2, <2>4, <2>5, <2>8, <3>1, <3>2 DEF Undecided, Now, Batch
    <3> QED BY <2>2, <2>7, <2>8, <3>3 DEF Authority, Untouched, Armed, Settled, Batch
  <2> QED BY <2>3, <2>7, <2>8, Resting
<1>19. CASE \/ \E d \in Docs : RestoreRefused(d)
            \/ \E x \in Docs \X Roles : CleanStageRefused(x)
  BY <1>19, <1>q, Resting DEF RestoreRefused, CleanStageRefused
<1>20. CASE \E x \in Docs \X Roles : CleanStage(x)
  <2>1. PICK x \in Docs \X Roles : CleanStage(x)
    BY <1>20
  <2> DEFINE d == x[1]
             cleaned == IF Present(held, x) THEN With(x, None) ELSE Now(d)
  <2>2. /\ At("cleanup") /\ x \in Images(held) /\ UNCHANGED <<root, held, decided>>
    BY <2>1 DEF CleanStage, FirstImage, OnBatch
  <2>3. PICK o \in Primitive(dir[d], cleaned) :
          /\ dir' = [dir EXCEPT ![d] = o.dir]
          /\ \/ o.ok /\ pc' = "cleanup" /\ left' = left \ {x}
             \/ pc' = "idle"
    BY <2>1 DEF CleanStage, Cleaned
  <2>4. d \in Docs /\ d \in Batch(held) /\ cleaned.by = Now(d).by
    BY <2>2 DEF Images, With
  <2>5. x[1] = d
    OBVIOUS
  <2> HIDE DEF d, cleaned
  <2>6. \A e \in Batch(held) : ~Undecided(Now(e))
                               /\ (<<e, "before">> \notin left => NoneUndecided(e))
    BY <2>2 DEF Authority, Settled
  <2>7. ~Undecided(cleaned)
    BY <2>4, <2>6 DEF Undecided
  <2>8. dir'[d] = o.dir /\ \A e \in Docs \ {d} : dir'[e] = dir[e]
    BY <1>t, <2>3, <2>4, OneChanged
  <2>9. dir'[d].disk \subseteq dir[d].disk \cup {cleaned}
    BY <2>8, PrimitiveImages
  <2>10. WayBack'
    BY <1>w, <2>2, <2>7, <2>8, <2>9, WayKept
  <2>11. CASE o.ok /\ pc' = "cleanup" /\ left' = left \ {x}
    <3>1. dir'[d] = Durable(cleaned)
      BY <2>8, <2>11, PrimitiveImages
    <3>2. Now(d)' = cleaned /\ dir'[d].disk = {cleaned}
      BY <3>1 DEF Now, Durable
    <3>3. ~Undecided(Now(d))' /\ NoneUndecided(d)'
      BY <2>2, <2>7, <3>2 DEF NoneUndecided, Undecided
    <3>4. ASSUME NEW e \in Batch(held) \ {d}
          PROVE  ~Undecided(Now(e))' /\ (<<e, "before">> \notin left' => NoneUndecided(e)')
      <4>1. <<e, "before">> \notin left' => <<e, "before">> \notin left
        BY <2>5, <2>11
      <4>2. dir'[e] = dir[e]
        BY <2>8 DEF Batch
      <4> QED BY <2>2, <2>6, <4>1, <4>2 DEF NoneUndecided, Undecided, Now
    <3> QED BY <2>2, <2>10, <2>11, <3>3, <3>4 DEF Authority, Untouched, Armed, Settled, Batch
  <2> QED BY <2>3, <2>10, <2>11, Resting
<1>21. CASE UnlinkJournal \/ RestoreJournal
  <2>1. UNCHANGED <<dir, held, decided>> /\ pc' \in {"idle", "scan", "restoreJournal"}
    BY <1>21 DEF UnlinkJournal, RestoreJournal, Finish
  <2>2. \A d \in Docs : NoneUndecided(d)
    <3>1. CASE UnlinkJournal
      <4>1. At("cleanup") /\ left = {}
        BY <3>1 DEF UnlinkJournal
      <4>2. \A d \in Batch(held) : NoneUndecided(d)
        BY <4>1 DEF Authority, Settled
      <4> QED BY <1>w, <4>2 DEF WayBack, NoneUndecided
    <3>2. CASE RestoreJournal
      BY <3>2 DEF RestoreJournal, Authority, Untouched
    <3> QED BY <1>21, <3>1, <3>2
  <2>3. \A d \in Docs : NoneUndecided(d)'
    BY <2>1, <2>2 DEF NoneUndecided, Undecided
  <2> QED BY <2>1, <2>3, WayVoid DEF Authority, Untouched, Armed, Settled
<1>22. CASE ReadFault \/ Crash
  BY <1>22, <1>q, Resting DEF ReadFault, Crash
<1>23. CASE PowerLoss
  <2>1. pc' = "idle" /\ UNCHANGED <<held, decided>>
    BY <1>23 DEF PowerLoss
  <2>2. PICK kept \in [Docs -> UNION {dir[d].disk : d \in Docs}] :
          /\ \A d \in Docs : kept[d] \in dir[d].disk
          /\ dir' = [d \in Docs |-> Durable(kept[d])]
    BY <1>23 DEF PowerLoss
  <2>3. PICK image \in root.disk : root' = Durable(image)
    BY <1>23 DEF PowerLoss
  <2>4. \A d \in Docs : dir'[d].disk \subseteq dir[d].disk
    BY <2>2 DEF Durable
  <2>5. root'.disk \subseteq root.disk
    BY <2>3 DEF Durable
  <2> QED BY <1>w, <2>1, <2>4, <2>5, WayKept, Resting
<1>24. CASE TamperJournal \/ \E x \in Docs \X Roles : TamperStage(x)
  BY <1>24, TamperCounts DEF TamperJournal, TamperStage, TypeOK
<1>25. CASE SetAside
  <2>1. /\ pc' = "idle" /\ UNCHANGED decided
        /\ dir' = [d \in Docs |-> Durable([dest |-> Now(d).dest, by |-> User,
                                            before |-> None, after |-> None])]
    BY <1>25 DEF SetAside
  <2>2. \A d \in Docs : NoneUndecided(d)'
    BY <2>1 DEF NoneUndecided, Undecided, Durable
  <2> QED BY <2>1, <2>2, WayVoid, Resting
<1>26. CASE \E d \in Docs, b \in EditBytes : Edit(d, b)
  <2>1. PICK d \in Docs, b \in EditBytes : Edit(d, b)
    BY <1>26
  <2> DEFINE edit == [dest |-> b, by |-> User, before |-> Now(d).before,
                      after |-> Now(d).after]
  <2>2. UNCHANGED <<root, pc, work, held, decided>>
        /\ dir' = [dir EXCEPT ![d] = Unsynced(dir[d], edit)]
    BY <2>1 DEF Edit
  <2>3. ~Undecided(edit) /\ edit.before = Now(d).before
    BY DEF Undecided
  <2> HIDE DEF edit
  <2>4. dir'[d] = Unsynced(dir[d], edit) /\ \A e \in Docs \ {d} : dir'[e] = dir[e]
    BY <1>t, <2>2, OneChanged
  <2>5. dir'[d].disk = dir[d].disk \cup {edit} /\ Now(d)' = edit
    BY <2>4 DEF Unsynced, Now
  <2>6. WayBack'
    BY <1>w, <2>2, <2>3, <2>4, <2>5, WayKept
  <2>7. \A e \in Docs : NoneUndecided(e) => NoneUndecided(e)'
    BY <2>2, <2>3, <2>4, <2>5 DEF NoneUndecided, Undecided
  <2>8. \A e \in Docs : ~Undecided(Now(e)) => ~Undecided(Now(e))'
    BY <2>2, <2>3, <2>4, <2>5 DEF Undecided, Now
  <2>9. \A e \in Docs : (\A s \in dir[e].disk : s.before = BeforeStage(e))
                          => \A s \in dir'[e].disk : s.before = BeforeStage(e)
    BY <1>t, <2>3, <2>4, <2>5
  <2>10. Untouched'
    BY <2>2, <2>7 DEF Authority, Untouched
  <2>11. Armed'
    BY <2>2, <2>9 DEF Authority, Armed, work, OfBatch, BeforeStage, Batch
  <2>12. Settled'
    BY <2>2, <2>7, <2>8 DEF Authority, Settled, work, Batch
  <2> QED BY <2>6, <2>10, <2>11, <2>12 DEF Authority
<1>27. CASE UNCHANGED vars
  BY <1>27, <1>q DEF vars, Authority, Untouched, Armed, Settled, NoneUndecided, Undecided,
                     OfBatch, BeforeStage, Batch, Now
<1>28. CASE \E d \in Docs : Authenticate(d) \/ AuthenticateBefore(d)
  <2>1. /\ UNCHANGED <<dir, root, held, decided, todo>>
        /\ \/ At("checkAfter") /\ pc' = "replace"
           \/ At("checkBefore") /\ pc' = "restore"
    BY <1>28 DEF Authenticate, AuthenticateBefore, work
  <2> QED BY <1>q, <2>1 DEF Authority, Untouched, Armed, Settled, Undecided, Now, OfBatch,
                            BeforeStage, Batch
<1> QED
  BY <1>1, <1>2, <1>3, <1>4, <1>5, <1>6, <1>7, <1>8, <1>9, <1>10, <1>11, <1>12, <1>13,
     <1>14, <1>15, <1>16, <1>17, <1>18, <1>19, <1>20, <1>21, <1>22, <1>23, <1>24, <1>25,
     <1>26, <1>27, <1>28
     DEF Next, Process, Environment, Recovery, Preparation, Commit, Rollback, Cleanup

\* Only tampering taints.
LEMMA TaintOrigin ==
  ASSUME [Next]_vars, ~(\E x \in Docs \X Roles : TamperStage(x))
  PROVE  tainted' = tainted
<1> USE DEF marks
<1>1. CASE Start \/ Recovery
  BY <1>1 DEF Start, Begin, Recovery, RecoverNothing, RecoverRefused, RecoverPrepared,
              RecoverCommitted, Scan
<1>2. CASE Preparation
  BY <1>2 DEF Preparation, Plan, PlanNothing, Publish, Unpublish, Unstaged, Load, Stage, Unstage
<1>3. CASE Commit
  BY <1>3 DEF Commit, Mark, Reset, Fingerprint, Authenticate, Replace, ReplaceRefused
<1>4. CASE Rollback
  BY <1>4 DEF Rollback, Abort, Settle, Classify, AuthenticateBefore, Restore, RestoreRefused
<1>5. CASE Cleanup
  BY <1>5 DEF Cleanup, UnlinkJournal, RestoreJournal, CleanStage, CleanStageRefused
<1>6. CASE ReadFault \/ Environment
  BY <1>6 DEF ReadFault, Environment, Crash, PowerLoss, TamperJournal, SetAside, Edit
<1>7. CASE UNCHANGED vars
  BY <1>7 DEF vars
<1> QED BY <1>1, <1>2, <1>3, <1>4, <1>5, <1>6, <1>7 DEF Next, Process

\* Whoever is authenticated is the first, or the last, that is left.
LEMMA OneIsNext ==
  ASSUME NEW S \in SUBSET Docs, NEW d \in Docs, NEW e \in Docs
  PROVE  /\ First(d, S) /\ First(e, S) => d = e
         /\ Last(d, S) /\ Last(e, S) => d = e
<1>1. d \in Nat /\ e \in Nat
  BY NAssumption DEF Docs
<1> QED BY <1>1 DEF First, Last

LEMMA TrustStep ==
  ASSUME TypeOK, Trust, [Next]_vars
  PROVE  Trust'
<1> USE DEF At, Goto, work, marks
<1>t. dir \in [Docs -> Directories(DocImages)] /\ todo \subseteq Docs
  BY DEF TypeOK
<1>1. ASSUME Untampered' PROVE tainted' = {}
  <2>1. Untampered /\ tainted = {}
    BY <1>1, TamperStep DEF Trust
  <2>2. ~(\E x \in Docs \X Roles : TamperStage(x))
    BY <1>1, TamperCounts DEF TamperStage, TypeOK
  <2> QED BY <2>1, <2>2, TaintOrigin
<1>2. ASSUME NEW x \in Docs \X Roles, Trusted(x)'
      PROVE  \/ Authentic(held, x)'
             \/ x[1] \in tainted' /\ (Present(held, x)' => Slot(x)'.data = Torn)
  <2>1. pc' \in {"replace", "restore"} /\ x[1] \in Docs
    BY <1>2 DEF Trusted
  <2>a. ASSUME Slot(x)' = Slot(x), UNCHANGED held
        PROVE  /\ Authentic(held, x)' <=> Authentic(held, x)
               /\ Present(held, x)' <=> Present(held, x)
    BY <2>a DEF Authentic, Present, Image
  <2>2. CASE \E d \in Docs : Authenticate(d) \/ AuthenticateBefore(d)
    <3>1. PICK d \in Docs : Authenticate(d) \/ AuthenticateBefore(d)
      BY <2>2
    <3>2. UNCHANGED <<dir, held, todo>>
      BY <3>1 DEF Authenticate, AuthenticateBefore
    <3>3. CASE Authenticate(d)
      <4>1. First(d, todo) /\ pc' = "replace" /\ Authentic(held, <<d, "after">>)
        BY <3>3 DEF Authenticate
      <4>2. First(x[1], todo) /\ x[2] = "after"
        BY <1>2, <3>2, <4>1 DEF Trusted, First
      <4>3. x = <<d, "after">>
        BY <1>t, <2>1, <4>1, <4>2, OneIsNext
      <4> QED BY <2>a, <3>2, <4>1, <4>3 DEF Slot, Now
    <3>4. CASE AuthenticateBefore(d)
      <4>1. Last(d, todo) /\ pc' = "restore" /\ Authentic(held, <<d, "before">>)
        BY <3>4 DEF AuthenticateBefore
      <4>2. Last(x[1], todo) /\ x[2] = "before"
        BY <1>2, <3>2, <4>1 DEF Trusted, Last
      <4>3. x = <<d, "before">>
        BY <1>t, <2>1, <4>1, <4>2, OneIsNext
      <4> QED BY <2>a, <3>2, <4>1, <4>3 DEF Slot, Now
    <3> QED BY <3>1, <3>3, <3>4
  <2>3. CASE Outside
    <3>1. UNCHANGED <<pc, todo, held>>
      BY <2>3 DEF Outside, TamperJournal, TamperStage, Edit, vars
    <3>2. Trusted(x)
      BY <1>2, <3>1 DEF Trusted, First, Last
    <3>3. \/ Authentic(held, x)
          \/ x[1] \in tainted /\ (Present(held, x) => Slot(x).data = Torn)
      BY <3>2 DEF Trust
    <3>4. CASE TamperJournal \/ UNCHANGED vars
      BY <2>a, <3>1, <3>3, <3>4 DEF TamperJournal, vars, Slot, Now
    <3>5. ASSUME NEW d \in Docs, NEW b \in EditBytes, Edit(d, b)
          PROVE  \/ Authentic(held, x)'
                 \/ x[1] \in tainted' /\ (Present(held, x)' => Slot(x)'.data = Torn)
      <4> DEFINE img == [dest |-> b, by |-> User, before |-> Now(d).before,
                         after |-> Now(d).after]
      <4>1. dir' = [dir EXCEPT ![d] = Unsynced(dir[d], img)] /\ tainted' = tainted
        BY <3>5 DEF Edit
      <4>2. img.before = Now(d).before /\ img.after = Now(d).after
        OBVIOUS
      <4> HIDE DEF img
      <4>3. Now(d)' = img /\ \A e \in Docs \ {d} : Now(e)' = Now(e)
        BY <1>t, <4>1, OneChanged DEF Unsynced, Now
      <4>4. Slot(x)' = Slot(x)
        BY <2>1, <4>2, <4>3 DEF Slot
      <4> QED BY <2>a, <3>1, <3>3, <4>1, <4>4
    <3>6. ASSUME NEW y \in Docs \X Roles, TamperStage(y)
          PROVE  \/ Authentic(held, x)'
                 \/ x[1] \in tainted' /\ (Present(held, x)' => Slot(x)'.data = Torn)
      <4>1. PICK s \in {None, [Slot(y) EXCEPT !.data = Torn]} :
              dir' = [dir EXCEPT ![y[1]] = Durable(With(y, s))]
        BY <3>6 DEF TamperStage
      <4>2. Slot(y) \in Stages /\ y[1] \in Docs
        BY <1>t, <3>6, SlotTypes DEF TamperStage, Slot
      <4>3. s = None \/ s.data = Torn
        BY <4>1, <4>2 DEF Stages
      <4>4. tainted' = IF Trusted(y) THEN tainted \cup {y[1]} ELSE tainted
        BY <3>6 DEF TamperStage
      <4>5. Now(y[1])' = With(y, s) /\ \A e \in Docs \ {y[1]} : Now(e)' = Now(e)
        BY <1>t, <4>1, <4>2, OneChanged DEF Durable, Now
      <4>6. CASE x = y
        <5>1. Slot(x)' = With(y, s)[x[2]] /\ With(y, s)[x[2]] = s
          BY <4>5, <4>6, Slots, WithSlots DEF Slot
        <5> QED BY <3>2, <4>3, <4>4, <4>6, <5>1 DEF Present
      <4>7. CASE x # y
        <5>1. Slot(x)' = Slot(x)
          <6>1. CASE x[1] = y[1]
            BY <4>5, <4>7, <6>1, Slots, WithSlots DEF Slot
          <6>2. CASE x[1] # y[1]
            BY <2>1, <4>5, <6>2 DEF Slot
          <6> QED BY <6>1, <6>2
        <5> QED BY <2>a, <3>1, <3>3, <4>4, <5>1
      <4> QED BY <4>6, <4>7
    <3> QED BY <2>3, <3>4, <3>5, <3>6 DEF Outside
  <2> QED BY <2>1, <2>2, <2>3, ControlFlow
<1> QED BY <1>1, <1>2 DEF Trust

LEMMA InitTrust ==
  ASSUME Init
  PROVE  Trust
  BY DEF Init, Trust, Trusted, At

\* The inductive invariant of the transaction: types, the shape of the batch in
\* memory, that a stage about to be renamed is the authenticated one or was damaged
\* since, and, as long as nobody tampers, the authority to roll back.
THEOREM Invariance == Spec => []IInv
<1>1. Init => IInv
  <2> SUFFICES ASSUME Init PROVE IInv
    OBVIOUS
  <2>1. TypeOK /\ OnBatch /\ Trust
    BY InitTypes, InitTrust
  <2>2. pc = "idle" /\ \A d \in Docs : \A s \in dir[d].disk : s.by = 0
    BY DEF Init, Durable
  <2>3. WayBack
    BY <2>2 DEF WayBack, Undecided
  <2> QED BY <2>1, <2>2, <2>3 DEF IInv, Authority, Untouched, Armed, Settled, At
<1>2. IInv /\ [Next]_vars => IInv'
  <2> SUFFICES ASSUME IInv, [Next]_vars PROVE IInv'
    OBVIOUS
  <2>1. TypeOK' /\ OnBatch' /\ Trust'
    BY TypeStep, TrustStep DEF IInv
  <2>2. ASSUME Untampered' PROVE Untampered
    BY <2>2, TamperStep DEF IInv
  <2> QED BY <2>1, <2>2, AuthorityStep DEF IInv
<1> QED BY <1>1, <1>2, PTL DEF Spec

\* While a destination holds an after image that is not past the point of no
\* return, its journal is on disk and its before image intact.
THEOREM RollbackAlwaysPossible == Spec => []RollbackAuthority
<1>1. IInv => RollbackAuthority
  <2> SUFFICES ASSUME IInv, Untampered, NEW d \in Docs, Applied(d)
               PROVE  /\ journal \in {held, Committed(held)}
                      /\ Now(d).by = held.txn
                      /\ Authentic(held, <<d, "before">>)
    BY DEF RollbackAuthority
  <2>1. WayBack /\ TypeOK /\ OnBatch
    BY DEF IInv, Authority
  <2>2. Now(d) \in dir[d].disk /\ Undecided(Now(d))
    BY <2>1 DEF TypeOK, Directories, Now, Applied, Undecided
  <2>3. /\ Now(d).by = held.txn /\ d \in Batch(held) /\ Now(d).before = BeforeStage(d)
        /\ held.txn \notin decided
    BY <2>1, <2>2 DEF WayBack, Undecided
  <2>4. OfBatch(journal) /\ journal \in Journals
    BY <2>1, <2>2, JournalOfUndecided, JournalType DEF OfBatch, TypeOK
  <2>5. held \in Journals /\ held.state = "prepared"
    BY <2>1, <2>3 DEF TypeOK, OnBatch, Journals
  <2>6. journal \in {held, Committed(held)}
    <3>1. Committed(held) \in Journals /\ Committed(held).txn = held.txn
          /\ Committed(held).img = held.img /\ Committed(held).state = "committed"
      BY <2>5, CommittedType
    <3>2. journal.txn = held.txn /\ journal.img = held.img
          /\ journal.state \in {"prepared", "committed"}
      BY <2>4 DEF OfBatch, Journals
    <3>3. \A i, j \in Journals : i.txn = j.txn /\ i.img = j.img /\ i.state = j.state => i = j
      BY DEF Journals
    <3> QED BY <2>4, <2>5, <3>1, <3>2, <3>3
  <2>7. Authentic(held, <<d, "before">>)
    <3>1. held.txn \in Nat /\ held.img[d] \in Bytes
      BY <2>3, <2>5 DEF Journals, Batch
    <3>2. BeforeStage(d) # None
      BY <3>1, FilesAssumption DEF BeforeStage, Stages
    <3>3. BeforeStage(d).txn = held.txn /\ BeforeStage(d).data = held.img[d]
      BY DEF BeforeStage
    <3>4. Slot(<<d, "before">>) = BeforeStage(d)
      BY <2>3 DEF Slot
    <3> QED BY <3>2, <3>3, <3>4 DEF Authentic, Present, Image
  <2> QED BY <2>3, <2>6, <2>7
<1> QED BY <1>1, Invariance, PTL

\* The same in every image a power loss may leave.
THEOREM RollbackSurvivesPowerLoss == Spec => []DurableAuthority
<1>1. IInv => DurableAuthority
  <2> SUFFICES ASSUME IInv, Untampered, NEW d \in Docs, NEW s \in dir[d].disk,
                      NEW r \in root.disk, s.by \notin {0, User} \cup decided
               PROVE  /\ r.journal \notin {None, Foreign}
                      /\ r.journal.txn = s.by
                      /\ s.before = [txn |-> s.by, data |-> r.journal.img[d]]
    BY DEF DurableAuthority
  <2>1. WayBack /\ Undecided(s)
    BY DEF IInv, Authority, Undecided
  <2> QED BY <2>1 DEF WayBack, OfBatch, BeforeStage
<1> QED BY <1>1, Invariance, PTL

-----------------------------------------------------------------------------
(***************************************************************************)
(* Slots and images.                                                        *)
(***************************************************************************)

\* What Found says, and what it says of what is shown.
LEMMA FoundIs ==
  ASSUME NEW x \in Docs \X Roles, NEW s \in dir[x[1]].disk, s[x[2]] # None
  PROVE  s[x[2]].txn \in Found(x)
  BY DEF Found

LEMMA FoundShown ==
  ASSUME dir \in [Docs -> Directories(DocImages)], NEW x \in Docs \X Roles, Slot(x) # None
  PROVE  Slot(x).txn \in Found(x)
<1>1. Now(x[1]) \in dir[x[1]].disk
  BY Slots DEF Now, Directories
<1> QED BY <1>1, Slots, FoundIs

\* The images on disk are the ones that were there, and perhaps img.
LEMMA FoundAdds ==
  ASSUME NEW x \in Docs \X Roles, NEW img, dir'[x[1]].disk \subseteq dir[x[1]].disk \cup {img},
         NEW t \in Found(x)'
  PROVE  t \in Found(x) \/ (img[x[2]] # None /\ t = img[x[2]].txn)
<1>1. PICK s \in dir'[x[1]].disk : s[x[2]] # None /\ t = s[x[2]].txn
  BY DEF Found
<1> QED BY <1>1 DEF Found

\* The only image on disk is img.
LEMMA FoundOnly ==
  ASSUME NEW x \in Docs \X Roles, NEW img, dir'[x[1]].disk = {img}, NEW t \in Found(x)'
  PROVE  img[x[2]] # None /\ t = img[x[2]].txn
  BY DEF Found

\* A process that stages x leaves a stage of its own batch; nothing else adds to
\* the stages on disk.
LEMMA StageOrigin ==
  ASSUME TypeOK, [Next]_vars, NEW x \in Docs \X Roles, NEW t \in Found(x)'
  PROVE  t \in Found(x) \/ (Stage(x) /\ t = held.txn)
<1>t. dir \in [Docs -> Directories(DocImages)] /\ x[1] \in Docs
  BY DEF TypeOK
<1>a. ASSUME NEW d \in Docs, NEW D, dir' = [dir EXCEPT ![d] = D],
             NEW img, D.disk \subseteq dir[d].disk \cup {img},
             d = x[1] => img[x[2]] = None \/ (Slot(x) # None /\ img[x[2]].txn = Slot(x).txn)
      PROVE  t \in Found(x)
  <2>1. CASE d = x[1]
    <3>1. dir'[x[1]].disk \subseteq dir[x[1]].disk \cup {img}
      BY <1>t, <1>a, <2>1
    <3>2. t \in Found(x) \/ (img[x[2]] # None /\ t = img[x[2]].txn)
      BY <3>1, FoundAdds
    <3>3. Slot(x) # None => Slot(x).txn \in Found(x)
      BY <1>t, FoundShown
    <3> QED BY <1>a, <2>1, <3>2, <3>3
  <2>2. CASE d # x[1]
    <3>1. dir'[x[1]] = dir[x[1]]
      BY <1>t, <1>a, <2>2
    <3> QED BY <3>1 DEF Found
  <2> QED BY <2>1, <2>2
<1>b. \A D, img : Durable(img).disk = {img} /\ Unsynced(D, img).disk = D.disk \cup {img}
  BY DEF Durable, Unsynced
<1>0. CASE UNCHANGED dir
  BY <1>0 DEF Found
<1>1. ASSUME NEW y \in Docs \X Roles, Stage(y)
      PROVE  t \in Found(x) \/ (Stage(x) /\ t = held.txn)
  <2> DEFINE ok == [txn |-> held.txn, data |-> Image(held, y)]
             torn == [txn |-> held.txn, data |-> Torn]
  <2>1. \/ dir' = [dir EXCEPT ![y[1]] = Durable(With(y, ok))]
        \/ \E D \in {dir[y[1]], Unsynced(dir[y[1]], With(y, torn))} :
             dir' = [dir EXCEPT ![y[1]] = D]
    BY <1>1 DEF Stage
  <2>2. ok.txn = held.txn /\ torn.txn = held.txn /\ y[1] \in Docs
    OBVIOUS
  <2> HIDE DEF ok, torn
  <2>3. \E s \in {ok, torn} : \E D : /\ dir' = [dir EXCEPT ![y[1]] = D]
                                     /\ D.disk \subseteq dir[y[1]].disk \cup {With(y, s)}
    <3>1. CASE dir' = [dir EXCEPT ![y[1]] = Durable(With(y, ok))]
      BY <1>b, <3>1
    <3>2. CASE \E D \in {dir[y[1]], Unsynced(dir[y[1]], With(y, torn))} :
                 dir' = [dir EXCEPT ![y[1]] = D]
      <4>1. PICK D \in {dir[y[1]], Unsynced(dir[y[1]], With(y, torn))} :
              dir' = [dir EXCEPT ![y[1]] = D]
        BY <3>2
      <4>2. D.disk \subseteq dir[y[1]].disk \cup {With(y, torn)}
        BY <1>b, <4>1
      <4> QED BY <4>1, <4>2
    <3> QED BY <2>1, <3>1, <3>2
  <2>4. PICK s \in {ok, torn} : \E D : /\ dir' = [dir EXCEPT ![y[1]] = D]
                                       /\ D.disk \subseteq dir[y[1]].disk \cup {With(y, s)}
    BY <2>3
  <2>5. PICK D : /\ dir' = [dir EXCEPT ![y[1]] = D]
                 /\ D.disk \subseteq dir[y[1]].disk \cup {With(y, s)}
    BY <2>4
  <2>6. CASE x = y
    <3>1. With(y, s)[x[2]] = s
      BY <2>6, WithSlots
    <3>2. dir'[x[1]].disk \subseteq dir[x[1]].disk \cup {With(y, s)}
      BY <1>t, <2>5, <2>6
    <3> QED BY <1>1, <2>2, <2>4, <2>6, <3>1, <3>2, FoundAdds
  <2>7. CASE x # y
    <3>1. y[1] = x[1] => With(y, s)[x[2]] = Slot(x)
      BY <2>7, WithSlots
    <3> QED BY <1>a, <2>2, <2>5, <3>1
  <2> QED BY <2>6, <2>7
<1>2. ASSUME NEW y \in Docs \X Roles, Unstage(y) \/ CleanStage(y) PROVE t \in Found(x)
  <2>1. \E img \in {With(y, None), Now(y[1])} : \E o \in Primitive(dir[y[1]], img) :
          dir' = [dir EXCEPT ![y[1]] = o.dir]
    BY <1>2 DEF Unstage, CleanStage
  <2>2. PICK img \in {With(y, None), Now(y[1])} : \E o \in Primitive(dir[y[1]], img) :
          dir' = [dir EXCEPT ![y[1]] = o.dir]
    BY <2>1
  <2>3. PICK o \in Primitive(dir[y[1]], img) : dir' = [dir EXCEPT ![y[1]] = o.dir]
    BY <2>2
  <2>4. o.dir.disk \subseteq dir[y[1]].disk \cup {img}
    BY PrimitiveImages
  <2>5. y[1] = x[1] => img[x[2]] \in {None, Slot(x)}
    BY <2>2, WithSlots, Slots
  <2> QED BY <1>a, <2>3, <2>4, <2>5
<1>3. ASSUME NEW d \in Docs, Replace(d) \/ Restore(d) PROVE t \in Found(x)
  <2>1. \E img \in {Replaced(d), Restored(d)} : \E o \in Primitive(dir[d], img) :
          dir' = [dir EXCEPT ![d] = o.dir]
    <3>1. CASE Replace(d)
      BY <3>1, ReplaceForms
    <3>2. CASE Restore(d)
      BY <3>2, RestoreForms
    <3> QED BY <1>3, <3>1, <3>2
  <2>2. PICK img \in {Replaced(d), Restored(d)} : \E o \in Primitive(dir[d], img) :
          dir' = [dir EXCEPT ![d] = o.dir]
    BY <2>1
  <2>3. PICK o \in Primitive(dir[d], img) : dir' = [dir EXCEPT ![d] = o.dir]
    BY <2>2
  <2>4. o.dir.disk \subseteq dir[d].disk \cup {img}
    BY PrimitiveImages
  <2>5. d = x[1] => img[x[2]] \in {None, Slot(x)}
    BY <2>2, Slots DEF Replaced, Restored
  <2>6. d = x[1] => img[x[2]] = None \/ (Slot(x) # None /\ img[x[2]].txn = Slot(x).txn)
    BY <2>5
  <2> QED BY <1>a, <2>3, <2>4, <2>6
<1>4. ASSUME PowerLoss PROVE t \in Found(x)
  <2>1. PICK kept \in [Docs -> UNION {dir[d].disk : d \in Docs}] :
          /\ \A d \in Docs : kept[d] \in dir[d].disk
          /\ dir' = [d \in Docs |-> Durable(kept[d])]
    BY <1>4 DEF PowerLoss
  <2>2. dir'[x[1]].disk \subseteq dir[x[1]].disk
    BY <1>t, <1>b, <2>1
  <2> QED BY <2>2 DEF Found
<1>5. ASSUME SetAside PROVE t \in Found(x)
  <2> DEFINE img == [dest |-> Now(x[1]).dest, by |-> User, before |-> None, after |-> None]
  <2>1. dir'[x[1]] = Durable(img)
    BY <1>t, <1>5 DEF SetAside
  <2>2. img[x[2]] = None
    BY Slots
  <2> HIDE DEF img
  <2>3. dir'[x[1]].disk = {img}
    BY <1>b, <2>1
  <2> QED BY <2>2, <2>3, FoundOnly
<1>6. ASSUME NEW d \in Docs, NEW b \in EditBytes, Edit(d, b) PROVE t \in Found(x)
  <2> DEFINE img == [dest |-> b, by |-> User, before |-> Now(d).before, after |-> Now(d).after]
  <2>1. dir' = [dir EXCEPT ![d] = Unsynced(dir[d], img)]
    BY <1>6 DEF Edit
  <2>2. d = x[1] => img[x[2]] = Slot(x)
    BY Slots
  <2> HIDE DEF img
  <2>3. d = x[1] => img[x[2]] = None \/ (Slot(x) # None /\ img[x[2]].txn = Slot(x).txn)
    BY <2>2
  <2>4. Unsynced(dir[d], img).disk \subseteq dir[d].disk \cup {img}
    BY <1>b
  <2> QED BY <1>a, <2>1, <2>3, <2>4
<1>7. ASSUME NEW y \in Docs \X Roles, TamperStage(y) PROVE t \in Found(x)
  <2>1. PICK s \in {None, [Slot(y) EXCEPT !.data = Torn]} :
          dir' = [dir EXCEPT ![y[1]] = Durable(With(y, s))]
    BY <1>7 DEF TamperStage
  <2>2. Slot(y) \in Stages /\ Slot(y) # None /\ y[1] \in Docs
    BY <1>t, <1>7, SlotTypes DEF TamperStage, Slot
  <2>3. s = None \/ s.txn = Slot(y).txn
    BY <2>1, <2>2 DEF Stages
  <2>4. y[1] = x[1] => With(y, s)[x[2]] \in {s, Slot(x)} /\ (x # y => With(y, s)[x[2]] = Slot(x))
    BY WithSlots
  <2>5. y[1] = x[1] => \/ With(y, s)[x[2]] = None
                       \/ Slot(x) # None /\ With(y, s)[x[2]].txn = Slot(x).txn
    BY <2>2, <2>3, <2>4
  <2>6. Durable(With(y, s)).disk \subseteq dir[y[1]].disk \cup {With(y, s)}
    BY <1>b
  <2> QED BY <1>a, <2>1, <2>2, <2>5, <2>6
<1>8. CASE \/ Start \/ Recovery \/ PlanNothing \/ Publish \/ Unpublish \/ Unstaged \/ Load
           \/ Mark \/ Reset \/ Abort \/ Settle \/ UnlinkJournal \/ RestoreJournal
           \/ ReadFault \/ Crash \/ TamperJournal
  <2>1. CASE Start \/ Recovery
    BY <2>1, <1>0 DEF Start, Begin, Recovery, RecoverNothing, RecoverRefused, RecoverPrepared,
                      RecoverCommitted, Scan
  <2> QED BY <1>8, <2>1, <1>0
          DEF PlanNothing, Publish, Unpublish, Unstaged, Load, Mark, Reset, Abort, Settle,
              UnlinkJournal, RestoreJournal, ReadFault, Crash, TamperJournal
<1>9. CASE \/ \E S \in SUBSET Docs : Plan(S)
           \/ \E d \in Docs : \/ Fingerprint(d) \/ Authenticate(d) \/ ReplaceRefused(d)
                              \/ Classify(d) \/ AuthenticateBefore(d) \/ RestoreRefused(d)
           \/ \E y \in Docs \X Roles : CleanStageRefused(y)
           \/ UNCHANGED vars
  BY <1>9, <1>0 DEF Plan, Fingerprint, Authenticate, ReplaceRefused, Classify, AuthenticateBefore,
                    RestoreRefused,
                    CleanStageRefused, vars
<1> QED BY <1>1, <1>2, <1>3, <1>4, <1>5, <1>6, <1>7, <1>8, <1>9
        DEF Next, Process, Environment, Preparation, Commit, Rollback, Cleanup

-----------------------------------------------------------------------------
(***************************************************************************)
(* Journals.                                                                *)
(***************************************************************************)

\* Events are only ever counted up.
LEMMA SpentGrows ==
  ASSUME TypeOK, [Next]_vars, NEW k \in Events
  PROVE  spent'[k] \in Nat /\ spent'[k] >= spent[k]
<1> USE DEF TypeOK
<1>1. CASE UNCHANGED spent
  BY <1>1
<1>2. CASE \E e \in Events : Spend(e)
  BY <1>2 DEF Spend
<1>3. CASE \E ok : Faulty(ok)
  BY <1>1, <1>2, <1>3 DEF Faulty, Events
<1>4. CASE Preparation
  BY <1>1, <1>2, <1>3, <1>4
     DEF Preparation, Plan, PlanNothing, Publish, Unpublish, Unstaged, Load, Stage, Unstage,
         Events
<1>5. CASE Commit
  BY <1>1, <1>2, <1>3, <1>5
     DEF Commit, Mark, Reset, Fingerprint, Authenticate, Replace, ReplaceRefused, Failed, Events
<1>6. CASE Rollback
  BY <1>1, <1>3, <1>6
     DEF Rollback, Abort, Settle, Classify, AuthenticateBefore, Restore, RestoreRefused, Failed
<1>7. CASE Cleanup
  BY <1>1, <1>3, <1>7
     DEF Cleanup, UnlinkJournal, RestoreJournal, CleanStage, CleanStageRefused
<1>8. CASE Start \/ Recovery
  BY <1>1, <1>8
     DEF Start, Begin, Recovery, RecoverNothing, RecoverRefused, RecoverPrepared,
         RecoverCommitted, Scan
<1>9. CASE ReadFault \/ Environment
  BY <1>2, <1>9 DEF ReadFault, Environment, Crash, PowerLoss, SetAside, Edit,
                    TamperJournal, TamperStage, Events
<1>10. CASE UNCHANGED vars
  BY <1>1, <1>10 DEF vars
<1> QED BY <1>4, <1>5, <1>6, <1>7, <1>8, <1>9, <1>10 DEF Next, Process

\* A journal primitive shows the journal that was there or the new one.
LEMMA AtomicShows ==
  ASSUME root \in Directories(RootImages), NEW j \in Journals,
         NEW o \in AtomicCreate(j) \cup AtomicReplace(j)
  PROVE  o.dir.now.journal \in {root.now.journal, j} /\ (o.ok => o.dir.now.journal = j)
<1> DEFINE linked == [root.now EXCEPT !.journal = j]
           helped == WithHelper(root.now)
           both   == WithHelper(linked)
           shown  == {root, Durable(linked), Durable(both), Unsynced(root, linked),
                      Unsynced(root, helped), Unsynced(root, both)}
<1>1. linked.journal = j /\ helped.journal = root.now.journal /\ both.journal = j
  BY DEF Directories, RootImages, WithHelper
<1> HIDE DEF linked, helped, both
<1>2. /\ Durable(linked).now = linked /\ Durable(both).now = both
      /\ Unsynced(root, linked).now = linked /\ Unsynced(root, helped).now = helped
      /\ Unsynced(root, both).now = both
  BY DEF Durable, Unsynced
<1>3. \/ o = [ok |-> TRUE, dir |-> Durable(linked)]
      \/ \E D \in shown : o = [ok |-> FALSE, dir |-> D]
  BY DEF AtomicCreate, AtomicReplace, Primitive, linked, helped, both
<1>4. \/ o.ok = TRUE /\ o.dir = Durable(linked)
      \/ o.ok = FALSE /\ o.dir \in shown
  BY <1>3
<1>5. CASE o.ok = TRUE /\ o.dir = Durable(linked)
  BY <1>1, <1>2, <1>5
<1>6. CASE o.ok = FALSE /\ o.dir \in shown
  BY <1>1, <1>2, <1>6
<1> QED BY <1>4, <1>5, <1>6

\* The journals on disk were there, or are the one in memory: put there when it
\* is published, restored or reset, or as the committed marker.
LEMMA JournalOrigin ==
  ASSUME TypeOK, [Next]_vars, NEW r \in root'.disk
  PROVE  \/ \E q \in root.disk : r.journal = q.journal
         \/ r.journal \in {None, Foreign}
         \/ (Publish \/ RestoreJournal \/ Reset) /\ r.journal = held
         \/ Mark /\ r.journal = Committed(held)
<1>t. root \in Directories(RootImages) /\ held \in Journals /\ Committed(held) \in Journals
      /\ root.now \in root.disk
  BY CommittedType DEF TypeOK, Directories
<1>0. CASE UNCHANGED root
  BY <1>0
<1>1. ASSUME NEW j \in {held, Committed(held)},
             \E o \in AtomicCreate(j) \cup AtomicReplace(j) : root' = o.dir
      PROVE  (\E q \in root.disk : r.journal = q.journal) \/ r.journal = j
  BY <1>t, <1>1, AtomicImages
<1>2. CASE Publish \/ RestoreJournal \/ Reset
  <2>1. \/ UNCHANGED root
        \/ \E o \in AtomicCreate(held) \cup AtomicReplace(held) : root' = o.dir
    BY <1>2 DEF Publish, RestoreJournal, Reset
  <2> QED BY <1>0, <1>1, <1>2, <2>1
<1>10. CASE Mark
  <2>1. \E o \in AtomicCreate(Committed(held)) \cup AtomicReplace(Committed(held)) : root' = o.dir
    BY <1>10 DEF Mark
  <2> QED BY <1>1, <1>10, <2>1
<1>3. CASE UnlinkJournal
  <2>1. CASE journal = held
    <3> DEFINE img == [root.now EXCEPT !.journal = None]
    <3>1. PICK o \in Primitive(root, img) : root' = o.dir
      BY <1>3, <2>1 DEF UnlinkJournal
    <3>2. img.journal = None
      BY <1>t DEF Directories, RootImages
    <3> HIDE DEF img
    <3>3. o.dir.disk \subseteq root.disk \cup {img}
      BY PrimitiveImages
    <3> QED BY <3>1, <3>2, <3>3
  <2>2. CASE journal # held
    BY <1>0, <1>3, <2>2 DEF UnlinkJournal
  <2> QED BY <2>1, <2>2
<1>4. CASE PowerLoss
  <2>1. PICK image \in root.disk : root' = Durable(image)
    BY <1>4 DEF PowerLoss
  <2> QED BY <2>1 DEF Durable
<1>5. CASE TamperJournal
  <2>1. PICK j \in {None, Foreign} : root' = Durable([root.now EXCEPT !.journal = j])
    BY <1>5 DEF TamperJournal
  <2> QED BY <1>t, <2>1 DEF Durable, Directories, RootImages
<1>6. CASE SetAside
  BY <1>6 DEF SetAside, Durable
<1>7. CASE Start \/ Recovery \/ Rollback
  BY <1>0, <1>7
     DEF Start, Begin, Recovery, RecoverNothing, RecoverRefused, RecoverPrepared,
         RecoverCommitted, Scan, Rollback, Abort, Settle, Classify,
         AuthenticateBefore, Restore, RestoreRefused, Failed
<1>8. CASE \/ PlanNothing \/ Unpublish \/ Unstaged \/ Load \/ ReadFault \/ Crash
           \/ \E S \in SUBSET Docs : Plan(S)
           \/ \E d \in Docs : Fingerprint(d) \/ Authenticate(d) \/ Replace(d) \/ ReplaceRefused(d)
  BY <1>0, <1>8
     DEF PlanNothing, Unpublish, Unstaged, Load, ReadFault, Crash, Plan, Fingerprint,
         Authenticate, Replace, ReplaceRefused
<1>9. CASE \/ \E x \in Docs \X Roles : \/ Stage(x) \/ Unstage(x) \/ CleanStage(x)
                                       \/ CleanStageRefused(x) \/ TamperStage(x)
           \/ \E d \in Docs, b \in EditBytes : Edit(d, b)
           \/ UNCHANGED vars
  BY <1>0, <1>9 DEF Stage, Unstage, CleanStage, CleanStageRefused, TamperStage, Edit, vars
<1> QED BY <1>2, <1>3, <1>4, <1>5, <1>6, <1>7, <1>8, <1>9, <1>10
        DEF Next, Process, Environment, Preparation, Commit, Cleanup

\* The record in memory changes when a batch is planned, when recovery reads a
\* journal, and when the batch is decided.
LEMMA HeldOrigin ==
  ASSUME TypeOK, [Next]_vars, held' # held
  PROVE  \/ \E S \in SUBSET Docs : Plan(S)
         \/ (RecoverPrepared \/ RecoverCommitted) /\ held' = journal
         \/ Mark /\ held' = Committed(held)
<1>1. CASE Start \/ Recovery \/ Rollback
  BY <1>1
     DEF Start, Begin, Recovery, RecoverNothing, RecoverRefused, RecoverPrepared,
         RecoverCommitted, Scan, Rollback, Abort, Settle, Classify,
         AuthenticateBefore, Restore, RestoreRefused, Failed
<1>2. CASE Preparation
  BY <1>2 DEF Preparation, PlanNothing, Publish, Unpublish, Unstaged, Load, Stage, Unstage
<1>3. CASE Commit
  BY <1>3 DEF Commit, Mark, Reset, Fingerprint, Authenticate, Replace, ReplaceRefused, Failed
<1>4. CASE Cleanup
  BY <1>4 DEF Cleanup, UnlinkJournal, RestoreJournal, CleanStage, CleanStageRefused
<1>5. CASE ReadFault \/ Environment
  BY <1>5 DEF ReadFault, Environment, Crash, PowerLoss, SetAside, Edit, TamperJournal,
              TamperStage
<1>6. CASE UNCHANGED vars
  BY <1>6 DEF vars
<1> QED BY <1>1, <1>2, <1>3, <1>4, <1>5, <1>6 DEF Next, Process

\* Two records of one batch.
SameBatch(i, j) == i.txn = j.txn /\ i.img = j.img

\* Without a new batch there is no new journal.
LEMMA KnownKept ==
  ASSUME TypeOK, [Next]_vars, \A S \in SUBSET Docs : ~Plan(S), NEW j \in Known'
  PROVE  \E i \in Known : SameBatch(i, j)
<1>t. held \in Journals /\ Committed(held) \in Journals /\ SameBatch(held, Committed(held))
      /\ root.now \in root.disk
  BY CommittedType DEF TypeOK, SameBatch, Directories
<1>1. CASE j = held'
  <2>1. CASE held' = held
    BY <1>1, <2>1 DEF Known, SameBatch
  <2>2. CASE (RecoverPrepared \/ RecoverCommitted) /\ held' = journal
    <3>1. journal \notin {None, Foreign}
      BY <2>2 DEF RecoverPrepared, RecoverCommitted
    <3>2. journal \in Known
      BY <1>t, <3>1 DEF Known, journal
    <3> QED BY <1>1, <2>2, <3>2 DEF SameBatch
  <2>3. CASE held' = Committed(held)
    BY <1>1, <1>t, <2>3 DEF Known
  <2> QED BY <2>1, <2>2, <2>3, HeldOrigin
<1>2. CASE j # held'
  <2>1. PICK r \in root'.disk : r.journal = j /\ j \notin {None, Foreign}
    BY <1>2 DEF Known
  <2>2. CASE \E q \in root.disk : j = q.journal
    BY <2>1, <2>2 DEF Known, SameBatch
  <2>3. CASE j \in {held, Committed(held)}
    BY <1>t, <2>3 DEF Known, SameBatch
  <2> QED BY <2>1, <2>2, <2>3, JournalOrigin
<1> QED BY <1>1, <1>2

LEMMA LineageStep ==
  ASSUME TypeOK, OnBatch, Lineage, [Next]_vars
  PROVE  Lineage'
<1>t. /\ \A k \in Events : spent[k] \in Nat
      /\ spent'.txns >= spent.txns
      /\ \A j \in Known : j \in Journals
      /\ held \in Journals
  BY SpentGrows DEF TypeOK, Events, Known, Directories, RootImages
<1>i. \A i, j : i.img = j.img => Images(i) = Images(j)
  BY DEF Images, Batch
<1>1. CASE \A S \in SUBSET Docs : ~Plan(S)
  <2>1. \A j \in Known' : \E i \in Known : SameBatch(i, j)
    BY <1>1, KnownKept
  <2>2. \A j \in Known' : j.txn <= spent'.txns
    <3> SUFFICES ASSUME NEW j \in Known' PROVE j.txn <= spent'.txns
      OBVIOUS
    <3>1. PICK i \in Known : i.txn = j.txn
      BY <2>1 DEF SameBatch
    <3>2. i.txn \in Nat /\ i.txn <= spent.txns
      BY <1>t DEF Lineage, Journals
    <3> QED BY <1>t, <3>1, <3>2, TypeStep DEF TypeOK, Events
  <2>3. \A i, j \in Known' : i.txn = j.txn => i.img = j.img
    BY <2>1 DEF Lineage, SameBatch
  <2>4. ASSUME NEW x \in Docs \X Roles, NEW t \in Found(x)'
        PROVE  t <= spent'.txns /\ \A j \in Known' : t = j.txn => x \in Images(j)
    <3>1. t \in Nat /\ t <= spent.txns /\ \A j \in Known : t = j.txn => x \in Images(j)
      <4>1. CASE t \in Found(x)
        <5>1. t \in Nat
          BY <4>1, Slots DEF Found, TypeOK, Directories, DocImages, Stages
        <5> QED BY <4>1, <5>1 DEF Lineage
      <4>2. CASE Stage(x) /\ t = held.txn
        <5>1. x \in Images(held)
          BY <4>2 DEF Stage, FirstImage, OnBatch
        <5>2. held \in Known /\ held.txn \in Nat
          BY <1>t DEF Known, Journals
        <5> QED BY <1>i, <4>2, <5>1, <5>2 DEF Lineage
      <4> QED BY <2>4, <4>1, <4>2, StageOrigin
    <3>2. t <= spent'.txns
      BY <1>t, <3>1, TypeStep DEF TypeOK, Events
    <3> QED BY <1>i, <2>1, <3>1, <3>2 DEF SameBatch
  <2> QED BY <2>2, <2>3, <2>4 DEF Lineage
<1>2. CASE \E S \in SUBSET Docs : Plan(S)
  <2>1. /\ UNCHANGED <<dir, root>> /\ held'.txn = spent.txns + 1
        /\ spent'.txns = spent.txns + 1
    BY <1>2, <1>t DEF Plan, Spend, Events, TypeOK
  <2>2. Known' \subseteq Known \cup {held'}
    BY <2>1 DEF Known
  <2>3. \A x : Found(x)' = Found(x)
    BY <2>1 DEF Found
  <2>4. \A j \in Known : j.txn \in Nat /\ j.txn <= spent.txns
    BY <1>t DEF Lineage, Journals
  <2>5. spent.txns \in Nat
    BY <1>t DEF Events
  <2>6. \A j \in Known' : j.txn <= spent'.txns
    BY <2>1, <2>2, <2>4, <2>5
  <2>7. \A i, j \in Known' : i.txn = j.txn => i.img = j.img
    BY <2>1, <2>2, <2>4, <2>5 DEF Lineage
  <2>8. ASSUME NEW x \in Docs \X Roles, NEW t \in Found(x)'
        PROVE  t <= spent'.txns /\ \A j \in Known' : t = j.txn => x \in Images(j)
    <3>1. t \in Found(x)
      BY <2>3, <2>8
    <3>2. t \in Nat
      BY <3>1, Slots DEF Found, TypeOK, Directories, DocImages, Stages
    <3>3. t <= spent.txns /\ \A j \in Known : t = j.txn => x \in Images(j)
      BY <3>1 DEF Lineage
    <3> QED BY <2>1, <2>2, <2>5, <3>2, <3>3
  <2> QED BY <2>6, <2>7, <2>8 DEF Lineage
<1> QED BY <1>1, <1>2

-----------------------------------------------------------------------------
(***************************************************************************)
(* The journal goes last.                                                   *)
(***************************************************************************)

\* Cleanup is entered with every stage to remove, and goes on stage by stage.
LEMMA ToCleanup ==
  ASSUME TypeOK, [Next]_vars, pc' = "cleanup"
  PROVE  \/ (RecoverCommitted \/ Unpublish \/ Mark \/ Settle) /\ left' = Images(held')
         \/ At("cleanup") /\ UNCHANGED <<held, goal>>
            /\ \/ UNCHANGED left
               \/ \E y \in Docs \X Roles : CleanStage(y) /\ left' = left \ {y}
<1> USE DEF At, Goto, Gone, Exit
<1>m. held \in Journals /\ Images(Committed(held)) = Images(held)
  BY CommittedType DEF TypeOK, Images, Batch
<1>1. CASE RecoverCommitted \/ Unpublish \/ Settle
  BY <1>1 DEF RecoverCommitted, Unpublish, Settle, StartCleanup
<1>2. CASE Mark
  <2>1. PICK o \in AtomicReplace(Committed(held)) :
           \/ /\ o.ok
              /\ held' = Committed(held)
              /\ IF AllAuthentic(held)
                 THEN StartCleanup(held, goal) /\ UNCHANGED report
                 ELSE Exit("failed")
           \/ ~o.ok /\ Goto("reset")
    BY <1>2 DEF Mark
  <2>2. held' = Committed(held) /\ left' = Images(held)
    BY <2>1 DEF StartCleanup
  <2> QED BY <1>2, <1>m, <2>2
<1>3. CASE \E y \in Docs \X Roles : CleanStage(y) \/ CleanStageRefused(y)
  BY <1>3 DEF CleanStage, CleanStageRefused, Cleaned
<1>4. CASE UnlinkJournal \/ RestoreJournal \/ ReadFault \/ Crash \/ PowerLoss \/ SetAside
  BY <1>4 DEF UnlinkJournal, RestoreJournal, Finish, ReadFault, Crash, PowerLoss, SetAside
<1>5. CASE \/ TamperJournal \/ UNCHANGED vars
           \/ \E y \in Docs \X Roles : TamperStage(y)
           \/ \E d \in Docs, b \in EditBytes : Edit(d, b)
  BY <1>5 DEF TamperJournal, TamperStage, Edit, vars, work
<1>6. CASE Start \/ RecoverNothing \/ RecoverRefused \/ RecoverPrepared \/ Scan
  BY <1>6 DEF Start, Begin, RecoverNothing, RecoverRefused, RecoverPrepared, Scan, StartRollback
<1>7. CASE \/ PlanNothing \/ Unstaged \/ Load \/ Reset \/ Abort
           \/ \E S \in SUBSET Docs : Plan(S)
           \/ \E y \in Docs \X Roles : Stage(y) \/ Unstage(y)
  BY <1>7 DEF PlanNothing, Unstaged, Load, Reset, Abort, Plan, Stage, Unstage, StartRollback
<1>8. CASE Publish
  <2>1. pc' \in {"unstage", "load", "unpublish"}
    BY <1>8 DEF Publish
  <2> QED BY <2>1
<1>9. CASE \E d \in Docs : \/ Fingerprint(d) \/ Authenticate(d) \/ Replace(d) \/ ReplaceRefused(d)
                           \/ Classify(d) \/ AuthenticateBefore(d) \/ Restore(d) \/ RestoreRefused(d)
  BY <1>9 DEF Fingerprint, Authenticate, Replace, ReplaceRefused, Classify, AuthenticateBefore,
         Restore, RestoreRefused, Failed,
              StartRollback
<1>10. CASE Recovery \/ Rollback \/ Start
  BY <1>1, <1>6, <1>7, <1>9, <1>10 DEF Recovery, Rollback
<1>11. CASE Preparation \/ Commit
  BY <1>1, <1>2, <1>7, <1>8, <1>9, <1>11 DEF Preparation, Commit
<1> QED BY <1>3, <1>4, <1>5, <1>10, <1>11 DEF Next, Process, Environment, Cleanup

\* A stage that cleanup has passed is gone, whether or not it was there.
LEMMA CleanedIsGone ==
  ASSUME TypeOK, NEW y \in Docs \X Roles, CleanStage(y), pc' = "cleanup"
  PROVE  /\ dir'[y[1]] = Durable(IF Present(held, y) THEN With(y, None) ELSE Now(y[1]))
         /\ held.txn \notin Found(y)'
<1> DEFINE cleaned == IF Present(held, y) THEN With(y, None) ELSE Now(y[1])
<1>1. PICK o \in Primitive(dir[y[1]], cleaned) :
        /\ dir' = [dir EXCEPT ![y[1]] = o.dir]
        /\ IF o.ok THEN Cleaned(y) /\ UNCHANGED report ELSE Exit("failed")
  BY DEF CleanStage
<1>2. cleaned[y[2]] = None \/ cleaned[y[2]].txn # held.txn
  BY Slots, WithSlots DEF Present
<1> HIDE DEF cleaned
<1>3. o.ok
  BY <1>1 DEF Exit, Gone
<1>4. dir'[y[1]] = Durable(cleaned)
  BY <1>1, <1>3, PrimitiveImages, Slots, OneChanged DEF TypeOK
<1>5. dir'[y[1]].disk = {cleaned}
  BY <1>4 DEF Durable
<1> QED BY <1>2, <1>4, <1>5, FoundOnly DEF cleaned

LEMMA CleaningStep ==
  ASSUME TypeOK, OnBatch, Cleaning, [Next]_vars
  PROVE  Cleaning'
<1> SUFFICES ASSUME pc' = "cleanup", NEW x \in Images(held') \ left' PROVE held'.txn \notin Found(x)'
  BY DEF Cleaning, At
<1>1. At("cleanup") /\ UNCHANGED held /\ x \in Docs \X Roles
  BY ToCleanup DEF Images, Batch
<1>2. ~Stage(x)
  BY <1>1 DEF Stage, At
<1>3. CASE x \notin left
  BY <1>1, <1>2, <1>3, StageOrigin DEF Cleaning
<1>4. CASE x \in left
  <2>1. CleanStage(x)
    BY <1>4, ToCleanup
  <2> QED BY <1>1, <2>1, CleanedIsGone
<1> QED BY <1>3, <1>4

\* Reconcile removes a journal only by unlinking it at the end of cleanup.
LEMMA OnlyUnlink ==
  ASSUME TypeOK, [Next]_vars, ByProcess, journal \notin {None, Foreign}, journal' = None
  PROVE  UnlinkJournal
<1>t. /\ root \in Directories(RootImages) /\ spent \in [Events -> Nat]
      /\ held \in Journals /\ Committed(held) \in Journals
      /\ held \notin {None, Foreign} /\ Committed(held) \notin {None, Foreign}
  BY FilesAssumption, CommittedType DEF TypeOK
<1>0. UNCHANGED root => FALSE
  BY DEF journal
<1>1. ASSUME NEW j \in {held, Committed(held)},
             \E o \in AtomicCreate(j) \cup AtomicReplace(j) : root' = o.dir
      PROVE  FALSE
  BY <1>t, <1>1, AtomicShows DEF journal
<1>2. CASE Publish \/ RestoreJournal \/ Mark \/ Reset
  BY <1>0, <1>1, <1>2 DEF Publish, RestoreJournal, Mark, Reset
<1>3. ASSUME NEW k \in {"outages", "edits", "tampers", "repairs"}, Spend(k) PROVE FALSE
  <2>1. spent'[k] = spent[k] + 1 /\ spent[k] \in Nat
    BY <1>t, <1>3 DEF Spend, Events
  <2> QED BY <2>1 DEF ByProcess
<1>4. CASE PowerLoss \/ SetAside \/ TamperJournal
  BY <1>3, <1>4 DEF PowerLoss, SetAside, TamperJournal
<1>5. CASE Start \/ Recovery \/ Rollback
  BY <1>0, <1>5
     DEF Start, Begin, Recovery, RecoverNothing, RecoverRefused, RecoverPrepared,
         RecoverCommitted, Scan, Rollback, Abort, Settle, Classify,
         AuthenticateBefore, Restore, RestoreRefused, Failed
<1>6. CASE \/ PlanNothing \/ Unpublish \/ Unstaged \/ Load \/ ReadFault \/ Crash
           \/ \E S \in SUBSET Docs : Plan(S)
           \/ \E d \in Docs : Fingerprint(d) \/ Authenticate(d) \/ Replace(d) \/ ReplaceRefused(d)
  BY <1>0, <1>6
     DEF PlanNothing, Unpublish, Unstaged, Load, ReadFault, Crash, Plan, Fingerprint,
         Authenticate, Replace, ReplaceRefused
<1>7. CASE \/ \E x \in Docs \X Roles : \/ Stage(x) \/ Unstage(x) \/ CleanStage(x)
                                       \/ CleanStageRefused(x) \/ TamperStage(x)
           \/ \E d \in Docs, b \in EditBytes : Edit(d, b)
           \/ UNCHANGED vars
  BY <1>0, <1>7 DEF Stage, Unstage, CleanStage, CleanStageRefused, TamperStage, Edit, vars
<1> QED BY <1>2, <1>4, <1>5, <1>6, <1>7
        DEF Next, Process, Environment, Preparation, Commit, Cleanup

\* When reconcile unlinks the journal, nothing of its batch is on disk.
LEMMA UnlinkIsLast ==
  ASSUME TypeOK, Lineage, Cleaning, [Next]_vars, ByProcess,
         journal \notin {None, Foreign}, journal' = None,
         NEW x \in Docs \X Roles, NEW s \in dir[x[1]].disk, s[x[2]] # None
  PROVE  s[x[2]].txn # journal.txn
<1>1. UnlinkJournal
  BY OnlyUnlink
<1>2. journal # held => UNCHANGED root
  BY <1>1 DEF UnlinkJournal
<1>3. At("cleanup") /\ left = {} /\ journal = held
  BY <1>1, <1>2 DEF UnlinkJournal, journal
<1>4. held.txn \notin Found(x)
  BY <1>3 DEF Lineage, Cleaning, Known
<1> QED BY <1>3, <1>4, FoundIs

\* What they leave of the batch, its stages and its writers.
LEMMA OutsideKeeps ==
  ASSUME TypeOK, Outside
  PROVE  /\ UNCHANGED <<pc, goal, todo, left, candidates, unresolved, held, decided>>
         /\ \A x \in Docs \X Roles :
              Slot(x)' # None => Slot(x) # None /\ Slot(x)'.txn = Slot(x).txn
         /\ \A d \in Docs : Now(d)'.by \in {Now(d).by, User}
         /\ \A d \in Docs : \A s \in dir'[d].disk :
              s.by = User \/ \E q \in dir[d].disk : s.by = q.by
<1>t. dir \in [Docs -> Directories(DocImages)] /\ \A d \in Docs : Now(d) \in dir[d].disk
  BY DEF TypeOK, Now, Directories
<1>b. \A D, img : /\ Durable(img).disk = {img} /\ Unsynced(D, img).disk = D.disk \cup {img}
                  /\ Durable(img).now = img /\ Unsynced(D, img).now = img
  BY DEF Durable, Unsynced
<1>0. UNCHANGED <<pc, goal, todo, left, candidates, unresolved, held, decided>>
  BY DEF Outside, TamperJournal, TamperStage, Edit, work, vars
<1>1. CASE UNCHANGED dir
  BY <1>0, <1>1 DEF Slot, Now
<1>2. ASSUME NEW d \in Docs, NEW b \in EditBytes, Edit(d, b)
      PROVE  /\ \A x \in Docs \X Roles :
                  Slot(x)' # None => Slot(x) # None /\ Slot(x)'.txn = Slot(x).txn
             /\ \A e \in Docs : Now(e)'.by \in {Now(e).by, User}
             /\ \A e \in Docs : \A s \in dir'[e].disk :
                  s.by = User \/ \E q \in dir[e].disk : s.by = q.by
  <2> DEFINE img == [dest |-> b, by |-> User, before |-> Now(d).before, after |-> Now(d).after]
  <2>1. dir' = [dir EXCEPT ![d] = Unsynced(dir[d], img)]
    BY <1>2 DEF Edit
  <2>2. img.by = User /\ img.before = Now(d).before /\ img.after = Now(d).after
    OBVIOUS
  <2> HIDE DEF img
  <2>3. dir'[d] = Unsynced(dir[d], img) /\ \A e \in Docs \ {d} : dir'[e] = dir[e]
    BY <1>t, <2>1, OneChanged
  <2>4. Now(d)' = img /\ \A e \in Docs \ {d} : Now(e)' = Now(e)
    BY <1>b, <2>3 DEF Now
  <2>5. \A x \in Docs \X Roles : Slot(x)' = Slot(x)
    BY <2>2, <2>4, Slots DEF Slot
  <2>6. \A e \in Docs : \A s \in dir'[e].disk : s \in dir[e].disk \/ s = img
    BY <1>b, <2>3
  <2> QED BY <2>2, <2>4, <2>5, <2>6
<1>3. ASSUME NEW y \in Docs \X Roles, TamperStage(y)
      PROVE  /\ \A x \in Docs \X Roles :
                  Slot(x)' # None => Slot(x) # None /\ Slot(x)'.txn = Slot(x).txn
             /\ \A e \in Docs : Now(e)'.by \in {Now(e).by, User}
             /\ \A e \in Docs : \A s \in dir'[e].disk :
                  s.by = User \/ \E q \in dir[e].disk : s.by = q.by
  <2>1. PICK s \in {None, [Slot(y) EXCEPT !.data = Torn]} :
          dir' = [dir EXCEPT ![y[1]] = Durable(With(y, s))]
    BY <1>3 DEF TamperStage
  <2>2. Slot(y) \in Stages /\ Slot(y) # None /\ y[1] \in Docs
    BY <1>t, <1>3, SlotTypes DEF TamperStage, Slot
  <2>3. s = None \/ s.txn = Slot(y).txn
    BY <2>1, <2>2 DEF Stages
  <2>4. dir'[y[1]] = Durable(With(y, s)) /\ \A e \in Docs \ {y[1]} : dir'[e] = dir[e]
    BY <1>t, <2>1, <2>2, OneChanged
  <2>5. Now(y[1])' = With(y, s) /\ \A e \in Docs \ {y[1]} : Now(e)' = Now(e)
    BY <1>b, <2>4 DEF Now
  <2>6. ASSUME NEW x \in Docs \X Roles, Slot(x)' # None
        PROVE  Slot(x) # None /\ Slot(x)'.txn = Slot(x).txn
    <3>1. CASE x[1] = y[1]
      <4>1. Slot(x)' = With(y, s)[x[2]]
        BY <2>5, <3>1, Slots DEF Slot
      <4>2. With(y, s)[x[2]] = IF x = y THEN s ELSE Slot(x)
        BY <3>1, WithSlots
      <4> QED BY <2>2, <2>3, <2>6, <4>1, <4>2
    <3>2. CASE x[1] # y[1]
      BY <2>5, <2>6, <3>2 DEF Slot
    <3> QED BY <3>1, <3>2
  <2>7. With(y, s).by = Now(y[1]).by
    BY DEF With
  <2> QED BY <1>t, <1>b, <2>2, <2>4, <2>5, <2>6, <2>7
<1>4. CASE TamperJournal \/ UNCHANGED vars
  BY <1>1, <1>4 DEF TamperJournal, vars
<1> QED BY <1>0, <1>2, <1>3, <1>4 DEF Outside

LEMMA GoalStep ==
  ASSUME TypeOK, GoalKept, [Next]_vars
  PROVE  GoalKept'
<1> USE DEF At, GoalKept
<1>1. CASE Outside
  BY <1>1, OutsideKeeps
<1>2. CASE ~Outside /\ pc' = "recover"
  BY <1>2, ControlFlow DEF Start, Begin
<1>3. CASE ~Outside /\ pc' \in {"classify", "checkBefore", "restore"}
  <2>1. \/ RecoverPrepared \/ Abort
        \/ \E d \in Docs : \/ ReplaceRefused(d) \/ Classify(d) \/ Restore(d)
                            \/ AuthenticateBefore(d)
    BY <1>3, ControlFlow
  <2> QED BY <1>3, <2>1 DEF RecoverPrepared, Abort, ReplaceRefused, Classify, Restore,
                            AuthenticateBefore, StartRollback, Exit, Gone, Goto, work
<1> QED BY <1>1, <1>2, <1>3

\* A directory without stages of other batches stays so.
LEMMA OwnKept ==
  ASSUME TypeOK, [Next]_vars, NEW d \in Docs, OwnStages(d), held'.txn = held.txn
  PROVE  OwnStages(d)'
<1> SUFFICES ASSUME NEW x \in {d} \X Roles, NEW t \in Found(x)' PROVE t = held.txn
  BY DEF OwnStages
<1>1. x \in Docs \X Roles
  OBVIOUS
<1>2. t \in Found(x) \/ t = held.txn
  BY <1>1, StageOrigin
<1> QED BY <1>2 DEF OwnStages

\* A successful staging synchronizes its directory.
LEMMA StagedIsDurable ==
  ASSUME TypeOK, NEW y \in Docs \X Roles, Stage(y), pc' = "stage"
  PROVE  /\ left' = left \ {y} /\ y \in left /\ UNCHANGED held
         /\ dir' = [dir EXCEPT ![y[1]] =
              Durable(With(y, [txn |-> held.txn, data |-> Image(held, y)]))]
  BY DEF Stage, FirstImage

LEMMA TidyStep ==
  ASSUME TypeOK, OnBatch, GoalKept, Tidy, [Next]_vars
  PROVE  Tidy'
<1> USE DEF At
<1>t. dir \in [Docs -> Directories(DocImages)] /\ held \in Journals
  BY DEF TypeOK
<1>1. ASSUME pc' = "plan" PROVE \A x \in Docs \X Roles : Slot(x)' = None
  <2>1. CASE Outside
    BY <1>1, <2>1, OutsideKeeps DEF Tidy
  <2>2. CASE ~Outside
    <3>1. Scan
      BY <1>1, <2>2, ControlFlow
    <3> QED BY <1>1, <3>1 DEF Scan, Exit, Gone, Orphans, Slot, Now
  <2> QED BY <2>1, <2>2
<1>2. ASSUME pc' = "stage"
      PROVE  /\ \A x \in Docs \X Roles : Slot(x)' # None => Slot(x)'.txn = held'.txn
             /\ \A d \in Batch(held') : <<d, "before">> \notin left' => OwnStages(d)'
  <2>1. CASE Outside
    <3>1. At("stage") /\ UNCHANGED <<held, left>>
      BY <1>2, <2>1, OutsideKeeps
    <3>2. \A x \in Docs \X Roles : Slot(x)' # None => Slot(x)'.txn = held.txn
      BY <2>1, <3>1, OutsideKeeps DEF Tidy
    <3>3. \A d \in Batch(held) : <<d, "before">> \notin left => OwnStages(d)'
      BY <3>1, OwnKept DEF Tidy, Batch
    <3> QED BY <3>1, <3>2, <3>3
  <2>2. CASE \E S \in SUBSET Docs : Plan(S)
    <3>1. PICK S \in SUBSET Docs : Plan(S)
      BY <2>2
    <3>2. /\ At("plan") /\ UNCHANGED dir /\ left' = S \X Roles
          /\ held'.img = [d \in Docs |-> IF d \in S THEN Now(d).dest ELSE None]
      BY <3>1 DEF Plan
    <3>3. Batch(held') \subseteq S
      BY <3>2 DEF Batch
    <3> QED BY <3>2, <3>3 DEF Tidy, Slot, Now, Roles
  <2>3. CASE \E y \in Docs \X Roles : Stage(y)
    <3>1. PICK y \in Docs \X Roles : Stage(y)
      BY <2>3
    <3> DEFINE ok == [txn |-> held.txn, data |-> Image(held, y)]
    <3>2. /\ At("stage") /\ UNCHANGED held /\ left' = left \ {y}
          /\ dir' = [dir EXCEPT ![y[1]] = Durable(With(y, ok))]
      BY <1>2, <3>1, StagedIsDurable DEF Stage
    <3>3. ok.txn = held.txn
      OBVIOUS
    <3> HIDE DEF ok
    <3>4. dir'[y[1]] = Durable(With(y, ok)) /\ \A e \in Docs \ {y[1]} : dir'[e] = dir[e]
      BY <1>t, <3>2, OneChanged, Slots
    <3>5. ASSUME NEW x \in Docs \X Roles
          PROVE  /\ Slot(x)' # None => Slot(x)'.txn = held.txn
                 /\ x[1] = y[1] => Slot(x)' = With(y, ok)[x[2]]
      <4>1. CASE x[1] = y[1]
        <5>1. Now(x[1])' = With(y, ok)
          BY <3>4, <4>1 DEF Durable, Now
        <5>2. Slot(x)' = With(y, ok)[x[2]]
          BY <5>1, Slots DEF Slot
        <5> QED BY <3>2, <3>3, <4>1, <5>2, WithSlots DEF Tidy
      <4>2. CASE x[1] # y[1]
        BY <3>2, <3>4, <4>2 DEF Slot, Now, Tidy
      <4> QED BY <4>1, <4>2
    <3>6. ASSUME NEW d \in Batch(held), <<d, "before">> \notin left' PROVE OwnStages(d)'
      <4>1. d \in Docs
        BY DEF Batch
      <4>2. CASE d = y[1]
        <5> SUFFICES ASSUME NEW x \in {d} \X Roles, NEW t \in Found(x)' PROVE t = held.txn
          BY <3>2 DEF OwnStages
        <5>1. x \in Docs \X Roles /\ x[1] = y[1]
          BY <4>1, <4>2
        <5>2. dir'[x[1]].disk = {With(y, ok)}
          BY <3>4, <5>1 DEF Durable
        <5> QED BY <3>5, <5>1, <5>2, FoundOnly
      <4>3. CASE d # y[1]
        <5>1. <<d, "before">> \notin left
          BY <3>2, <3>6, <4>3
        <5> QED BY <3>2, <4>1, <5>1, OwnKept DEF Tidy
      <4> QED BY <4>2, <4>3
    <3> QED BY <3>2, <3>5, <3>6
  <2> QED BY <1>2, <2>1, <2>2, <2>3, ControlFlow
<1>3. ASSUME Committing' \/ pc' \in {"load", "fingerprint", "checkAfter", "replace"}
      PROVE  \A d \in Batch(held') : OwnStages(d)'
  <2>a. ASSUME \A d \in Batch(held) : OwnStages(d),
               held'.txn = held.txn, held'.img = held.img
        PROVE  \A d \in Batch(held') : OwnStages(d)'
    BY <2>a, OwnKept DEF Batch
  <2>1. CASE Outside
    BY <1>3, <2>a, <2>1, OutsideKeeps DEF Tidy, Committing
  <2>2. CASE ~Outside /\ pc' = "load"
    <3>1. Publish
      BY <2>2, ControlFlow
    <3> QED BY <2>a, <3>1 DEF Publish, Tidy
  <2>3. CASE ~Outside /\ pc' = "fingerprint"
    <3>1. Load \/ \E d \in Docs : Replace(d)
      BY <2>3, ControlFlow
    <3> QED BY <2>a, <3>1 DEF Load, Replace, Tidy
  <2>4. CASE ~Outside /\ pc' \in {"checkAfter", "replace"}
    <3>1. \E d \in Docs : Fingerprint(d) \/ Authenticate(d)
      BY <2>4, ControlFlow
    <3> QED BY <2>a, <3>1 DEF Fingerprint, Authenticate, Tidy
  <2>5. CASE ~Outside /\ Committing'
    <3>1. goal' = "commit" /\ pc' = "cleanup"
      BY <2>5 DEF Committing
    <3>2. CASE Mark
      <4>1. At("fingerprint") /\ held' \in {held, Committed(held)}
        BY <3>2 DEF Mark
      <4> QED BY <1>t, <2>a, <4>1, CommittedType DEF Tidy
    <3>3. CASE \E x \in Docs \X Roles : CleanStage(x)
      <4>1. Committing /\ UNCHANGED held
        BY <3>1, <3>3 DEF CleanStage, Cleaned, Exit, Gone, Committing
      <4> QED BY <2>a, <4>1 DEF Tidy
    <3>4. CASE RecoverCommitted \/ Unpublish \/ Settle
      BY <3>1, <3>4 DEF RecoverCommitted, Unpublish, Settle, StartCleanup, Exit, Gone, GoalKept
    <3> QED BY <2>5, <3>1, <3>2, <3>3, <3>4, ControlFlow
  <2> QED BY <1>3, <2>1, <2>2, <2>3, <2>4, <2>5
<1> QED BY <1>1, <1>2, <1>3 DEF Tidy

-----------------------------------------------------------------------------
(***************************************************************************)
(* Success is durable.                                                      *)
(***************************************************************************)

LEMMA WrittenStep ==
  ASSUME TypeOK, OnBatch, Written, GoalKept, [Next]_vars
  PROVE  Written'
<1> USE DEF At
<1>t. /\ dir \in [Docs -> Directories(DocImages)] /\ held \in Journals
      /\ \A d \in Docs : Now(d) \in dir[d].disk
  BY DEF TypeOK, Now, Directories
<1>c. /\ Committed(held).txn = held.txn /\ Batch(Committed(held)) = Batch(held)
      /\ Images(Committed(held)) = Images(held)
  BY <1>t, CommittedType DEF Images, Batch
<1>1. ASSUME pc' \in {"fingerprint", "checkAfter", "replace"}, NEW d \in Batch(held') \ todo'
      PROVE  Now(d)'.by \in {held'.txn, User}
  <2>1. CASE Outside
    BY <1>1, <2>1, OutsideKeeps DEF Written, Writers, Batch
  <2>2. CASE Load
    BY <1>1, <2>2 DEF Load, Exit, Gone
  <2>3. CASE \E e \in Docs : Fingerprint(e) \/ Authenticate(e)
    BY <1>1, <2>3 DEF Fingerprint, Authenticate, Goto, work, Written, Writers, Now
  <2>4. CASE \E e \in Docs : Replace(e)
    <3>1. PICK e \in Docs : Replace(e)
      BY <2>4
    <3>2. PICK o \in Primitive(dir[e], Replaced(e)) :
            /\ dir' = [dir EXCEPT ![e] = o.dir]
            /\ pc' = IF o.ok THEN "fingerprint" ELSE "abort"
      BY <3>1, ReplaceForms
    <3>3. At("replace") /\ todo' = todo \ {e} /\ UNCHANGED held
      BY <3>1 DEF Replace
    <3>4. o.dir = Durable(Replaced(e))
      BY <1>1, <3>2, PrimitiveImages
    <3>5. dir'[e] = Durable(Replaced(e)) /\ \A f \in Docs \ {e} : dir'[f] = dir[f]
      BY <1>t, <3>2, <3>4, OneChanged
    <3>6. Now(e)'.by = held.txn /\ \A f \in Docs \ {e} : Now(f)' = Now(f)
      BY <3>5 DEF Now, Durable, Replaced
    <3>7. d \in Docs /\ (d = e \/ d \in Batch(held) \ todo)
      BY <1>1, <3>3 DEF Batch
    <3> QED BY <3>3, <3>6, <3>7 DEF Written, Writers
  <2> QED BY <1>1, <2>1, <2>2, <2>3, <2>4, ControlFlow
<1>2. ASSUME Committing', NEW d \in Batch(held')
      PROVE  /\ Now(d)'.by \in {held'.txn, User}
             /\ <<d, "before">> \notin left' => \A s \in dir'[d].disk : s.by \in {held'.txn, User}
  <2>1. goal' = "commit" /\ pc' = "cleanup" /\ d \in Docs
    BY <1>2 DEF Committing, Batch
  <2>2. CASE Outside
    <3>1. Committing /\ UNCHANGED <<held, left>>
      BY <2>1, <2>2, OutsideKeeps DEF Committing
    <3> QED BY <1>2, <2>1, <2>2, <3>1, OutsideKeeps DEF Written, Writers
  <2>3. CASE Mark
    <3>1. /\ At("fingerprint") /\ todo = {} /\ UNCHANGED dir
          /\ \/ held' = Committed(held) /\ left' = Images(held)
             \/ pc' = "reset"
      BY <2>1, <2>3 DEF Mark, StartCleanup, Exit, Gone, Goto
    <3>2. d \in Batch(held) /\ <<d, "before">> \in Images(held)
      BY <1>c, <1>2, <2>1, <3>1 DEF Images, Roles
    <3> QED BY <1>c, <2>1, <3>1, <3>2 DEF Written, Writers, Now
  <2>4. CASE \E y \in Docs \X Roles : CleanStage(y)
    <3>1. PICK y \in Docs \X Roles : CleanStage(y)
      BY <2>4
    <3> DEFINE cleaned == IF Present(held, y) THEN With(y, None) ELSE Now(y[1])
    <3>2. Committing /\ UNCHANGED held /\ left' = left \ {y} /\ \E D : dir' = [dir EXCEPT ![y[1]] = D]
      BY <2>1, <3>1 DEF CleanStage, Cleaned, Exit, Gone, Committing
    <3>3. dir'[y[1]] = Durable(cleaned)
      BY <2>1, <3>1, CleanedIsGone
    <3>4. cleaned.by = Now(y[1]).by
      BY DEF With
    <3> HIDE DEF cleaned
    <3>5. \A e \in Docs \ {y[1]} : dir'[e] = dir[e]
      BY <1>t, <3>2, OneChanged, Slots
    <3>6. CASE d = y[1]
      BY <1>2, <3>2, <3>3, <3>4, <3>6 DEF Durable, Now, Written, Writers
    <3>7. CASE d # y[1]
      <4>1. <<d, "before">> \notin left' => <<d, "before">> \notin left
        BY <3>2, <3>7
      <4> QED BY <1>2, <2>1, <3>2, <3>5, <3>7, <4>1 DEF Now, Written, Writers
    <3> QED BY <3>6, <3>7
  <2>5. CASE RecoverCommitted \/ Unpublish \/ Settle
    BY <2>1, <2>5 DEF RecoverCommitted, Unpublish, Settle, StartCleanup, Exit, Gone, GoalKept
  <2> QED BY <2>1, <2>2, <2>3, <2>4, <2>5, ControlFlow
<1> QED BY <1>1, <1>2 DEF Written, Writers

\* Success is only ever reported when the journal was unlinked.
LEMMA SuccessIsReportedOnce ==
  ASSUME [Next]_vars, report' = "success", report # "success"
  PROVE  UnlinkJournal /\ Finish
<1> USE DEF Goto, Gone, Exit, StartRollback, StartCleanup, work
<1>1. CASE Start \/ Recovery
  BY <1>1 DEF Start, Begin, Recovery, RecoverNothing, RecoverRefused, RecoverPrepared,
              RecoverCommitted, Scan
<1>2. CASE Preparation
  BY <1>2 DEF Preparation, PlanNothing, Unpublish, Unstaged, Load, Publish, Plan, Stage, Unstage
<1>3. CASE Commit
  BY <1>3 DEF Commit, Mark, Reset, Fingerprint, Authenticate, Replace, ReplaceRefused, Failed
<1>4. CASE Rollback
  BY <1>4 DEF Rollback, Abort, Settle, Classify, AuthenticateBefore, Restore,
              RestoreRefused, Failed, Unresolved
<1>5. CASE RestoreJournal \/ \E x \in Docs \X Roles : CleanStage(x) \/ CleanStageRefused(x)
  BY <1>5 DEF RestoreJournal, CleanStage, CleanStageRefused, Cleaned
<1>6. CASE UnlinkJournal
  BY <1>6 DEF UnlinkJournal, Finish
<1>7. CASE ReadFault \/ Environment
  BY <1>7 DEF ReadFault, Environment, Crash, PowerLoss, SetAside, Edit, TamperJournal,
              TamperStage, Outdated
<1>8. CASE UNCHANGED vars
  BY <1>8 DEF vars
<1> QED BY <1>1, <1>2, <1>3, <1>4, <1>5, <1>6, <1>7, <1>8 DEF Next, Process, Cleanup

\* After a success a process finds nothing to do but to plan another batch.
LEMMA AfterSuccess ==
  ASSUME TypeOK, Succeeded, [Next]_vars, report' = "success", report = "success"
  PROVE  \/ pc' \in {"idle", "recover", "scan", "plan"} /\ UNCHANGED <<dir, root, held, spent>>
         \/ Outside
         \/ Crash \/ PowerLoss
<1> USE DEF At, Goto, Gone, Exit, StartRollback, StartCleanup, work
<1>1. /\ pc \in {"idle", "recover", "scan", "plan"}
      /\ \A r \in root.disk : r.journal \in {None, Foreign}
      /\ journal \in {None, Foreign}
  BY DEF Succeeded, TypeOK, Directories, journal
<1>2. CASE Start \/ Recovery
  BY <1>1, <1>2 DEF Start, Begin, Recovery, RecoverNothing, RecoverRefused, RecoverPrepared,
                    RecoverCommitted, Scan
<1>3. CASE Preparation
  BY <1>1, <1>3 DEF Preparation, PlanNothing, Unpublish, Unstaged, Load, Publish, Plan, Stage,
                    Unstage
<1>4. CASE Commit
  BY <1>1, <1>4 DEF Commit, Mark, Reset, Fingerprint, Authenticate, Replace, ReplaceRefused, Failed
<1>5. CASE Rollback
  BY <1>1, <1>5 DEF Rollback, Abort, Settle, Classify, AuthenticateBefore, Restore,
                    RestoreRefused, Failed
<1>6. CASE Cleanup
  BY <1>1, <1>6 DEF Cleanup, UnlinkJournal, RestoreJournal, CleanStage, CleanStageRefused
<1>7. CASE ReadFault \/ SetAside
  BY <1>7 DEF ReadFault, SetAside
<1> QED BY <1>2, <1>3, <1>4, <1>5, <1>6, <1>7 DEF Next, Process, Environment, Outside

LEMMA SuccessStep ==
  ASSUME TypeOK, OnBatch, Cleaning, Tidy, Written, Succeeded, [Next]_vars
  PROVE  Succeeded'
<1> USE DEF At
<1> SUFFICES ASSUME report' = "success" PROVE Succeeded'
  BY DEF Succeeded
<1>t. /\ dir \in [Docs -> Directories(DocImages)] /\ root \in Directories(RootImages)
      /\ spent \in [Events -> Nat] /\ root.now \in root.disk
  BY DEF TypeOK, Directories
<1>1. CASE report # "success"
  <2>1. UnlinkJournal /\ Finish
    BY <1>1, SuccessIsReportedOnce
  <2>2. Committing /\ left = {} /\ pc' = "idle" /\ UNCHANGED <<dir, held>>
    BY <1>1, <2>1 DEF UnlinkJournal, Finish, Goto, Exit, Gone, Committing
  <2>3. \A r \in root'.disk : r.journal = None
    <3> DEFINE img == [root.now EXCEPT !.journal = None]
    <3>1. PICK o \in Primitive(root, img) :
            /\ root' = o.dir
            /\ CASE o.ok          -> Finish
                 [] o.dir = root  -> Exit("failed")
                 [] OTHER         -> Goto("restoreJournal") /\ UNCHANGED report
      BY <1>1, <2>1 DEF UnlinkJournal, Exit
    <3>2. img.journal = None
      BY <1>t DEF Directories, RootImages
    <3>3. o.ok
      BY <1>1, <3>1, PrimitiveImages DEF Exit
    <3> HIDE DEF img
    <3>4. root' = Durable(img)
      BY <3>1, <3>3, PrimitiveImages
    <3> QED BY <3>2, <3>4 DEF Durable
  <2>4. ASSUME NEW d \in Batch(held)
        PROVE  /\ \A s \in dir[d].disk : s.by \in Writers
               /\ \A x \in {d} \X Roles : Found(x) = {}
    <3>1. \A s \in dir[d].disk : s.by \in Writers
      BY <2>2 DEF Written
    <3>2. ASSUME NEW x \in {d} \X Roles PROVE Found(x) = {}
      <4>1. x \in Images(held)
        BY DEF Images
      <4>2. held.txn \notin Found(x)
        BY <2>2, <4>1 DEF Cleaning, Committing
      <4>3. Found(x) \subseteq {held.txn}
        BY <2>2 DEF Tidy, OwnStages
      <4> QED BY <4>2, <4>3
    <3> QED BY <3>1, <3>2
  <2>5. Batch(held') = Batch(held) /\ Writers' = Writers /\ \A x : Found(x)' = Found(x)
    BY <2>2 DEF Batch, Writers, Found
  <2> QED BY <2>2, <2>3, <2>4, <2>5 DEF Succeeded
<1>2. CASE report = "success"
  <2>1. CASE pc' \in {"idle", "recover", "scan", "plan"} /\ UNCHANGED <<dir, root, held, spent>>
    BY <1>2, <2>1 DEF Succeeded, Batch, Writers, Found, Untampered
  <2>2. /\ UNCHANGED held
        /\ pc' \in {"idle", "recover", "scan", "plan"}
        /\ \A d \in Docs : \A s \in dir'[d].disk : s.by = User \/ \E q \in dir[d].disk : s.by = q.by
        /\ \A x \in Docs \X Roles : Found(x)' \subseteq Found(x)
    <3>1. ~\E x \in Docs \X Roles : Stage(x)
      BY <1>2 DEF Stage, Succeeded
    <3>2. \A x \in Docs \X Roles : Found(x)' \subseteq Found(x)
      BY <3>1, StageOrigin
    <3>3. CASE Outside
      BY <1>2, <3>2, <3>3, OutsideKeeps DEF Succeeded
    <3>4. CASE Crash
      BY <3>2, <3>4 DEF Crash, Gone
    <3>5. CASE PowerLoss
      <4>1. PICK kept \in [Docs -> UNION {dir[d].disk : d \in Docs}] :
              /\ \A d \in Docs : kept[d] \in dir[d].disk
              /\ dir' = [d \in Docs |-> Durable(kept[d])]
        BY <3>5 DEF PowerLoss
      <4>2. \A d \in Docs : dir'[d].disk \subseteq dir[d].disk
        BY <4>1 DEF Durable
      <4>3. UNCHANGED held /\ pc' = "idle"
        BY <3>5 DEF PowerLoss, Gone
      <4> QED BY <3>2, <4>2, <4>3
    <3>6. CASE pc' \in {"idle", "recover", "scan", "plan"} /\ UNCHANGED <<dir, root, held, spent>>
      BY <3>2, <3>6
    <3> QED BY <1>2, <3>3, <3>4, <3>5, <3>6, AfterSuccess
  <2>3. ASSUME NEW r \in root'.disk
        PROVE  r.journal = None \/ (r.journal = Foreign /\ ~Untampered')
    <3>1. Untampered' => Untampered
      BY TamperStep
    <3>2. \A q \in root.disk : q.journal = None \/ (q.journal = Foreign /\ ~Untampered)
      BY <1>2 DEF Succeeded
    <3>3. CASE UNCHANGED root
      BY <3>1, <3>2, <3>3
    <3>4. CASE PowerLoss
      <4>1. PICK image \in root.disk : root' = Durable(image)
        BY <3>4 DEF PowerLoss
      <4> QED BY <3>1, <3>2, <4>1 DEF Durable
    <3>5. CASE TamperJournal
      <4>1. ~Untampered'
        BY <1>t, <3>5, TamperCounts DEF TamperJournal
      <4>2. PICK j \in {None, Foreign} : root' = Durable([root.now EXCEPT !.journal = j])
        BY <3>5 DEF TamperJournal
      <4> QED BY <1>t, <4>1, <4>2 DEF Durable, Directories, RootImages
    <3>6. CASE Outside /\ ~TamperJournal
      <4>1. UNCHANGED root
        BY <3>6 DEF Outside, TamperStage, Edit, vars
      <4> QED BY <3>3, <4>1
    <3> QED BY <1>2, <3>3, <3>4, <3>5, <3>6, AfterSuccess DEF Crash
  <2>4. Batch(held') = Batch(held) /\ Writers' = {held.txn, User} /\ Writers = {held.txn, User}
        /\ Batch(held) \subseteq Docs
    BY <2>2 DEF Batch, Writers
  <2>5. ASSUME NEW d \in Batch(held)
        PROVE  /\ \A s \in dir'[d].disk : s.by \in {held.txn, User}
               /\ \A x \in {d} \X Roles : Found(x)' = {}
    <3>1. d \in Docs /\ \A q \in dir[d].disk : q.by \in {held.txn, User}
      BY <1>2, <2>4 DEF Succeeded
    <3>2. \A x \in {d} \X Roles : Found(x) = {} /\ x \in Docs \X Roles
      BY <1>2, <2>4 DEF Succeeded
    <3> QED BY <2>2, <3>1, <3>2
  <2> QED BY <2>2, <2>3, <2>4, <2>5 DEF Succeeded
<1> QED BY <1>1, <1>2

-----------------------------------------------------------------------------
(***************************************************************************)
(* Theorems.                                                                *)
(***************************************************************************)

\* The invariant that names where stages and writers come from: every stage on
\* disk belongs to the batch its name was made for, a batch starts from and
\* leaves directories without stages of others, whatever fails, crashes, loses
\* power or is tampered with.
THEOREM ProvenanceInvariant == Spec => []Provenance
<1>1. Init => Provenance
  <2> SUFFICES ASSUME Init PROVE Provenance
    OBVIOUS
  <2>1. TypeOK /\ OnBatch
    BY InitTypes
  <2>2. /\ pc = "idle" /\ report = "none" /\ spent.txns = 0
        /\ held = [txn |-> 0, state |-> "prepared", img |-> [d \in Docs |-> None]]
        /\ root = Durable([journal |-> None, helpers |-> 0])
    BY DEF Init, Events
  <2>3. Known = {held}
    BY <2>2 DEF Known, Durable
  <2>4. \A d \in Docs : \A s \in dir[d].disk : s.before = None /\ s.after = None
    BY DEF Init, Durable
  <2>5. \A x \in Docs \X Roles : Found(x) = {}
    BY <2>4, Slots DEF Found
  <2>6. Lineage
    BY <2>2, <2>3, <2>5 DEF Lineage
  <2> QED BY <2>1, <2>2, <2>6
          DEF Provenance, Cleaning, GoalKept, Tidy, Written, Succeeded, Committing, At
<1>2. Provenance /\ [Next]_vars => Provenance'
  <2> SUFFICES ASSUME Provenance, [Next]_vars PROVE Provenance'
    OBVIOUS
  <2>1. TypeOK' /\ OnBatch'
    BY TypeStep DEF Provenance
  <2>2. Lineage' /\ Cleaning' /\ GoalKept'
    BY LineageStep, CleaningStep, GoalStep DEF Provenance
  <2>3. Tidy' /\ Written' /\ Succeeded'
    BY TidyStep, WrittenStep, SuccessStep DEF Provenance
  <2> QED BY <2>1, <2>2, <2>3 DEF Provenance
<1> QED BY <1>1, <1>2, PTL DEF Spec

\* When reconcile unlinks a journal, no image a power loss may leave still has a
\* stage of its batch: the only record that binds a stage to its destination is
\* the last file to go.
THEOREM JournalLast == Spec => JournalGoesLast
<1>1. Provenance /\ [Next]_vars =>
        [ByProcess /\ journal \notin {None, Foreign} /\ journal' = None =>
           \A x \in Docs \X Roles : \A s \in dir[x[1]].disk :
             s[x[2]] # None => s[x[2]].txn # journal.txn]_vars
  BY UnlinkIsLast DEF Provenance
<1> QED BY <1>1, ProvenanceInvariant, PTL DEF Spec, JournalGoesLast

\* Once a command has reported success, no power loss brings back the before
\* bytes, a stage or the journal of its batch.
THEOREM SuccessDurable == Spec => []SuccessIsDurable
<1>1. Provenance => SuccessIsDurable
  <2> SUFFICES ASSUME Provenance, Untampered, report = "success"
               PROVE  /\ \A r \in root.disk : r.journal = None
                      /\ \A d \in Batch(held) : \A s \in dir[d].disk :
                           s.by \in {held.txn, User} /\ s.before = None /\ s.after = None
    BY DEF SuccessIsDurable
  <2>1. Succeeded
    BY DEF Provenance
  <2>2. ASSUME NEW d \in Batch(held), NEW s \in dir[d].disk
        PROVE  s.by \in {held.txn, User} /\ s.before = None /\ s.after = None
    <3>1. /\ s.by \in {held.txn, User}
          /\ Found(<<d, "before">>) = {} /\ Found(<<d, "after">>) = {}
      BY <2>1 DEF Succeeded, Writers, Roles
    <3> QED BY <3>1 DEF Found
  <2> QED BY <2>1, <2>2 DEF Succeeded
<1> QED BY <1>1, ProvenanceInvariant, PTL

-----------------------------------------------------------------------------
(***************************************************************************)
(* Writers.                                                                 *)
(***************************************************************************)

\* What a step leaves of a destination's directory: what was there, and perhaps
\* one image more.
Touches(d, img) ==
  /\ dir'[d].disk \subseteq dir[d].disk \cup {img}
  /\ Now(d)' \in {Now(d), img}

\* What a person may leave of a document: what it holds, set aside, or an edit.
ByHand(d, b) == (SetAside /\ b = Now(d).dest) \/ (b \in EditBytes /\ Edit(d, b))

\* A rename that finds its stage, and so may have happened.
Replaces(d) == Replace(d) /\ Present(held, <<d, "after">>)
Restores(d) == Restore(d) /\ Present(held, <<d, "before">>)

\* It moves the bytes that were authenticated, or bytes damaged since.
LEMMA RenamesTrusted ==
  ASSUME TypeOK, OnBatch, Trust, NEW d \in Docs
  PROVE  /\ Replaces(d) => /\ d \in Batch(held) /\ held.img[d] \in Bytes
                           /\ \/ Replaced(d).dest = Reconciled[held.img[d]]
                              \/ d \in tainted /\ Replaced(d).dest = Torn
         /\ Restores(d) => /\ d \in Batch(held) /\ held.img[d] \in Bytes
                           /\ \/ Restored(d).dest = held.img[d]
                              \/ d \in tainted /\ Restored(d).dest = Torn
<1>t. held \in Journals
  BY DEF TypeOK
<1>1. ASSUME Replaces(d)
      PROVE  /\ d \in Batch(held) /\ held.img[d] \in Bytes
             /\ \/ Replaced(d).dest = Reconciled[held.img[d]]
                \/ d \in tainted /\ Replaced(d).dest = Torn
  <2> DEFINE x == <<d, "after">>
  <2>1. At("replace") /\ First(d, todo) /\ d \in todo /\ Present(held, x)
    BY <1>1 DEF Replaces, Replace, First
  <2>2. d \in Batch(held) /\ held.img[d] \in Bytes
    BY <1>t, <2>1 DEF OnBatch, At, Batch, Journals
  <2>3. Authentic(held, x) \/ (d \in tainted /\ Slot(x).data = Torn)
    BY <2>1 DEF Trust, Trusted, Roles
  <2>4. Slot(x).data = Replaced(d).dest /\ Image(held, x) = Reconciled[held.img[d]]
    BY DEF Slot, Replaced, Image
  <2> QED BY <2>2, <2>3, <2>4 DEF Authentic
<1>2. ASSUME Restores(d)
      PROVE  /\ d \in Batch(held) /\ held.img[d] \in Bytes
             /\ \/ Restored(d).dest = held.img[d]
                \/ d \in tainted /\ Restored(d).dest = Torn
  <2> DEFINE x == <<d, "before">>
  <2>1. At("restore") /\ Last(d, todo) /\ d \in todo /\ Present(held, x)
    BY <1>2 DEF Restores, Restore, Last
  <2>2. d \in Batch(held) /\ held.img[d] \in Bytes
    BY <1>t, <2>1 DEF OnBatch, At, Batch, Journals
  <2>3. Authentic(held, x) \/ (d \in tainted /\ Slot(x).data = Torn)
    BY <2>1 DEF Trust, Trusted, Roles
  <2>4. Slot(x).data = Restored(d).dest /\ Image(held, x) = held.img[d]
    BY DEF Slot, Restored, Image
  <2> QED BY <2>2, <2>3, <2>4 DEF Authentic
<1> QED BY <1>1, <1>2

\* What was damaged in its window stays on record.
LEMMA TaintGrows ==
  ASSUME [Next]_vars
  PROVE  tainted \subseteq tainted'
<1>1. CASE \E x \in Docs \X Roles : TamperStage(x)
  BY <1>1 DEF TamperStage
<1> QED BY <1>1, TaintOrigin

\* A primitive shows the image or what it showed before.
LEMMA PrimitiveShows ==
  ASSUME NEW D, NEW img, NEW o \in Primitive(D, img)
  PROVE  o.dir.now \in {D.now, img} /\ (o.ok => o.dir = Durable(img))
<1>1. \/ o = [ok |-> TRUE, dir |-> Durable(img)]
      \/ o = [ok |-> FALSE, dir |-> D]
      \/ o = [ok |-> FALSE, dir |-> Unsynced(D, img)]
  BY DEF Primitive
<1>2. Durable(img).now = img /\ Unsynced(D, img).now = img
  BY DEF Durable, Unsynced
<1> HIDE DEF Durable, Unsynced
<1>3. \/ o.ok = TRUE /\ o.dir = Durable(img)
      \/ o.ok = FALSE /\ o.dir \in {D, Unsynced(D, img)}
  BY <1>1
<1> QED BY <1>2, <1>3

\* Who writes a destination: an outside writer, a rollback, or the commit of the
\* batch in memory.  Whatever else is done in its directory leaves it alone.
LEMMA WriterOrigin ==
  ASSUME TypeOK, [Next]_vars, ~PowerLoss, NEW d \in Docs
  PROVE  \E img : /\ Touches(d, img)
                  /\ \/ img.by = Now(d).by /\ img.dest = Now(d).dest
                     \/ img.by = User /\ ByHand(d, img.dest)
                     \/ Restores(d) /\ img = Restored(d)
                     \/ Replaces(d) /\ img = Replaced(d)
<1>t. dir \in [Docs -> Directories(DocImages)] /\ \A e \in Docs : Now(e) \in dir[e].disk
  BY DEF TypeOK, Now, Directories
<1>b. \A D, img : /\ Durable(img).disk = {img} /\ Unsynced(D, img).disk = D.disk \cup {img}
                  /\ Durable(img).now = img /\ Unsynced(D, img).now = img
  BY DEF Durable, Unsynced
<1> DEFINE Goal == \E img : /\ Touches(d, img)
                            /\ \/ img.by = Now(d).by /\ img.dest = Now(d).dest
                               \/ img.by = User /\ ByHand(d, img.dest)
                               \/ Restores(d) /\ img = Restored(d)
                               \/ Replaces(d) /\ img = Replaced(d)
<1>0. ASSUME dir'[d] = dir[d] PROVE Goal
  <2>1. Touches(d, Now(d))
    BY <1>0 DEF Touches, Now
  <2> QED BY <2>1
<1>a. ASSUME NEW e \in Docs, NEW D, dir' = [dir EXCEPT ![e] = D],
             NEW img, D.disk \subseteq dir[e].disk \cup {img}, D.now \in {Now(e), img},
             d = e => \/ img.by = Now(d).by /\ img.dest = Now(d).dest
                      \/ img.by = User /\ ByHand(d, img.dest)
                      \/ Restores(d) /\ img = Restored(d)
                      \/ Replaces(d) /\ img = Replaced(d)
      PROVE  Goal
  <2>1. CASE d = e
    <3>1. dir'[d] = D
      BY <1>t, <1>a, <2>1
    <3>2. Touches(d, img)
      BY <1>a, <2>1, <3>1 DEF Touches, Now
    <3> QED BY <1>a, <2>1, <3>2
  <2>2. CASE d # e
    <3>1. dir'[d] = dir[d]
      BY <1>t, <1>a, <2>2
    <3> QED BY <1>0, <3>1
  <2> QED BY <2>1, <2>2
<1>w. \A y, s : With(y, s).by = Now(y[1]).by /\ With(y, s).dest = Now(y[1]).dest
  BY DEF With
<1> HIDE DEF Goal
<1>1. ASSUME NEW y \in Docs \X Roles, Stage(y) PROVE Goal
  <2> DEFINE ok == With(y, [txn |-> held.txn, data |-> Image(held, y)])
             torn == With(y, [txn |-> held.txn, data |-> Torn])
  <2>1. \/ dir' = [dir EXCEPT ![y[1]] = Durable(ok)]
        \/ \E D \in {dir[y[1]], Unsynced(dir[y[1]], torn)} : dir' = [dir EXCEPT ![y[1]] = D]
    BY <1>1 DEF Stage
  <2>2. /\ y[1] \in Docs /\ ok.by = Now(y[1]).by /\ ok.dest = Now(y[1]).dest
        /\ torn.by = Now(y[1]).by /\ torn.dest = Now(y[1]).dest
    BY <1>w
  <2> HIDE DEF ok, torn
  <2>3. CASE dir' = [dir EXCEPT ![y[1]] = Durable(ok)]
    <3>1. /\ Durable(ok).disk \subseteq dir[y[1]].disk \cup {ok}
          /\ Durable(ok).now \in {Now(y[1]), ok}
      BY <1>b
    <3> QED BY <1>a, <2>2, <2>3, <3>1
  <2>4. CASE \E D \in {dir[y[1]], Unsynced(dir[y[1]], torn)} : dir' = [dir EXCEPT ![y[1]] = D]
    <3>1. PICK D \in {dir[y[1]], Unsynced(dir[y[1]], torn)} : dir' = [dir EXCEPT ![y[1]] = D]
      BY <2>4
    <3>2. D.disk \subseteq dir[y[1]].disk \cup {torn} /\ D.now \in {Now(y[1]), torn}
      BY <1>b, <3>1 DEF Now
    <3> QED BY <1>a, <2>2, <3>1, <3>2
  <2> QED BY <2>1, <2>3, <2>4
<1>2. ASSUME NEW y \in Docs \X Roles, Unstage(y) \/ CleanStage(y) PROVE Goal
  <2>1. \E img \in {With(y, None), Now(y[1])} : \E o \in Primitive(dir[y[1]], img) :
          dir' = [dir EXCEPT ![y[1]] = o.dir]
    BY <1>2 DEF Unstage, CleanStage
  <2>2. PICK img \in {With(y, None), Now(y[1])} : \E o \in Primitive(dir[y[1]], img) :
          dir' = [dir EXCEPT ![y[1]] = o.dir]
    BY <2>1
  <2>3. PICK o \in Primitive(dir[y[1]], img) : dir' = [dir EXCEPT ![y[1]] = o.dir]
    BY <2>2
  <2>4. o.dir.disk \subseteq dir[y[1]].disk \cup {img} /\ o.dir.now \in {Now(y[1]), img}
    BY PrimitiveImages, PrimitiveShows DEF Now
  <2>5. img.by = Now(y[1]).by /\ img.dest = Now(y[1]).dest
    BY <1>w, <2>2
  <2> QED BY <1>a, <2>3, <2>4, <2>5
<1>3. ASSUME NEW e \in Docs, Replace(e) PROVE Goal
  <2>1. PICK o \in Primitive(dir[e], Replaced(e)) :
          /\ dir' = [dir EXCEPT ![e] = o.dir]
          /\ Present(held, <<e, "after">>) \/ (o.ok = FALSE /\ o.dir = dir[e])
    BY <1>3, ReplaceForms
  <2>2. o.dir.disk \subseteq dir[e].disk \cup {Replaced(e)} /\ o.dir.now \in {Now(e), Replaced(e)}
    BY PrimitiveImages, PrimitiveShows DEF Now
  <2>3. CASE Present(held, <<e, "after">>)
    <3>1. d = e => Replaces(d) /\ Replaced(e) = Replaced(d)
      BY <1>3, <2>3 DEF Replaces
    <3> QED BY <1>a, <2>1, <2>2, <3>1
  <2>4. CASE ~Present(held, <<e, "after">>)
    BY <1>t, <1>0, <2>1, <2>4
  <2> QED BY <2>3, <2>4
<1>4. ASSUME NEW e \in Docs, Restore(e) PROVE Goal
  <2>1. PICK o \in Primitive(dir[e], Restored(e)) :
          /\ dir' = [dir EXCEPT ![e] = o.dir]
          /\ Present(held, <<e, "before">>) \/ (o.ok = FALSE /\ o.dir = dir[e])
    BY <1>4, RestoreForms
  <2>2. o.dir.disk \subseteq dir[e].disk \cup {Restored(e)} /\ o.dir.now \in {Now(e), Restored(e)}
    BY PrimitiveImages, PrimitiveShows DEF Now
  <2>3. CASE Present(held, <<e, "before">>)
    <3>1. d = e => Restores(d) /\ Restored(e) = Restored(d)
      BY <1>4, <2>3 DEF Restores
    <3> QED BY <1>a, <2>1, <2>2, <3>1
  <2>4. CASE ~Present(held, <<e, "before">>)
    BY <1>t, <1>0, <2>1, <2>4
  <2> QED BY <2>3, <2>4
<1>5. ASSUME SetAside PROVE Goal
  <2> DEFINE img == [dest |-> Now(d).dest, by |-> User, before |-> None, after |-> None]
  <2>1. dir'[d] = Durable(img)
    BY <1>t, <1>5 DEF SetAside
  <2>2. img.by = User /\ ByHand(d, img.dest)
    BY <1>5 DEF ByHand
  <2> HIDE DEF img
  <2>3. Touches(d, img)
    BY <1>b, <2>1 DEF Touches, Now
  <2> QED BY <2>2, <2>3 DEF Goal
<1>6. ASSUME NEW e \in Docs, NEW b \in EditBytes, Edit(e, b) PROVE Goal
  <2> DEFINE img == [dest |-> b, by |-> User, before |-> Now(e).before, after |-> Now(e).after]
  <2>1. dir' = [dir EXCEPT ![e] = Unsynced(dir[e], img)]
    BY <1>6 DEF Edit
  <2>2. img.by = User /\ (d = e => ByHand(d, img.dest))
    BY <1>6 DEF ByHand
  <2> HIDE DEF img
  <2>3. /\ Unsynced(dir[e], img).disk \subseteq dir[e].disk \cup {img}
        /\ Unsynced(dir[e], img).now \in {Now(e), img}
    BY <1>b
  <2> QED BY <1>a, <2>1, <2>2, <2>3
<1>7. ASSUME NEW y \in Docs \X Roles, TamperStage(y) PROVE Goal
  <2>1. PICK s \in {None, [Slot(y) EXCEPT !.data = Torn]} :
          dir' = [dir EXCEPT ![y[1]] = Durable(With(y, s))]
    BY <1>7 DEF TamperStage
  <2>2. With(y, s).by = Now(y[1]).by /\ With(y, s).dest = Now(y[1]).dest
    BY <1>w
  <2>3. /\ Durable(With(y, s)).disk \subseteq dir[y[1]].disk \cup {With(y, s)}
        /\ Durable(With(y, s)).now \in {Now(y[1]), With(y, s)}
        /\ y[1] \in Docs
    BY <1>b
  <2> QED BY <1>a, <2>1, <2>2, <2>3
<1>8. ASSUME \/ Start \/ Recovery \/ PlanNothing \/ Publish \/ Unpublish \/ Unstaged \/ Load
             \/ Mark \/ Reset \/ Abort \/ Settle \/ UnlinkJournal \/ RestoreJournal
             \/ ReadFault \/ Crash \/ TamperJournal
      PROVE  Goal
  <2>1. CASE Start \/ Recovery
    BY <2>1, <1>0 DEF Start, Begin, Recovery, RecoverNothing, RecoverRefused, RecoverPrepared,
                      RecoverCommitted, Scan
  <2> QED BY <1>8, <2>1, <1>0
          DEF PlanNothing, Publish, Unpublish, Unstaged, Load, Mark, Reset, Abort, Settle,
              UnlinkJournal, RestoreJournal, ReadFault, Crash, TamperJournal
<1>9. ASSUME \/ \E S \in SUBSET Docs : Plan(S)
             \/ \E e \in Docs : \/ Fingerprint(e) \/ Authenticate(e) \/ ReplaceRefused(e)
                                \/ Classify(e) \/ AuthenticateBefore(e) \/ RestoreRefused(e)
             \/ \E y \in Docs \X Roles : CleanStageRefused(y)
             \/ UNCHANGED vars
      PROVE  Goal
  BY <1>9, <1>0 DEF Plan, Fingerprint, Authenticate, ReplaceRefused, Classify, AuthenticateBefore,
                    RestoreRefused,
                    CleanStageRefused, vars
<1> QED BY <1>1, <1>2, <1>3, <1>4, <1>5, <1>6, <1>7, <1>8, <1>9
        DEF Next, Process, Environment, Preparation, Commit, Rollback, Cleanup, Goal

\* After a power loss a directory is one of the images it had.
LEMMA PowerKeeps ==
  ASSUME TypeOK, PowerLoss
  PROVE  /\ \A d \in Docs : \E s \in dir[d].disk : dir'[d] = Durable(s)
         /\ \E r \in root.disk : root' = Durable(r)
         /\ UNCHANGED <<held, decided>> /\ pc' = "idle"
  BY DEF PowerLoss, Gone

\* What a batch leaves on disk, in the terms of who wrote it.
LEMMA DiskOrigin ==
  ASSUME TypeOK, [Next]_vars, NEW d \in Docs, NEW s \in dir'[d].disk
  PROVE  \/ \E q \in dir[d].disk : s.by = q.by /\ s.dest = q.dest
         \/ s.by = User
         \/ Restores(d) /\ s.by = 0
         \/ Replaces(d) /\ s = Replaced(d)
<1>1. Now(d) \in dir[d].disk
  BY DEF TypeOK, Now, Directories
<1>2. CASE PowerLoss
  <2>1. PICK q \in dir[d].disk : dir'[d] = Durable(q)
    BY <1>2, PowerKeeps
  <2> QED BY <2>1 DEF Durable
<1>3. CASE ~PowerLoss
  <2>1. PICK img : /\ Touches(d, img)
                   /\ \/ img.by = Now(d).by /\ img.dest = Now(d).dest
                      \/ img.by = User
                      \/ Restores(d) /\ img = Restored(d)
                      \/ Replaces(d) /\ img = Replaced(d)
    BY <1>3, WriterOrigin
  <2>2. s \in dir[d].disk \/ s = img
    BY <2>1 DEF Touches
  <2>3. Restored(d).by = 0
    BY DEF Restored
  <2> QED BY <1>1, <2>1, <2>2, <2>3
<1> QED BY <1>2, <1>3

\* Transactions become decided when their marker is written or found.
LEMMA DecidedOrigin ==
  ASSUME TypeOK, [Next]_vars, decided' # decided
  PROVE  \/ Mark /\ held' = Committed(held) /\ decided' = decided \cup {held.txn}
         \/ RecoverCommitted /\ held' = journal /\ decided' = decided \cup {journal.txn}
<1>1. CASE Start \/ Recovery \/ Rollback
  BY <1>1
     DEF Start, Begin, Recovery, RecoverNothing, RecoverRefused, RecoverPrepared,
         RecoverCommitted, Scan, Rollback, Abort, Settle, Classify,
         AuthenticateBefore, Restore, RestoreRefused, Failed
<1>2. CASE Preparation
  BY <1>2 DEF Preparation, Plan, PlanNothing, Publish, Unpublish, Unstaged, Load, Stage, Unstage
<1>3. CASE Commit
  BY <1>3 DEF Commit, Mark, Reset, Fingerprint, Authenticate, Replace, ReplaceRefused, Failed
<1>4. CASE Cleanup
  BY <1>4 DEF Cleanup, UnlinkJournal, RestoreJournal, CleanStage, CleanStageRefused
<1>5. CASE ReadFault \/ Environment
  BY <1>5 DEF ReadFault, Environment, Crash, PowerLoss, SetAside, Edit, TamperJournal,
              TamperStage
<1>6. CASE UNCHANGED vars
  BY <1>6 DEF vars
<1> QED BY <1>1, <1>2, <1>3, <1>4, <1>5, <1>6 DEF Next, Process

\* A process starts to touch files with a batch it plans or finds, and keeps it.
LEMMA FromRest ==
  ASSUME [Next]_vars, pc' \notin Rest, ~RecoverPrepared, ~RecoverCommitted,
         \A S \in SUBSET Docs : ~Plan(S)
  PROVE  pc \notin Rest
<1> SUFFICES ASSUME pc \in Rest PROVE FALSE
  OBVIOUS
<1> USE DEF At, Rest, Goto, Gone, Exit, work
<1>1. CASE Start \/ Recovery
  BY <1>1 DEF Start, Begin, Recovery, RecoverNothing, RecoverRefused, Scan
<1>2. CASE Preparation
  BY <1>2 DEF Preparation, PlanNothing, Unpublish, Unstaged, Load, Publish, Stage, Unstage
<1>3. CASE Commit
  BY <1>3 DEF Commit, Mark, Reset, Fingerprint, Authenticate, Replace, ReplaceRefused, Failed
<1>4. CASE Rollback
  BY <1>4 DEF Rollback, Abort, Settle, Classify, AuthenticateBefore, Restore, RestoreRefused, Failed
<1>5. CASE Cleanup
  BY <1>5 DEF Cleanup, UnlinkJournal, RestoreJournal, CleanStage, CleanStageRefused
<1>6. CASE ReadFault \/ Environment
  BY <1>6 DEF ReadFault, Environment, Crash, PowerLoss, SetAside, Edit, TamperJournal,
              TamperStage
<1>7. CASE UNCHANGED vars
  BY <1>7 DEF vars
<1> QED BY <1>1, <1>2, <1>3, <1>4, <1>5, <1>6, <1>7 DEF Next, Process

\* Cleanup never leads back to applying or rolling back.
LEMMA FromPrepared ==
  ASSUME [Next]_vars, pc' \notin Rest \cup {"cleanup", "restoreJournal"}, ~RecoverPrepared,
         \A S \in SUBSET Docs : ~Plan(S)
  PROVE  pc \notin Rest \cup {"cleanup", "restoreJournal"} /\ held' = held
<1> USE DEF At, Rest, Goto, Gone, Exit, work
<1>1. CASE Start \/ Recovery
  BY <1>1 DEF Start, Begin, Recovery, RecoverNothing, RecoverRefused, RecoverCommitted, Scan,
              StartCleanup
<1>2. CASE Preparation
  BY <1>2 DEF Preparation, PlanNothing, Unpublish, Unstaged, Load, Publish, Stage, Unstage
<1>3. CASE Commit
  BY <1>3 DEF Commit, Mark, Reset, Fingerprint, Authenticate, Replace, ReplaceRefused, Failed,
              StartCleanup
<1>4. CASE Rollback
  BY <1>4 DEF Rollback, Abort, Settle, Classify, AuthenticateBefore, Restore, RestoreRefused, Failed
<1>5. CASE Cleanup
  BY <1>5 DEF Cleanup, UnlinkJournal, RestoreJournal, CleanStage, CleanStageRefused, Cleaned,
              Finish
<1>6. CASE ReadFault \/ Environment
  BY <1>6 DEF ReadFault, Environment, Crash, PowerLoss, SetAside, Edit, TamperJournal,
              TamperStage
<1>7. CASE UNCHANGED vars
  BY <1>7 DEF vars
<1> QED BY <1>1, <1>2, <1>3, <1>4, <1>5, <1>6, <1>7 DEF Next, Process

\* Staging ends by publishing the journal, or by giving the batch up.
LEMMA FromStaging ==
  ASSUME [Next]_vars, pc \in {"stage", "unstage"}, pc' \notin Rest \cup {"stage", "unstage"}
  PROVE  Publish
<1> USE DEF At, Rest, Goto, Gone, Exit, work
<1>1. CASE Start \/ Recovery
  BY <1>1 DEF Start, Begin, Recovery, RecoverNothing, RecoverRefused, RecoverPrepared,
              RecoverCommitted, Scan
<1>2. CASE Preparation
  BY <1>2 DEF Preparation, Plan, PlanNothing, Unpublish, Unstaged, Load, Stage, Unstage
<1>3. CASE Commit
  BY <1>3 DEF Commit, Mark, Reset, Fingerprint, Authenticate, Replace, ReplaceRefused, Failed
<1>4. CASE Rollback
  BY <1>4 DEF Rollback, Abort, Settle, Classify, AuthenticateBefore, Restore, RestoreRefused, Failed
<1>5. CASE Cleanup
  BY <1>5 DEF Cleanup, UnlinkJournal, RestoreJournal, CleanStage, CleanStageRefused
<1>6. CASE ReadFault \/ Environment
  BY <1>6 DEF ReadFault, Environment, Crash, PowerLoss, SetAside, Edit, TamperJournal,
              TamperStage
<1>7. CASE UNCHANGED vars
  BY <1>7 DEF vars
<1> QED BY <1>1, <1>2, <1>3, <1>4, <1>5, <1>6, <1>7 DEF Next, Process

\* A journal on disk after a step is of a batch known before it, or of a new one.
LEMMA KnownOrNew ==
  ASSUME TypeOK, [Next]_vars, NEW j \in Known'
  PROVE  (\E i \in Known : SameBatch(i, j)) \/ j.txn = spent.txns + 1
<1>1. CASE \A S \in SUBSET Docs : ~Plan(S)
  BY <1>1, KnownKept
<1>2. CASE \E S \in SUBSET Docs : Plan(S)
  <2>1. UNCHANGED root /\ held'.txn = spent.txns + 1
    BY <1>2 DEF Plan
  <2>2. j = held' \/ j \in Known
    BY <2>1 DEF Known
  <2> QED BY <2>1, <2>2 DEF SameBatch
<1> QED BY <1>1, <1>2

LEMMA BrandedStep ==
  ASSUME TypeOK, OnBatch, Trust, Lineage, Branded, [Next]_vars
  PROVE  Branded'
<1> SUFFICES ASSUME NEW d \in Docs, NEW s \in dir'[d].disk, s.by \notin {0, User}
             PROVE  /\ s.by <= spent'.txns
                    /\ \/ d \in tainted' /\ s.dest = Torn
                       \/ s.dest \in Bytes /\ Reconciled[s.dest] = s.dest
                    /\ \A j \in Known' : s.by = j.txn =>
                         d \in Batch(j) /\ s.dest \in {Torn, Reconciled[j.img[d]]}
  BY DEF Branded
<1>v. tainted \subseteq tainted'
  BY TaintGrows
<1>t. /\ spent.txns \in Nat /\ spent'.txns \in Nat /\ spent'.txns >= spent.txns
      /\ held \in Journals /\ held \in Known /\ held.txn \in Nat
      /\ \A e \in Docs : \A q \in dir[e].disk : q.by \in Nat \cup {User}
  BY SpentGrows, TypeStep
     DEF TypeOK, Events, Known, Journals, Directories, DocImages
<1>a. ASSUME s.by \in Nat, s.by <= spent.txns,
             \A i \in Known : s.by = i.txn =>
               d \in Batch(i) /\ s.dest \in {Torn, Reconciled[i.img[d]]}
      PROVE  \A j \in Known' : s.by = j.txn =>
               d \in Batch(j) /\ s.dest \in {Torn, Reconciled[j.img[d]]}
  <2> SUFFICES ASSUME NEW j \in Known', s.by = j.txn
               PROVE  d \in Batch(j) /\ s.dest \in {Torn, Reconciled[j.img[d]]}
    OBVIOUS
  <2>1. PICK i \in Known : SameBatch(i, j)
    BY <1>t, <1>a, KnownOrNew
  <2> QED BY <1>a, <2>1 DEF SameBatch, Batch
<1>1. ASSUME NEW q \in dir[d].disk, s.by = q.by, s.dest = q.dest
      PROVE  /\ s.by \in Nat /\ s.by <= spent.txns
             /\ \/ d \in tainted /\ s.dest = Torn
                \/ s.dest \in Bytes /\ Reconciled[s.dest] = s.dest
             /\ \A i \in Known : s.by = i.txn =>
                  d \in Batch(i) /\ s.dest \in {Torn, Reconciled[i.img[d]]}
  BY <1>t, <1>1 DEF Branded
<1>2. ASSUME Replaces(d), s = Replaced(d)
      PROVE  /\ s.by \in Nat /\ s.by <= spent.txns
             /\ \/ d \in tainted /\ s.dest = Torn
                \/ s.dest \in Bytes /\ Reconciled[s.dest] = s.dest
             /\ \A i \in Known : s.by = i.txn =>
                  d \in Batch(i) /\ s.dest \in {Torn, Reconciled[i.img[d]]}
  <2>1. /\ d \in Batch(held) /\ held.img[d] \in Bytes
        /\ \/ s.dest = Reconciled[held.img[d]]
           \/ d \in tainted /\ s.dest = Torn
    BY <1>2, RenamesTrusted
  <2>2. s.by = held.txn
    BY <1>2 DEF Replaced
  <2>3. \/ d \in tainted /\ s.dest = Torn
        \/ s.dest \in Bytes /\ Reconciled[s.dest] = s.dest
    BY <2>1, BytesAssumption
  <2>4. ASSUME NEW i \in Known, s.by = i.txn
        PROVE  d \in Batch(i) /\ s.dest \in {Torn, Reconciled[i.img[d]]}
    <3>1. i.img = held.img
      BY <1>t, <2>2, <2>4 DEF Lineage
    <3> QED BY <2>1, <3>1 DEF Batch
  <2> QED BY <1>t, <2>2, <2>3, <2>4 DEF Lineage
<1>3. /\ s.by \in Nat /\ s.by <= spent.txns
      /\ \/ d \in tainted /\ s.dest = Torn
         \/ s.dest \in Bytes /\ Reconciled[s.dest] = s.dest
      /\ \A i \in Known : s.by = i.txn =>
           d \in Batch(i) /\ s.dest \in {Torn, Reconciled[i.img[d]]}
  BY <1>1, <1>2, DiskOrigin
<1>4. s.by <= spent'.txns
  BY <1>t, <1>3
<1> QED BY <1>a, <1>v, <1>3, <1>4

LEMMA NumberedStep ==
  ASSUME TypeOK, OnBatch, Lineage, Numbered, [Next]_vars
  PROVE  Numbered'
<1> USE DEF At
<1>s. spent.txns \in Nat /\ spent'.txns \in Nat /\ spent'.txns >= spent.txns
  BY SpentGrows DEF TypeOK, Events
<1>t. /\ spent.txns \in Nat /\ spent'.txns \in Nat /\ spent'.txns >= spent.txns
      /\ held \in Journals /\ held \in Known /\ decided \subseteq Nat
      /\ Committed(held).txn = held.txn /\ root.now \in root.disk
      /\ \A j \in Known : j.txn \in Nat /\ j.txn <= spent.txns
  BY <1>s, CommittedType
     DEF TypeOK, Events, Known, Journals, Directories, RootImages, Lineage
<1>r. Real(journal) => journal.txn # 0 /\ journal \in Known
  BY <1>t DEF Numbered, Real, Known, journal
<1>p. ASSUME NEW S \in SUBSET Docs, Plan(S)
      PROVE  held'.txn # 0 /\ held'.state = "prepared"
  BY <1>t, <1>p DEF Plan
<1>1. ASSUME NEW t \in decided' PROVE t # 0 /\ t <= spent'.txns
  <2>1. CASE t \in decided
    BY <1>t, <2>1 DEF Numbered
  <2>2. CASE t \notin decided
    <3>1. CASE Mark /\ decided' = decided \cup {held.txn}
      <4>1. t = held.txn /\ held.txn # 0
        BY <1>1, <2>2, <3>1 DEF Mark, Numbered, Rest
      <4> QED BY <1>t, <4>1
    <3>2. CASE RecoverCommitted /\ decided' = decided \cup {journal.txn}
      <4>1. t = journal.txn /\ Real(journal)
        BY <1>1, <2>2, <3>2 DEF RecoverCommitted, Real
      <4> QED BY <1>t, <1>r, <4>1
    <3> QED BY <1>1, <2>2, <3>1, <3>2, DecidedOrigin
  <2> QED BY <2>1, <2>2
<1>2. ASSUME NEW r \in root'.disk, Real(r.journal) PROVE r.journal.txn # 0
  <2>1. CASE Publish \/ RestoreJournal \/ Reset \/ Mark
    <3>1. held.txn # 0
      BY <2>1 DEF Publish, RestoreJournal, Reset, Mark, Numbered, Rest
    <3>2. \/ \E q \in root.disk : r.journal = q.journal
          \/ r.journal \in {held, Committed(held)}
      BY <1>2, JournalOrigin DEF Real
    <3> QED BY <1>t, <1>2, <3>1, <3>2 DEF Numbered
  <2>2. CASE ~(Publish \/ RestoreJournal \/ Reset \/ Mark)
    BY <1>2, <2>2, JournalOrigin DEF Numbered, Real
  <2> QED BY <2>1, <2>2
<1>3. ASSUME pc' \notin Rest PROVE held'.txn # 0
  <2>1. CASE \E S \in SUBSET Docs : Plan(S)
    BY <1>p, <2>1
  <2>2. CASE RecoverPrepared \/ RecoverCommitted
    BY <1>r, <2>2 DEF RecoverPrepared, RecoverCommitted, Real
  <2>3. CASE pc \notin Rest /\ held' \in {held, Committed(held)}
    BY <1>t, <2>3 DEF Numbered
  <2> QED BY <1>3, <2>1, <2>2, <2>3, FromRest, HeldOrigin
<1>4. ASSUME pc' \notin Rest \cup {"cleanup", "restoreJournal"} PROVE held'.state = "prepared"
  <2>1. CASE \E S \in SUBSET Docs : Plan(S)
    BY <1>p, <2>1
  <2>2. CASE RecoverPrepared
    BY <2>2 DEF RecoverPrepared
  <2>3. CASE pc \notin Rest \cup {"cleanup", "restoreJournal"} /\ held' = held
    BY <2>3 DEF Numbered
  <2> QED BY <1>4, <2>1, <2>2, <2>3, FromPrepared
<1> QED BY <1>1, <1>2, <1>3, <1>4 DEF Numbered, Rest

-----------------------------------------------------------------------------
(***************************************************************************)
(* The journal that is shown.                                               *)
(***************************************************************************)

\* Only a power loss brings a journal back.
LEMMA ReviveOrigin ==
  ASSUME [Next]_vars, ~PowerLoss
  PROVE  revived' = revived
<1> USE DEF marks
<1>1. CASE Start \/ Recovery
  BY <1>1 DEF Start, Begin, Recovery, RecoverNothing, RecoverRefused, RecoverPrepared,
              RecoverCommitted, Scan
<1>2. CASE Preparation
  BY <1>2 DEF Preparation, Plan, PlanNothing, Publish, Unpublish, Unstaged, Load, Stage, Unstage
<1>3. CASE Commit
  BY <1>3 DEF Commit, Mark, Reset, Fingerprint, Authenticate, Replace, ReplaceRefused
<1>4. CASE Rollback
  BY <1>4 DEF Rollback, Abort, Settle, Classify, AuthenticateBefore, Restore, RestoreRefused
<1>5. CASE Cleanup
  BY <1>5 DEF Cleanup, UnlinkJournal, RestoreJournal, CleanStage, CleanStageRefused
<1>6. CASE ReadFault \/ Environment
  BY <1>6 DEF ReadFault, Environment, Crash, TamperJournal, TamperStage, SetAside, Edit
<1>7. CASE UNCHANGED vars
  BY <1>7 DEF vars
<1> QED BY <1>1, <1>2, <1>3, <1>4, <1>5, <1>6, <1>7 DEF Next, Process

\* Until a power loss brings another journal back, the one that it leaves was shown.
LEMMA FaithfulStep ==
  ASSUME [Next]_vars, Faithful'
  PROVE  /\ Faithful
         /\ PowerLoss => journal' \in {journal, None, Foreign}
<1>1. ASSUME PowerLoss PROVE Faithful /\ journal' \in {journal, None, Foreign}
  <2>1. PICK kept \in root.disk :
          root' = Durable(kept) /\ revived' = (revived \/ Revives(kept))
    BY <1>1 DEF PowerLoss
  <2>2. journal' = kept.journal
    BY <2>1 DEF Durable, journal
  <2>3. ~revived /\ ~Revives(kept)
    BY <2>1 DEF Faithful
  <2> QED BY <2>2, <2>3 DEF Faithful, Revives
<1>2. ~PowerLoss => Faithful
  BY ReviveOrigin DEF Faithful
<1> QED BY <1>1, <1>2

\* A journal primitive that succeeds leaves only the new journal on disk; a
\* refused creation leaves the old one everywhere.
LEMMA AtomicDone ==
  ASSUME root \in Directories(RootImages), NEW j \in Journals
  PROVE  /\ \A o \in AtomicCreate(j) \cup AtomicReplace(j) :
              o.ok => o.dir.now.journal = j /\ \A r \in o.dir.disk : r.journal = j
         /\ journal # None => \A o \in AtomicCreate(j) :
              /\ o.dir.now.journal = journal
              /\ \A r \in o.dir.disk : r.journal = journal \/ r \in root.disk
<1> DEFINE linked == [root.now EXCEPT !.journal = j]
           helped == WithHelper(root.now)
           both   == WithHelper(linked)
<1>1. linked.journal = j /\ helped.journal = journal
  BY DEF Directories, RootImages, WithHelper, journal
<1>2. ASSUME NEW o \in AtomicCreate(j) \cup AtomicReplace(j)
      PROVE  o.ok => o.dir = Durable(linked)
  <2> HIDE DEF linked, helped, both
  <2>1. \/ o = [ok |-> TRUE, dir |-> Durable(linked)]
        \/ \E D : o = [ok |-> FALSE, dir |-> D]
    BY DEF AtomicCreate, AtomicReplace, Primitive, linked, helped, both
  <2> QED BY <2>1
<1>3. ASSUME journal # None, NEW o \in AtomicCreate(j)
      PROVE  o.dir \in {root, Unsynced(root, helped)}
  <2> HIDE DEF linked, helped, both
  <2>1. \E D \in {root, Unsynced(root, helped)} : o = [ok |-> FALSE, dir |-> D]
    BY <1>3 DEF AtomicCreate, linked, helped, both
  <2> QED BY <2>1
<1> HIDE DEF linked, helped, both
<1>4. Durable(linked).now = linked /\ Durable(linked).disk = {linked}
  BY DEF Durable
<1>5. Unsynced(root, helped).now = helped /\ Unsynced(root, helped).disk = root.disk \cup {helped}
  BY DEF Unsynced
<1>6. ASSUME NEW o \in AtomicCreate(j) \cup AtomicReplace(j), o.ok
      PROVE  o.dir.now.journal = j /\ \A r \in o.dir.disk : r.journal = j
  BY <1>1, <1>2, <1>4, <1>6
<1>7. ASSUME journal # None, NEW o \in AtomicCreate(j)
      PROVE  o.dir.now.journal = journal /\ \A r \in o.dir.disk : r.journal = journal \/ r \in root.disk
  BY <1>1, <1>3, <1>5, <1>7 DEF journal
<1> QED BY <1>6, <1>7

\* Steps that leave the root alone.
LEMMA RootKept ==
  ASSUME [Next]_vars
  PROVE  \/ UNCHANGED root
         \/ Publish \/ RestoreJournal \/ Reset \/ Mark \/ UnlinkJournal
         \/ PowerLoss \/ TamperJournal \/ SetAside
<1>1. CASE Start \/ Recovery \/ Rollback
  BY <1>1
     DEF Start, Begin, Recovery, RecoverNothing, RecoverRefused, RecoverPrepared,
         RecoverCommitted, Scan, Rollback, Abort, Settle, Classify,
         AuthenticateBefore, Restore, RestoreRefused, Failed
<1>2. CASE \/ PlanNothing \/ Unpublish \/ Unstaged \/ Load \/ ReadFault \/ Crash
           \/ \E S \in SUBSET Docs : Plan(S)
           \/ \E d \in Docs : Fingerprint(d) \/ Authenticate(d) \/ Replace(d) \/ ReplaceRefused(d)
  BY <1>2 DEF PlanNothing, Unpublish, Unstaged, Load, ReadFault, Crash, Plan, Fingerprint,
              Authenticate, Replace, ReplaceRefused
<1>3. CASE \/ \E x \in Docs \X Roles : \/ Stage(x) \/ Unstage(x) \/ CleanStage(x)
                                       \/ CleanStageRefused(x) \/ TamperStage(x)
           \/ \E d \in Docs, b \in EditBytes : Edit(d, b)
           \/ UNCHANGED vars
  BY <1>3 DEF Stage, Unstage, CleanStage, CleanStageRefused, TamperStage, Edit, vars
<1> QED BY <1>1, <1>2, <1>3 DEF Next, Process, Environment, Preparation, Commit, Cleanup

\* What is shown after a step was shown before it, or is the journal in memory.
LEMMA JournalShows ==
  ASSUME TypeOK, Shown, [Next]_vars, Faithful'
  PROVE  \/ journal' \in {journal, None, Foreign}
         \/ (Publish \/ RestoreJournal \/ Reset) /\ journal' = held
         \/ Mark /\ journal' = Committed(held)
<1>t. /\ root \in Directories(RootImages) /\ held \in Journals /\ Committed(held) \in Journals
  BY CommittedType DEF TypeOK
<1>a. ASSUME NEW j \in {held, Committed(held)},
             NEW o \in AtomicCreate(j) \cup AtomicReplace(j), root' = o.dir
      PROVE  journal' \in {journal, j}
  BY <1>t, <1>a, AtomicShows DEF journal
<1>1. CASE UNCHANGED root
  BY <1>1 DEF journal
<1>2. CASE Publish \/ RestoreJournal \/ Reset
  <2>1. \/ UNCHANGED root
        \/ \E o \in AtomicCreate(held) \cup AtomicReplace(held) : root' = o.dir
    BY <1>2 DEF Publish, RestoreJournal, Reset
  <2> QED BY <1>1, <1>2, <1>a, <2>1
<1>3. CASE Mark
  <2>1. \E o \in AtomicReplace(Committed(held)) : root' = o.dir
    BY <1>3 DEF Mark
  <2> QED BY <1>3, <1>a, <2>1
<1>4. CASE UnlinkJournal
  <2>1. CASE journal = held
    <3> DEFINE img == [root.now EXCEPT !.journal = None]
    <3>1. PICK o \in Primitive(root, img) : root' = o.dir
      BY <1>4, <2>1 DEF UnlinkJournal
    <3>2. img.journal = None
      BY <1>t DEF Directories, RootImages
    <3> HIDE DEF img
    <3> QED BY <3>1, <3>2, PrimitiveShows DEF journal
  <2>2. CASE journal # held
    BY <1>1, <1>4, <2>2 DEF UnlinkJournal
  <2> QED BY <2>1, <2>2
<1>5. CASE PowerLoss
  BY <1>5, FaithfulStep
<1>6. CASE TamperJournal
  <2>1. PICK j \in {None, Foreign} : root' = Durable([root.now EXCEPT !.journal = j])
    BY <1>6 DEF TamperJournal
  <2> QED BY <1>t, <2>1 DEF Durable, Directories, RootImages, journal
<1>7. CASE SetAside
  BY <1>7 DEF SetAside, Durable, journal
<1> QED BY <1>1, <1>2, <1>3, <1>4, <1>5, <1>6, <1>7, RootKept

\* The points at which the journal that is shown, if any, is the prepared one of
\* the batch.
Working == {"stage", "unstage", "unpublish", "load", "fingerprint", "checkAfter", "replace",
            "abort", "classify", "checkBefore", "restore"}

LEMMA WorkingStep ==
  ASSUME TypeOK, Numbered, Shown, [Next]_vars, Faithful', pc' \in Working
  PROVE  journal' \in {None, Foreign, held'}
<1> USE DEF At
<1>1. CASE Outside
  <2>1. UNCHANGED <<pc, held>>
    BY <1>1, OutsideKeeps
  <2>2. pc \in Working /\ journal \in {None, Foreign, held}
    BY <2>1 DEF Shown, Working
  <2>3. CASE TamperJournal
    <3>1. PICK j \in {None, Foreign} : root' = Durable([root.now EXCEPT !.journal = j])
      BY <2>3 DEF TamperJournal
    <3> QED BY <3>1 DEF Durable, TypeOK, Directories, RootImages, journal
  <2>4. CASE ~TamperJournal
    <3>1. UNCHANGED root
      BY <1>1, <2>4 DEF Outside, TamperStage, Edit, vars
    <3> QED BY <2>1, <2>2, <3>1 DEF journal
  <2> QED BY <2>3, <2>4
<1>a. ASSUME pc \in Working, held' = held, UNCHANGED root PROVE journal' \in {None, Foreign, held'}
  BY <1>a DEF Shown, Working, journal
<1>2. CASE Publish
  BY <1>2, JournalShows DEF Publish, Mark, Shown, Working
<1>3. CASE \E S \in SUBSET Docs : Plan(S)
  BY <1>3 DEF Plan, journal
<1>4. CASE Unpublish \/ Load \/ Abort \/ \E x \in Docs \X Roles : Stage(x) \/ Unstage(x)
  BY <1>4, <1>a DEF Unpublish, Load, Abort, Stage, Unstage, Working
<1>5. CASE \E d \in Docs : \/ Fingerprint(d) \/ Authenticate(d) \/ Replace(d) \/ ReplaceRefused(d)
                           \/ Classify(d) \/ AuthenticateBefore(d) \/ Restore(d)
  BY <1>5, <1>a DEF Fingerprint, Authenticate, Replace, ReplaceRefused, Classify,
                    AuthenticateBefore, Restore, Working
<1>6. CASE RecoverPrepared
  BY <1>6 DEF RecoverPrepared, journal
<1>7. CASE Reset
  <2>1. \/ journal = held /\ UNCHANGED root
        \/ \E o \in AtomicCreate(held) \cup AtomicReplace(held) : root' = o.dir /\ o.ok
    BY <1>7 DEF Reset, Exit, Gone, Working
  <2>2. root \in Directories(RootImages) /\ held \in Journals
    BY DEF TypeOK
  <2>3. journal' = held
    BY <2>1, <2>2, AtomicShows DEF journal
  <2> QED BY <1>7, <2>3 DEF Reset
<1> QED BY <1>1, <1>2, <1>3, <1>4, <1>5, <1>6, <1>7, ControlFlow DEF Working

LEMMA ShownStep ==
  ASSUME TypeOK, OnBatch, Numbered, Shown, [Next]_vars, Faithful'
  PROVE  Shown'
<1> USE DEF At
<1>t. /\ root \in Directories(RootImages) /\ held \in Journals /\ Committed(held) \in Journals
      /\ Committed(held).txn = held.txn /\ Committed(held).img = held.img
      /\ Committed(held).state = "committed" /\ spent.txns \in Nat /\ decided \subseteq Nat
      /\ journal \in Journals \cup {None, Foreign}
      /\ Real(journal) => journal \in Journals
  BY CommittedType, JournalType DEF TypeOK, Events, Real
<1>s. \A j \in Journals : j.state \in {"prepared", "committed"}
  BY DEF Journals
<1>b. Real(journal) /\ journal.state = "prepared" => held.state = "prepared" /\ held.txn \notin decided
  BY <1>s, <1>t DEF Shown
<1>m. ASSUME Mark, held' # held
      PROVE  held' = Committed(held) /\ journal' = Committed(held)
  <2>1. PICK o \in AtomicReplace(Committed(held)) :
          root' = o.dir /\ (\/ o.ok /\ held' = Committed(held)
                            \/ ~o.ok /\ held' = held)
    BY <1>m DEF Mark
  <2>2. o.ok /\ held' = Committed(held)
    BY <1>m, <2>1
  <2> QED BY <1>t, <2>1, <2>2, AtomicShows DEF journal
<1>p. ASSUME NEW S \in SUBSET Docs, Plan(S)
      PROVE  /\ journal' = None /\ held'.state = "prepared" /\ held'.txn \notin decided'
  <2>1. /\ journal = None /\ UNCHANGED <<root, decided>> /\ held'.txn = spent.txns + 1
        /\ held'.state = "prepared"
    BY <1>p DEF Plan
  <2>2. spent.txns + 1 \notin decided
    BY <1>t DEF Numbered
  <2> QED BY <2>1, <2>2 DEF journal
<1>r. ASSUME RecoverPrepared \/ RecoverCommitted
      PROVE  /\ held' = journal /\ journal' = journal /\ Real(journal)
             /\ held'.state = "prepared" => held'.txn \notin decided'
  <2>1. CASE RecoverPrepared
    <3>1. /\ held' = journal /\ UNCHANGED <<root, decided>> /\ Real(journal)
          /\ journal.state = "prepared"
      BY <2>1 DEF RecoverPrepared, Real
    <3>2. journal.txn = held.txn
      BY <3>1 DEF Shown, OfBatch
    <3> QED BY <1>b, <3>1, <3>2 DEF journal
  <2>2. CASE RecoverCommitted
    BY <2>2 DEF RecoverCommitted, Real, journal
  <2> QED BY <1>r, <2>1, <2>2
<1>2. ASSUME Real(journal)'
      PROVE  journal'.txn = held'.txn /\ journal'.img = held'.img
  <2>1. CASE held' = held
    <3>1. journal' \in {journal, held, Committed(held)}
      BY <1>2, JournalShows DEF Real
    <3> QED BY <1>2, <1>t, <2>1, <3>1 DEF Shown, OfBatch, Real
  <2>2. CASE held' # held
    BY <1>2, <1>m, <1>p, <1>r, <2>2, HeldOrigin DEF Real
  <2> QED BY <2>1, <2>2
<1>3. ASSUME held'.state = "prepared" PROVE held'.txn \notin decided'
  <2>1. CASE held' = held
    <3>1. CASE decided' = decided
      BY <1>3, <2>1, <3>1 DEF Shown
    <3>2. CASE Mark /\ held' = Committed(held)
      BY <1>3, <1>t, <3>2
    <3> QED BY <1>3, <1>r, <3>1, <3>2, DecidedOrigin
  <2>2. CASE held' # held
    BY <1>3, <1>m, <1>p, <1>r, <1>t, <2>2, HeldOrigin
  <2> QED BY <2>1, <2>2
<1>4. ASSUME held'.state = "committed", Real(journal)' PROVE journal'.state = "committed"
  <2>1. CASE held' = held
    <3>1. ~(Publish \/ Reset)
      BY <1>4, <2>1 DEF Publish, Reset, Numbered, Rest
    <3>2. journal' = journal \/ journal' \in {held, Committed(held)}
      BY <1>4, JournalShows DEF Real
    <3> QED BY <1>4, <1>t, <2>1, <3>2 DEF Shown
  <2>2. CASE held' # held
    BY <1>4, <1>m, <1>p, <1>r, <1>t, <2>2, HeldOrigin
  <2> QED BY <2>1, <2>2
<1>5. Real(journal)' => OfBatch(journal)'
  BY <1>2 DEF OfBatch, Real
<1>6. pc' \in Working => journal' \in {None, Foreign, held'}
  BY WorkingStep
<1> QED BY <1>3, <1>4, <1>5, <1>6 DEF Shown, Working

-----------------------------------------------------------------------------
(***************************************************************************)
(* Who wrote the documents of the batch.                                    *)
(***************************************************************************)

\* Writers that no step but a replacement or a restoration adds to.
LEMMA ByKept ==
  ASSUME TypeOK, [Next]_vars, NEW d \in Docs, NEW W, User \in W, By(d, W),
         Restores(d) => 0 \in W, Replaces(d) => held.txn \in W
  PROVE  By(d, W)'
<1> SUFFICES ASSUME NEW s \in dir'[d].disk PROVE s.by \in W
  BY DEF By
<1>1. CASE \E q \in dir[d].disk : s.by = q.by
  BY <1>1 DEF By
<1>2. CASE Replaces(d) /\ s = Replaced(d)
  BY <1>2 DEF Replaced
<1> QED BY <1>1, <1>2, DiskOrigin

\* The points at which the batch's documents are known to be its own.
Underway == Real(journal) \/ pc \notin Rest \cup {"stage", "unstage"}

\* They are reached by publishing the journal, or by finding it.
LEMMA FromUnderway ==
  ASSUME TypeOK, OnBatch, Numbered, Shown, [Next]_vars, Faithful', Underway', ~Publish
  PROVE  Underway /\ SameBatch(held', held)
<1> USE DEF At
<1>t. /\ held \in Journals /\ SameBatch(held, held) /\ SameBatch(Committed(held), held)
      /\ Real(journal) => SameBatch(journal, held)
  BY CommittedType DEF TypeOK, SameBatch, Shown, OfBatch
<1>p. ~\E S \in SUBSET Docs : Plan(S)
  BY DEF Plan, Underway, Real, Rest, journal
<1>1. CASE RecoverPrepared \/ RecoverCommitted
  BY <1>t, <1>1 DEF RecoverPrepared, RecoverCommitted, Underway, Real
<1>2. CASE ~(RecoverPrepared \/ RecoverCommitted)
  <2>1. held' = held \/ (Mark /\ held' = Committed(held))
    BY <1>2, <1>p, HeldOrigin
  <2>2. Underway
    <3>1. CASE Real(journal)'
      <4>1. \/ journal' = journal
            \/ RestoreJournal \/ Reset \/ Mark
        BY <3>1, JournalShows DEF Real
      <4> QED BY <3>1, <4>1 DEF Underway, RestoreJournal, Reset, Mark, Rest, Real
    <3>2. CASE pc' \notin Rest \cup {"stage", "unstage"}
      <4>1. pc \notin Rest
        BY <1>2, <1>p, <3>2, FromRest
      <4>2. pc \notin {"stage", "unstage"}
        BY <3>2, FromStaging
      <4> QED BY <4>1, <4>2 DEF Underway
    <3> QED BY <3>1, <3>2 DEF Underway
  <2> QED BY <1>t, <2>1, <2>2
<1> QED BY <1>1, <1>2

LEMMA FreshStep ==
  ASSUME TypeOK, OnBatch, Branded, Numbered, Shown, Fresh, [Next]_vars, Faithful'
  PROVE  Fresh'
<1> USE DEF At
<1>t. /\ dir \in [Docs -> Directories(DocImages)] /\ \A d \in Docs : Now(d) \in dir[d].disk
      /\ \A d \in Docs : Now(d).by \in Nat \cup {User}
  BY SlotTypes DEF TypeOK, Now, Directories
<1>1. ASSUME pc' = "stage", NEW d \in Batch(held')
      PROVE  /\ Now(d)'.by \in {0, User}
             /\ <<d, "before">> \notin left' => By(d, {0, User})'
  <2>d. d \in Docs
    BY DEF Batch
  <2>1. CASE Outside
    BY <1>1, <2>d, <2>1, OutsideKeeps DEF Fresh, By
  <2>2. CASE \E S \in SUBSET Docs : Plan(S)
    <3>1. PICK S \in SUBSET Docs : Plan(S)
      BY <2>2
    <3>2. /\ UNCHANGED dir /\ left' = S \X Roles
          /\ held'.img = [e \in Docs |-> IF e \in S THEN Now(e).dest ELSE None]
          /\ \A e \in S : Reconciled[Now(e).dest] # Now(e).dest
      BY <3>1 DEF Plan
    <3>3. d \in S
      BY <3>2 DEF Batch
    <3>4. Now(d).by \in {0, User}
      <4>1. Now(d).dest \in Bytes /\ Reconciled[Now(d).dest] # Now(d).dest
        BY <3>1, <3>3 DEF Plan
      <4> QED BY <1>t, <2>d, <4>1, BytesAssumption DEF Branded
    <3> QED BY <3>2, <3>3, <3>4 DEF Now, Roles
  <2>3. CASE \E y \in Docs \X Roles : Stage(y)
    <3>1. PICK y \in Docs \X Roles : Stage(y)
      BY <2>3
    <3> DEFINE img == With(y, [txn |-> held.txn, data |-> Image(held, y)])
    <3>2. /\ pc = "stage" /\ UNCHANGED held /\ left' = left \ {y} /\ y \in left
          /\ dir' = [dir EXCEPT ![y[1]] = Durable(img)]
      BY <1>1, <3>1, StagedIsDurable DEF Stage
    <3>3. img.by = Now(y[1]).by
      BY DEF With
    <3> HIDE DEF img
    <3>4. dir'[y[1]] = Durable(img) /\ \A e \in Docs \ {y[1]} : dir'[e] = dir[e]
      BY <1>t, <3>2, OneChanged, Slots
    <3>5. CASE d = y[1]
      BY <1>1, <3>2, <3>3, <3>4, <3>5 DEF Fresh, By, Durable, Now
    <3>6. CASE d # y[1]
      <4>1. dir'[d] = dir[d]
        BY <2>d, <3>4, <3>6
      <4>2. <<d, "before">> \notin left' => <<d, "before">> \notin left
        BY <3>2, <3>6
      <4> QED BY <1>1, <3>2, <4>1, <4>2 DEF Fresh, By, Now
    <3> QED BY <3>5, <3>6
  <2> QED BY <1>1, <2>1, <2>2, <2>3, ControlFlow
<1>2. ASSUME Underway', NEW d \in Batch(held')
      PROVE  By(d, {0, User, held.txn})'
  <2>1. CASE Publish
    <3>1. pc = "stage" /\ left = {} /\ UNCHANGED <<dir, held>>
      BY <2>1 DEF Publish
    <3>2. By(d, {0, User})
      BY <1>2, <3>1 DEF Fresh
    <3> QED BY <3>1, <3>2 DEF By
  <2>2. CASE ~Publish
    <3>1. Underway /\ held'.txn = held.txn /\ held'.img = held.img
      BY <1>2, <2>2, FromUnderway DEF SameBatch
    <3>2. d \in Batch(held) /\ d \in Docs
      BY <3>1 DEF Batch
    <3>3. By(d, {0, User, held.txn})
      BY <3>1, <3>2 DEF Fresh, Underway
    <3> DEFINE W == {0, User, held.txn}
    <3>4. User \in W /\ 0 \in W /\ held.txn \in W
      OBVIOUS
    <3> HIDE DEF W
    <3>5. \A s \in dir'[d].disk : s.by \in W
      BY <3>2, <3>3, <3>4, ByKept DEF By, W
    <3> QED BY <3>1, <3>5 DEF By, W
  <2> QED BY <2>1, <2>2
<1> QED BY <1>1, <1>2 DEF Fresh, Underway

\* A restoration works on a prepared batch that is the one of the journal shown,
\* over a document none of whose writers is decided; so does a replacement.
LEMMA BeforeDecided ==
  ASSUME TypeOK, OnBatch, Numbered, Shown, Fresh, NEW d \in Docs, Restore(d) \/ Replace(d)
  PROVE  /\ d \in Batch(held) /\ held.state = "prepared" /\ pc # "reset"
         /\ ~(Real(journal) /\ journal.state = "committed")
         /\ {0, User, held.txn} \cap decided = {}
         /\ Now(d).by \in {0, User, held.txn}
         /\ UNCHANGED <<held, decided>>
<1> USE DEF At
<1>1. /\ pc \in {"restore", "replace"} /\ d \in todo /\ UNCHANGED <<held, decided>>
  BY DEF Restore, Replace, Last, First
<1>2. d \in Batch(held)
  BY <1>1 DEF OnBatch
<1>3. held.state = "prepared" /\ held.txn \notin decided /\ journal \in {None, Foreign, held}
  BY <1>1 DEF Numbered, Rest, Shown
<1>4. 0 \notin decided /\ User \notin decided
  BY WriterAssumption DEF Numbered, TypeOK
<1>5. Now(d) \in dir[d].disk
  BY DEF TypeOK, Directories, Now
<1>6. Now(d).by \in {0, User, held.txn}
  BY <1>1, <1>2, <1>5 DEF Fresh, Rest, By
<1>7. ~(Real(journal) /\ journal.state = "committed")
  BY <1>3 DEF Real
<1> QED BY <1>1, <1>2, <1>3, <1>4, <1>6, <1>7

\* It is marked when all was replaced, and stays so.
LEMMA FromMarked ==
  ASSUME TypeOK, OnBatch, Numbered, Shown, [Next]_vars, Faithful', Marked', ~Mark
  PROVE  Marked /\ SameBatch(held', held)
<1> USE DEF At
<1>t. /\ held \in Journals /\ SameBatch(held, held)
      /\ Real(journal) => SameBatch(journal, held)
  BY DEF TypeOK, SameBatch, Shown, OfBatch
<1>p. ~\E S \in SUBSET Docs : Plan(S)
  BY DEF Plan, Marked, Real, journal
<1>1. CASE RecoverPrepared
  BY <1>1 DEF RecoverPrepared, Marked, journal, StartRollback
<1>2. CASE RecoverCommitted
  BY <1>t, <1>2 DEF RecoverCommitted, Marked, Real
<1>3. CASE ~(RecoverPrepared \/ RecoverCommitted)
  <2>1. held' = held
    BY <1>3, <1>p, HeldOrigin
  <2>2. CASE pc' = "reset"
    <3>1. CASE Outside
      BY <1>t, <2>1, <2>2, <3>1, OutsideKeeps DEF Marked
    <3>2. CASE ~Outside
      BY <2>2, <3>2, ControlFlow
    <3> QED BY <1>t, <2>1, <3>1, <3>2
  <2>3. CASE held'.state = "committed"
    BY <1>t, <2>1, <2>3 DEF Marked
  <2>4. CASE Real(journal)' /\ journal'.state = "committed"
    BY <1>t, <2>1, <2>4, JournalShows DEF Marked, Real
  <2> QED BY <2>2, <2>3, <2>4 DEF Marked
<1> QED BY <1>1, <1>2, <1>3

\* The mark is set when every document of the batch was replaced for good.
LEMMA MarkIsWhole ==
  ASSUME Rewritten, Mark, NEW d \in Batch(held)
  PROVE  UNCHANGED dir /\ By(d, Writers)
  BY DEF Rewritten, Mark, At

LEMMA RewrittenStep ==
  ASSUME TypeOK, OnBatch, Rewritten, [Next]_vars
  PROVE  Rewritten'
<1> USE DEF At
<1>t. dir \in [Docs -> Directories(DocImages)]
  BY DEF TypeOK
<1>1. ASSUME pc' \in {"fingerprint", "checkAfter", "replace"}, NEW d \in Batch(held') \ todo'
      PROVE  \A s \in dir'[d].disk : s.by \in {held'.txn, User}
  <2>d. d \in Docs
    BY DEF Batch
  <2>1. CASE Outside
    BY <1>1, <2>d, <2>1, OutsideKeeps DEF Rewritten, By, Writers
  <2>2. CASE Load
    BY <1>1, <2>2 DEF Load, Exit, Gone
  <2>3. CASE \E e \in Docs : Fingerprint(e) \/ Authenticate(e)
    BY <1>1, <2>3 DEF Fingerprint, Authenticate, Goto, work, Rewritten, By, Writers
  <2>4. CASE \E e \in Docs : Replace(e)
    <3>1. PICK e \in Docs : Replace(e)
      BY <2>4
    <3>2. PICK o \in Primitive(dir[e], Replaced(e)) :
            /\ dir' = [dir EXCEPT ![e] = o.dir]
            /\ pc' = IF o.ok THEN "fingerprint" ELSE "abort"
      BY <3>1, ReplaceForms
    <3>3. At("replace") /\ todo' = todo \ {e} /\ UNCHANGED held
      BY <3>1 DEF Replace
    <3>4. o.dir = Durable(Replaced(e))
      BY <1>1, <3>2, PrimitiveImages
    <3>5. dir'[e] = Durable(Replaced(e)) /\ \A f \in Docs \ {e} : dir'[f] = dir[f]
      BY <1>t, <3>2, <3>4, OneChanged
    <3>6. \A s \in dir'[e].disk : s.by = held.txn
      BY <3>5 DEF Durable, Replaced
    <3>7. d = e \/ d \in Batch(held) \ todo
      BY <1>1, <3>3
    <3> QED BY <2>d, <3>3, <3>5, <3>6, <3>7 DEF Rewritten, By, Writers
  <2> QED BY <1>1, <2>1, <2>2, <2>3, <2>4, ControlFlow
<1> QED BY <1>1 DEF Rewritten, By, Writers

LEMMA WholeStep ==
  ASSUME TypeOK, OnBatch, Lineage, Branded, Numbered, Shown, Fresh, Rewritten, Whole,
         [Next]_vars, Faithful'
  PROVE  Whole'
<1> USE DEF At
<1>t. /\ dir \in [Docs -> Directories(DocImages)] /\ \A d \in Docs : Now(d) \in dir[d].disk
      /\ held \in Known /\ root.now \in root.disk
      /\ User \notin decided /\ 0 \notin decided /\ User # 0 /\ held.txn # User
  BY WriterAssumption DEF TypeOK, Now, Directories, Known, Numbered, Journals
<1>c. Committed(held).txn = held.txn /\ Batch(Committed(held)) = Batch(held)
  BY CommittedType DEF TypeOK, Batch
<1>2. ASSUME Marked', NEW d \in Batch(held')
      PROVE  \A s \in dir'[d].disk : s.by \in {held'.txn, User}
  <2>1. CASE Mark
    <3>1. held' \in {held, Committed(held)}
      BY <2>1 DEF Mark
    <3>2. d \in Batch(held) /\ held'.txn = held.txn
      BY <1>c, <3>1
    <3> QED BY <2>1, <3>2, MarkIsWhole DEF By, Writers
  <2>2. CASE ~Mark
    <3>1. Marked /\ held'.txn = held.txn /\ held'.img = held.img
      BY <1>2, <2>2, FromMarked DEF SameBatch
    <3>2. d \in Batch(held) /\ d \in Docs
      BY <3>1 DEF Batch
    <3>3. By(d, Writers)
      BY <3>1, <3>2 DEF Whole, Marked
    <3>4. ~Restores(d) /\ User \in Writers /\ held.txn \in Writers
      BY <3>1, <3>2, BeforeDecided DEF Marked, Writers, Restores
    <3> DEFINE W == Writers
    <3> HIDE DEF W
    <3>5. \A s \in dir'[d].disk : s.by \in W
      <4>1. By(d, W) /\ User \in W /\ held.txn \in W
        BY <3>3, <3>4 DEF W
      <4> QED BY <3>2, <3>4, <4>1, DiskOrigin DEF By, Replaced
    <3> QED BY <3>1, <3>5 DEF W, Writers
  <2> QED BY <2>1, <2>2
<1>3. ASSUME NEW d \in Docs, Now(d)'.by \in decided', NEW s \in dir'[d].disk
      PROVE  s.by # 0
  <2>1. CASE decided' # decided
    <3>1. UNCHANGED dir
      BY <2>1, DecidedOrigin DEF Mark, RecoverCommitted
    <3>2. CASE Now(d).by \in decided
      BY <3>1, <3>2 DEF Whole
    <3>3. CASE Mark /\ Now(d).by = held.txn
      <4>1. Now(d).by \notin {0, User}
        BY <1>t, <3>3 DEF Mark, Numbered, Rest
      <4>2. d \in Batch(held)
        BY <1>t, <3>3, <4>1 DEF Branded
      <4>3. By(d, Writers)
        BY <3>3, <4>2, MarkIsWhole
      <4> QED BY <1>t, <3>1, <3>3, <4>1, <4>3 DEF By, Writers
    <3>4. CASE RecoverCommitted /\ Now(d).by = journal.txn
      <4>1. Real(journal) /\ journal.state = "committed"
        BY <3>4 DEF RecoverCommitted, Real
      <4>2. journal.txn = held.txn /\ journal \in Known
        BY <1>t, <4>1 DEF Shown, OfBatch, Known, Real, journal
      <4>3. Now(d).by \notin {0, User}
        BY <1>t, <3>4, <4>1, <4>2 DEF Numbered, Real, journal
      <4>4. d \in Batch(held)
        BY <1>t, <3>4, <4>2, <4>3 DEF Branded
      <4>5. By(d, Writers)
        BY <4>1, <4>4 DEF Whole, Marked
      <4> QED BY <1>t, <3>1, <3>4, <4>2, <4>3, <4>5 DEF By, Writers
    <3> QED BY <1>3, <2>1, <3>1, <3>2, <3>3, <3>4, DecidedOrigin DEF Now
  <2>2. CASE decided' = decided /\ PowerLoss
    <3>1. PICK q \in dir[d].disk : dir'[d] = Durable(q)
      BY <2>2, PowerKeeps
    <3> QED BY <1>3, <1>t, <2>2, <3>1 DEF Durable, Now
  <2>3. CASE decided' = decided /\ ~PowerLoss
    <3>1. PICK img : /\ Touches(d, img)
                     /\ \/ img.by = Now(d).by /\ img.dest = Now(d).dest
                        \/ img.by = User
                        \/ Restores(d) /\ img = Restored(d)
                        \/ Replaces(d) /\ img = Replaced(d)
      BY <2>3, WriterOrigin
    <3>2. Restored(d).by = 0 /\ Replaced(d).by = held.txn
      BY DEF Restored, Replaced
    <3>3. ~Restores(d) /\ ~Replaces(d)
      <4>1. ASSUME Restores(d) \/ Replaces(d) PROVE FALSE
        <5>1. Now(d).by \notin decided /\ held.txn \notin decided
          BY <4>1, BeforeDecided DEF Restores, Replaces
        <5>2. img.by \notin decided
          BY <1>t, <3>1, <3>2, <5>1
        <5> QED BY <1>3, <2>3, <3>1, <5>1, <5>2 DEF Touches
      <4> QED BY <4>1
    <3>4. Now(d).by \in decided /\ img.by \in decided \cup {User}
      BY <1>3, <1>t, <2>3, <3>1, <3>3 DEF Touches
    <3>5. s \in dir[d].disk \/ s = img
      BY <3>1 DEF Touches
    <3> QED BY <1>t, <3>4, <3>5 DEF Whole
  <2> QED BY <2>1, <2>2, <2>3
<1> QED BY <1>2, <1>3 DEF Whole, Marked, By, Writers

-----------------------------------------------------------------------------
(***************************************************************************)
(* The marker whose write returned.                                         *)
(***************************************************************************)

\* A transaction is sealed by the marker, which is then the only journal on disk.
LEMMA SealedOrigin ==
  ASSUME TypeOK, [Next]_vars, sealed' # sealed
  PROVE  /\ Mark /\ held' = Committed(held) /\ pc' \in {"cleanup", "idle"}
         /\ sealed' = sealed \cup {held.txn} /\ held.txn \in decided'
         /\ \A r \in root'.disk : r.journal = Committed(held)
<1> USE DEF marks
<1>1. CASE Start \/ Recovery
  BY <1>1 DEF Start, Begin, Recovery, RecoverNothing, RecoverRefused, RecoverPrepared,
              RecoverCommitted, Scan
<1>2. CASE Preparation
  BY <1>2 DEF Preparation, Plan, PlanNothing, Publish, Unpublish, Unstaged, Load, Stage, Unstage
<1>3. CASE Commit
  <2>1. Mark
    BY <1>3 DEF Commit, Reset, Fingerprint, Authenticate, Replace, ReplaceRefused
  <2>2. PICK o \in AtomicReplace(Committed(held)) :
          /\ root' = o.dir /\ o.ok /\ held' = Committed(held)
          /\ decided' = decided \cup {held.txn} /\ sealed' = sealed \cup {held.txn}
          /\ pc' \in {"cleanup", "idle"}
    BY <2>1 DEF Mark, StartCleanup, Exit, Gone
  <2>3. root \in Directories(RootImages) /\ Committed(held) \in Journals
    BY CommittedType DEF TypeOK
  <2> QED BY <2>1, <2>2, <2>3, AtomicDone
<1>4. CASE Rollback
  BY <1>4 DEF Rollback, Abort, Settle, Classify, AuthenticateBefore, Restore, RestoreRefused
<1>5. CASE Cleanup
  BY <1>5 DEF Cleanup, UnlinkJournal, RestoreJournal, CleanStage, CleanStageRefused
<1>6. CASE ReadFault \/ Environment
  BY <1>6 DEF ReadFault, Environment, Crash, PowerLoss, TamperJournal, TamperStage, SetAside, Edit
<1>7. CASE UNCHANGED vars
  BY <1>7 DEF vars
<1> QED BY <1>1, <1>2, <1>3, <1>4, <1>5, <1>6, <1>7 DEF Next, Process

\* What every step uses of the invariant.
LEMMA SealingFacts ==
  ASSUME DInv, Sealing
  PROVE  /\ 0 \notin sealed /\ User \notin sealed
         /\ spent.txns + 1 \notin sealed /\ spent.txns \in Nat
         /\ held \in Known /\ held \in Journals /\ Real(held)
         /\ root.now \in root.disk
         /\ \A r \in root.disk : Real(r.journal) => r.journal \in Known
         /\ \A d \in Docs : Now(d) \in dir[d].disk
         /\ held.state = "prepared" => Prepared(held) /\ held.txn \notin sealed
<1>1. held \in Journals /\ held \in Known /\ Real(held)
  BY FilesAssumption DEF DInv, TypeOK, Known, Real
<1>2. sealed \subseteq decided /\ decided \subseteq Nat /\ spent.txns \in Nat
  BY DEF DInv, TypeOK, Sealing, Events
<1>3. \A t \in sealed : t \in Nat /\ t # 0 /\ t <= spent.txns
  BY <1>2 DEF DInv, Numbered
<1>4. spent.txns + 1 \notin sealed
  BY <1>2, <1>3
<1>5. 0 \notin sealed /\ User \notin sealed
  BY <1>3, WriterAssumption
<1>6. root.now \in root.disk /\ \A d \in Docs : Now(d) \in dir[d].disk
  BY DEF DInv, TypeOK, Directories, Now
<1>7. \A r \in root.disk : Real(r.journal) => r.journal \in Known
  BY DEF Real, Known
<1>8. held.state = "prepared" => Prepared(held) /\ held.txn \notin sealed
  BY <1>1 DEF Sealing, Prepared
<1> QED BY <1>1, <1>2, <1>4, <1>5, <1>6, <1>7, <1>8

\* A rename works on a prepared batch, none of whose documents a sealed one wrote.
LEMMA RenamesPrepared ==
  ASSUME DInv, Sealing, NEW d \in Docs, Replaces(d) \/ Restores(d)
  PROVE  held.txn \notin sealed /\ d \in Batch(held) /\ Unsealed(d)
<1> USE DEF At
<1>1. pc \in {"replace", "restore"} /\ d \in todo
  BY DEF Replaces, Restores, Replace, Restore, First, Last
<1>2. d \in Batch(held) /\ held.state = "prepared"
  BY <1>1 DEF DInv, OnBatch, Numbered, Rest
<1>3. Prepared(held) /\ held.txn \notin sealed
  BY <1>2, SealingFacts
<1>4. Unsealed(d)
  BY <1>1, <1>2, <1>3 DEF Sealing, Rest
<1> QED BY <1>2, <1>3, <1>4

\* So nothing but the marker brings what a sealed batch wrote back to a directory.
LEMMA UnsealedKept ==
  ASSUME DInv, Sealing, [Next]_vars, sealed' = sealed, NEW d \in Docs, Unsealed(d)
  PROVE  Unsealed(d)'
<1> SUFFICES ASSUME NEW s \in dir'[d].disk PROVE s.by \notin sealed
  BY DEF Unsealed
<1>f. 0 \notin sealed /\ User \notin sealed /\ TypeOK
  BY SealingFacts DEF DInv
<1>1. CASE \E q \in dir[d].disk : s.by = q.by
  BY <1>1 DEF Unsealed
<1>2. CASE Replaces(d) /\ s = Replaced(d)
  BY <1>2, RenamesPrepared DEF Replaced
<1> QED BY <1>f, <1>1, <1>2, DiskOrigin

\* The documents of a batch that is being staged, or was planned in this step.
LEMMA StagedUnsealed ==
  ASSUME DInv, Sealing, [Next]_vars, sealed' = sealed, pc' = "stage", NEW d \in Batch(held')
  PROVE  /\ Now(d)'.by \notin sealed
         /\ <<d, "before">> \notin left' => Unsealed(d)'
<1> USE DEF At
<1>d. d \in Docs /\ User \notin sealed /\ 0 \notin sealed
  BY SealingFacts DEF Batch
<1>t. /\ TypeOK /\ dir \in [Docs -> Directories(DocImages)]
      /\ \A e \in Docs : Now(e).by \in Nat \cup {User}
  BY SlotTypes DEF DInv, TypeOK, Now, Directories
<1>1. CASE Outside
  <2>1. pc = "stage" /\ held' = held /\ left' = left /\ Now(d)'.by \in {Now(d).by, User}
    BY <1>d, <1>t, <1>1, OutsideKeeps
  <2>2. Now(d).by \notin sealed /\ (<<d, "before">> \notin left => Unsealed(d))
    BY <2>1 DEF Sealing
  <2> QED BY <1>d, <2>1, <2>2, UnsealedKept
<1>2. CASE \E S \in SUBSET Docs : Plan(S)
  <2>1. PICK S \in SUBSET Docs : Plan(S)
    BY <1>2
  <2>2. /\ UNCHANGED dir /\ left' = S \X Roles
        /\ held'.img = [e \in Docs |-> IF e \in S THEN Now(e).dest ELSE None]
    BY <2>1 DEF Plan
  <2>3. d \in S
    BY <2>2 DEF Batch
  <2>4. Now(d).dest \in Bytes /\ Reconciled[Now(d).dest] # Now(d).dest
    BY <2>1, <2>3 DEF Plan
  <2>5. Now(d).by \in {0, User}
    <3>1. Now(d) \in dir[d].disk /\ Branded
      BY <1>d, SealingFacts DEF DInv
    <3> QED BY <1>d, <2>4, <3>1, BytesAssumption DEF Branded
  <2> QED BY <1>d, <2>2, <2>3, <2>5 DEF Now, Roles
<1>3. CASE \E y \in Docs \X Roles : Stage(y)
  <2>1. PICK y \in Docs \X Roles : Stage(y)
    BY <1>3
  <2> DEFINE img == With(y, [txn |-> held.txn, data |-> Image(held, y)])
  <2>2. /\ pc = "stage" /\ UNCHANGED held /\ left' = left \ {y} /\ y \in left
        /\ dir' = [dir EXCEPT ![y[1]] = Durable(img)]
    BY <1>t, <2>1, StagedIsDurable DEF Stage
  <2>3. img.by = Now(y[1]).by
    BY DEF With
  <2> HIDE DEF img
  <2>4. dir'[y[1]] = Durable(img) /\ \A e \in Docs \ {y[1]} : dir'[e] = dir[e]
    BY <1>t, <2>2, OneChanged, Slots
  <2>5. Now(d).by \notin sealed /\ (<<d, "before">> \notin left => Unsealed(d))
    BY <2>2 DEF Sealing
  <2>6. CASE d = y[1]
    BY <2>3, <2>4, <2>5, <2>6 DEF Unsealed, Durable, Now
  <2>7. CASE d # y[1]
    <3>1. dir'[d] = dir[d] /\ (<<d, "before">> \notin left' => <<d, "before">> \notin left)
      BY <1>d, <2>2, <2>4, <2>7
    <3> QED BY <2>5, <3>1 DEF Unsealed, Now
  <2> QED BY <2>6, <2>7
<1> QED BY <1>1, <1>2, <1>3, ControlFlow

\* The journals a step leaves on disk, or in memory, are of no sealed batch while they
\* are prepared, and stand over documents that no sealed batch wrote.
LEMMA PreparedOnDisk ==
  ASSUME DInv, Sealing, [Next]_vars, sealed' = sealed,
         NEW r \in root'.disk, Prepared(r.journal)
  PROVE  r.journal.txn \notin sealed /\ \A d \in Batch(r.journal) : Unsealed(d)'
<1> USE DEF At
<1>t. TypeOK
  BY DEF DInv
<1>1. CASE \E q \in root.disk : r.journal = q.journal
  <2>1. PICK q \in root.disk : r.journal = q.journal
    BY <1>1
  <2>2. q.journal \in Known
    BY <2>1, SealingFacts DEF Prepared
  <2>3. \A d \in Batch(r.journal) : d \in Docs /\ Unsealed(d)
    BY <2>1 DEF Sealing, Batch
  <2> QED BY <2>1, <2>2, <2>3, UnsealedKept DEF Sealing
<1>2. CASE (Publish \/ RestoreJournal \/ Reset) /\ r.journal = held
  <2>1. held.txn \notin sealed
    BY <1>2, SealingFacts DEF Prepared
  <2>2. ASSUME NEW d \in Batch(held) PROVE Unsealed(d)
    <3>1. CASE Publish
      <4>1. pc = "stage" /\ left = {}
        BY <3>1 DEF Publish
      <4> QED BY <4>1 DEF Sealing
    <3>2. CASE RestoreJournal \/ Reset
      <4>1. pc \notin Rest \cup {"stage", "unstage"}
        BY <3>2 DEF RestoreJournal, Reset, Rest
      <4> QED BY <1>2, <4>1 DEF Sealing
    <3> QED BY <1>2, <3>1, <3>2
  <2>3. \A d \in Batch(held) : d \in Docs
    BY DEF Batch
  <2> QED BY <1>2, <2>1, <2>2, <2>3, UnsealedKept
<1>3. CASE r.journal = Committed(held)
  BY <1>3, CommittedType DEF Prepared, DInv, TypeOK
<1> QED BY <1>t, <1>1, <1>2, <1>3, JournalOrigin DEF Prepared, Real

LEMMA PreparedInMemory ==
  ASSUME DInv, Sealing, [Next]_vars, sealed' = sealed, Prepared(held')
  PROVE  /\ held'.txn \notin sealed
         /\ pc' \notin Rest \cup {"stage", "unstage"}
              => \A d \in Batch(held') : Unsealed(d)'
<1> USE DEF At
<1>t. TypeOK /\ held \in Known /\ held \in Journals
  BY SealingFacts DEF DInv
<1>1. CASE \E S \in SUBSET Docs : Plan(S)
  <2>1. held'.txn = spent.txns + 1 /\ pc' = "stage"
    BY <1>1 DEF Plan
  <2> QED BY <2>1, SealingFacts
<1>2. CASE (RecoverPrepared \/ RecoverCommitted) /\ held' = journal
  <2>1. root.now \in root.disk /\ Real(root.now.journal) /\ held' = root.now.journal
    BY <1>2, SealingFacts DEF Prepared, journal
  <2>2. root.now.journal \in Known /\ Prepared(root.now.journal)
    BY <2>1, SealingFacts
  <2>3. \A d \in Batch(held') : d \in Docs /\ Unsealed(d)
    BY <2>1, <2>2 DEF Sealing, Batch
  <2> QED BY <2>1, <2>2, <2>3, UnsealedKept DEF Sealing
<1>3. CASE held' = held /\ ~RecoverPrepared /\ ~RecoverCommitted
           /\ \A S \in SUBSET Docs : ~Plan(S)
  <2>1. held.txn \notin sealed
    BY <1>3, <1>t DEF Sealing
  <2>2. ASSUME pc' \notin Rest \cup {"stage", "unstage"}, NEW d \in Batch(held)
        PROVE  Unsealed(d)
    <3>1. CASE Publish
      <4>1. pc = "stage" /\ left = {}
        BY <3>1 DEF Publish
      <4> QED BY <4>1 DEF Sealing
    <3>2. CASE ~Publish
      <4>1. pc \notin Rest
        BY <1>3, <2>2, FromRest
      <4>2. pc \notin {"stage", "unstage"}
        BY <2>2, <3>2, FromStaging
      <4> QED BY <1>3, <4>1, <4>2 DEF Sealing
    <3> QED BY <3>1, <3>2
  <2>3. \A d \in Batch(held) : d \in Docs
    BY DEF Batch
  <2> QED BY <1>3, <2>1, <2>2, <2>3, UnsealedKept
<1>4. CASE held' = Committed(held)
  BY <1>4, <1>t, CommittedType DEF Prepared
<1>5. RecoverPrepared \/ RecoverCommitted => held' = journal
  BY DEF RecoverPrepared, RecoverCommitted
<1> QED BY <1>t, <1>1, <1>2, <1>3, <1>4, <1>5, HeldOrigin

\* What a sealed batch wrote shows over no restored image.
LEMMA SealedStays ==
  ASSUME DInv, Sealing, [Next]_vars, sealed' = sealed,
         NEW d \in Docs, Now(d)'.by \in sealed, NEW s \in dir'[d].disk
  PROVE  s.by # 0
<1>f. 0 \notin sealed /\ User \notin sealed /\ User # 0 /\ TypeOK
  BY SealingFacts, WriterAssumption DEF DInv
<1>1. CASE PowerLoss
  <2>1. PICK q \in dir[d].disk : dir'[d] = Durable(q)
    BY <1>f, <1>1, PowerKeeps
  <2> QED BY <1>f, <2>1 DEF Durable, Now
<1>2. CASE ~PowerLoss
  <2>1. PICK img : /\ Touches(d, img)
                   /\ \/ img.by = Now(d).by /\ img.dest = Now(d).dest
                      \/ img.by = User
                      \/ Restores(d) /\ img = Restored(d)
                      \/ Replaces(d) /\ img = Replaced(d)
    BY <1>f, <1>2, WriterOrigin
  <2>2. ~Restores(d) /\ ~Replaces(d)
    <3>1. ASSUME Restores(d) \/ Replaces(d) PROVE FALSE
      <4>1. held.txn \notin sealed /\ Now(d).by \notin sealed
        BY <3>1, RenamesPrepared, SealingFacts DEF Unsealed
      <4>2. Restored(d).by = 0 /\ Replaced(d).by = held.txn
        BY DEF Restored, Replaced
      <4>3. img.by \notin sealed
        BY <1>f, <2>1, <4>1, <4>2
      <4> QED BY <2>1, <4>1, <4>3 DEF Touches
    <3> QED BY <3>1
  <2>3. Now(d).by \in sealed /\ img.by \in {Now(d).by, User}
    BY <1>f, <2>1, <2>2 DEF Touches
  <2>4. s \in dir[d].disk \/ s = img
    BY <2>1 DEF Touches
  <2> QED BY <1>f, <2>3, <2>4 DEF Sealing
<1> QED BY <1>1, <1>2

LEMMA SealingStep ==
  ASSUME DInv, Sealing, [Next]_vars
  PROVE  Sealing'
<1> USE DEF At
<1>1. CASE sealed' = sealed
  <2>1. sealed \subseteq decided'
    BY <1>1, DecidedOrigin DEF Sealing, DInv
  <2>2. ASSUME NEW j \in Known', Prepared(j) PROVE j.txn \notin sealed
    <3>1. CASE j = held'
      BY <1>1, <2>2, <3>1, PreparedInMemory
    <3>2. CASE \E r \in root'.disk : j = r.journal
      BY <1>1, <2>2, <3>2, PreparedOnDisk
    <3> QED BY <2>2, <3>1, <3>2 DEF Known
  <2>3. \A r \in root'.disk :
          Prepared(r.journal) => \A d \in Batch(r.journal) : Unsealed(d)'
    BY <1>1, PreparedOnDisk
  <2>4. pc' = "stage" => \A d \in Batch(held') :
          Now(d)'.by \notin sealed /\ (<<d, "before">> \notin left' => Unsealed(d)')
    BY <1>1, StagedUnsealed
  <2>5. pc' \notin Rest \cup {"stage", "unstage"} /\ Prepared(held')
          => \A d \in Batch(held') : Unsealed(d)'
    BY <1>1, PreparedInMemory
  <2>6. \A d \in Docs : Now(d)'.by \in sealed => \A s \in dir'[d].disk : s.by # 0
    BY <1>1, SealedStays
  <2> QED BY <1>1, <2>1, <2>2, <2>3, <2>4, <2>5, <2>6 DEF Sealing, Prepared, Real, Rest
<1>2. CASE sealed' # sealed
  <2>1. /\ Mark /\ held' = Committed(held) /\ pc' \in {"cleanup", "idle"}
        /\ sealed' = sealed \cup {held.txn} /\ held.txn \in decided'
        /\ \A r \in root'.disk : r.journal = Committed(held)
    BY <1>2, SealedOrigin DEF DInv
  <2>2. ~Prepared(held') /\ \A r \in root'.disk : ~Prepared(r.journal)
    BY <2>1, CommittedType DEF Prepared, DInv, TypeOK
  <2>3. \A j \in Known' : ~Prepared(j)
    BY <2>2 DEF Known
  <2>4. sealed' \subseteq decided'
    BY <2>1, DecidedOrigin DEF Sealing, DInv
  <2>5. UNCHANGED dir /\ pc = "fingerprint"
    BY <2>1 DEF Mark
  <2>6. ASSUME NEW d \in Docs, Now(d).by \in sealed \cup {held.txn}, NEW s \in dir[d].disk
        PROVE  s.by # 0
    <3>1. CASE Now(d).by \in sealed
      BY <3>1 DEF Sealing
    <3>2. CASE Now(d).by = held.txn
      <4>1. held.txn # 0 /\ held.txn # User /\ User # 0
        BY <2>5, SealingFacts, WriterAssumption DEF DInv, Numbered, Rest, Journals
      <4>2. d \in Batch(held)
        BY <3>2, <4>1, SealingFacts DEF DInv, Branded
      <4>3. By(d, Writers)
        BY <2>1, <4>2, MarkIsWhole DEF DInv
      <4> QED BY <4>1, <4>3 DEF By, Writers
    <3> QED BY <2>6, <3>1, <3>2
  <2>7. \A d \in Docs : Now(d)'.by \in sealed' => \A s \in dir'[d].disk : s.by # 0
    BY <2>1, <2>5, <2>6 DEF Now
  <2> QED BY <2>1, <2>2, <2>3, <2>4, <2>7 DEF Sealing
<1> QED BY <1>1, <1>2

-----------------------------------------------------------------------------
(***************************************************************************)
(* Theorems.                                                                *)
(***************************************************************************)

\* The invariant of the decision: batches are numbered, after images are branded
\* with their batch, and, until a power loss brings back a journal other than the one
\* shown, the journal that is shown is the one of the batch in memory and a committed
\* one stands over documents that were all replaced for good.
THEOREM DecisionInvariant == Spec => []DInv
<1>1. Init => DInv
  <2> SUFFICES ASSUME Init PROVE DInv
    OBVIOUS
  <2>1. TypeOK /\ OnBatch /\ Trust
    BY InitTypes, InitTrust
  <2>2. PICK f \in [Docs -> Bytes] :
          dir = [d \in Docs |-> Durable([dest |-> f[d], by |-> 0,
                                         before |-> None, after |-> None])]
    BY DEF Init
  <2>3. \A d \in Docs : \A s \in dir[d].disk : s.by = 0 /\ s.before = None /\ s.after = None
    BY <2>2 DEF Durable
  <2>4. /\ pc = "idle" /\ spent.txns = 0 /\ decided = {}
        /\ held = [txn |-> 0, state |-> "prepared", img |-> [d \in Docs |-> None]]
        /\ root = Durable([journal |-> None, helpers |-> 0])
    BY DEF Init, Events
  <2>5. Known = {held} /\ journal = None /\ \A r \in root.disk : r.journal = None
    BY <2>4 DEF Known, Durable, journal
  <2>6. \A x \in Docs \X Roles : Found(x) = {}
    BY <2>3, Slots DEF Found
  <2>7. Lineage
    BY <2>4, <2>5, <2>6 DEF Lineage
  <2>8. Branded
    BY <2>3 DEF Branded
  <2>9. Numbered
    BY <2>4, <2>5 DEF Numbered, Rest, Real
  <2>10. Batch(held) = {}
    BY <2>4 DEF Batch
  <2>11. Decision
    <3>1. Shown /\ Fresh
      BY <2>4, <2>5, <2>10 DEF Shown, Fresh, Real, At, Rest
    <3>2. Whole
      BY <2>4, <2>5, <2>10 DEF Whole, Marked, Real, At
    <3> QED BY <3>1, <3>2 DEF Decision
  <2>12. Rewritten
    BY <2>4 DEF Rewritten
  <2> QED BY <2>1, <2>7, <2>8, <2>9, <2>11, <2>12 DEF DInv
<1>2. DInv /\ [Next]_vars => DInv'
  <2> SUFFICES ASSUME DInv, [Next]_vars PROVE DInv'
    OBVIOUS
  <2>1. TypeOK' /\ OnBatch' /\ Trust'
    BY TypeStep, TrustStep DEF DInv
  <2>2. Lineage' /\ Branded' /\ Numbered' /\ Rewritten'
    BY LineageStep, BrandedStep, NumberedStep, RewrittenStep DEF DInv
  <2>3. ASSUME Faithful' PROVE Decision'
    <3>1. Decision
      BY <2>3, FaithfulStep DEF DInv
    <3>2. Shown' /\ Fresh' /\ Whole'
      BY <2>3, <3>1, ShownStep, FreshStep, WholeStep DEF DInv, Decision
    <3> QED BY <3>2 DEF Decision
  <2> QED BY <2>1, <2>2, <2>3 DEF DInv
<1> QED BY <1>1, <1>2, PTL DEF Spec

\* A committed marker is only ever seen over a batch whose every destination was
\* replaced, and perhaps edited since, until a power loss brings back a journal other
\* than the one shown.  (Once it did this fails, which a run shows.)
THEOREM MarkerWhole == Spec => [](Faithful => MarkerIsWhole)
<1>1. DInv => (Faithful => MarkerIsWhole)
  <2> SUFFICES ASSUME DInv, Faithful, Real(journal), journal.state = "committed",
                      NEW d \in Batch(journal)
               PROVE  Now(d).by \in {journal.txn, User}
    BY DEF MarkerIsWhole, Real
  <2>1. journal.txn = held.txn /\ journal.img = held.img
    BY DEF DInv, Decision, Shown, OfBatch
  <2>2. d \in Batch(held) /\ d \in Docs
    BY <2>1 DEF Batch
  <2>3. By(d, Writers)
    BY <2>2 DEF DInv, Decision, Whole, Marked
  <2>4. Now(d) \in dir[d].disk
    BY <2>2 DEF DInv, TypeOK, Directories, Now
  <2> QED BY <2>1, <2>3, <2>4 DEF By, Writers
<1> QED BY <1>1, DecisionInvariant, PTL

\* No rollback is ever armed against what a sealed batch wrote.
THEOREM SealingInvariant == Spec => []Sealing
<1>1. Init => Sealing
  <2> SUFFICES ASSUME Init PROVE Sealing
    OBVIOUS
  <2>1. sealed = {} /\ pc = "idle" /\ decided = {}
    BY DEF Init
  <2> QED BY <2>1 DEF Sealing, Unsealed, At, Rest
<1>2. DInv /\ Sealing /\ [Next]_vars => Sealing'
  BY SealingStep
<1> QED BY <1>1, <1>2, DecisionInvariant, PTL DEF Spec

\* The point of no return: once the write of its marker returned, no step takes a
\* destination of a transaction back to its before image.  Where recovery only found
\* the marker none does until a power loss brings back a journal other than the one
\* shown.
THEOREM NoReturn == Spec => PointOfNoReturn
<1>1. ASSUME DInv, Sealing, [Next]_vars, NEW d \in Docs, Now(d).by \in sealed
      PROVE  Now(d)'.by # 0
  <2>f. 0 \notin sealed /\ User # 0 /\ TypeOK
    BY <1>1, SealingFacts, WriterAssumption DEF DInv
  <2>1. CASE PowerLoss
    <3>1. PICK q \in dir[d].disk : dir'[d] = Durable(q)
      BY <2>f, <2>1, PowerKeeps
    <3> QED BY <1>1, <3>1 DEF Sealing, Durable, Now
  <2>2. CASE ~PowerLoss
    <3>1. PICK img : /\ Touches(d, img)
                     /\ \/ img.by = Now(d).by /\ img.dest = Now(d).dest
                        \/ img.by = User
                        \/ Restores(d) /\ img = Restored(d)
                        \/ Replaces(d) /\ img = Replaced(d)
      BY <1>1, <2>f, <2>2, WriterOrigin
    <3>2. ~Restores(d) /\ ~Replaces(d)
      BY <1>1, RenamesPrepared, SealingFacts DEF Unsealed
    <3> QED BY <1>1, <2>f, <3>1, <3>2 DEF Touches
  <2> QED BY <2>1, <2>2
<1>2. ASSUME DInv, [Next]_vars, ~revived', NEW d \in Docs, Now(d).by \in decided
      PROVE  Now(d)'.by # 0
  <2>0. Faithful
    BY <1>2, FaithfulStep DEF Faithful
  <2>1. /\ TypeOK /\ OnBatch /\ Numbered /\ Shown /\ Fresh /\ Whole
        /\ 0 \notin decided /\ User # 0
    BY <1>2, <2>0, WriterAssumption DEF DInv, Decision, Numbered
  <2>2. CASE PowerLoss
    <3>1. PICK q \in dir[d].disk : dir'[d] = Durable(q)
      BY <1>2, <2>1, <2>2, PowerKeeps
    <3> QED BY <1>2, <2>1, <3>1 DEF Whole, Durable, Now
  <2>3. CASE ~PowerLoss
    <3>1. PICK img : /\ Touches(d, img)
                     /\ \/ img.by = Now(d).by /\ img.dest = Now(d).dest
                        \/ img.by = User
                        \/ Restores(d) /\ img = Restored(d)
                        \/ Replaces(d) /\ img = Replaced(d)
      BY <1>2, <2>1, <2>3, WriterOrigin
    <3>2. ~Restores(d) /\ ~Replaces(d)
      BY <1>2, <2>1, BeforeDecided DEF Restores, Replaces
    <3> QED BY <1>2, <2>1, <3>1, <3>2 DEF Touches
  <2> QED BY <2>2, <2>3
<1>3. DInv /\ Sealing /\ [Next]_vars =>
        [\A d \in Docs : Now(d).by \in sealed \/ (~revived' /\ Now(d).by \in decided)
            => Now(d)'.by # 0]_vars
  BY <1>1, <1>2
<1> QED BY <1>3, DecisionInvariant, SealingInvariant, PTL DEF Spec, PointOfNoReturn

-----------------------------------------------------------------------------
(***************************************************************************)
(* No torn destination.                                                     *)
(***************************************************************************)

\* Slots do not touch the content.
LEMMA WithKeeps ==
  ASSUME NEW x, NEW s PROVE With(x, s).dest = Now(x[1]).dest
  BY DEF With

LEMMA IntactStep ==
  ASSUME TypeOK, OnBatch, Trust, NoTornDestination, [Next]_vars
  PROVE  NoTornDestination'
<1> SUFFICES ASSUME NEW d \in Docs, NEW s \in dir'[d].disk, s.dest = Torn
             PROVE  d \in tainted'
  BY DEF NoTornDestination
<1>t. Now(d) \in dir[d].disk
  BY DEF TypeOK, Now, Directories
<1>1. tainted \subseteq tainted'
  BY TaintGrows
<1>2. ASSUME NEW q \in dir[d].disk, s.dest = q.dest PROVE d \in tainted'
  BY <1>1, <1>2 DEF NoTornDestination
<1>3. CASE PowerLoss
  <2>1. PICK q \in dir[d].disk : dir'[d] = Durable(q)
    BY <1>3, PowerKeeps
  <2> QED BY <1>2, <2>1 DEF Durable
<1>4. CASE ~PowerLoss
  <2>1. PICK img : /\ Touches(d, img)
                   /\ \/ img.by = Now(d).by /\ img.dest = Now(d).dest
                      \/ img.by = User /\ ByHand(d, img.dest)
                      \/ Restores(d) /\ img = Restored(d)
                      \/ Replaces(d) /\ img = Replaced(d)
    BY <1>4, WriterOrigin
  <2>2. CASE s \in dir[d].disk
    BY <1>2, <2>2
  <2>3. CASE s = img
    <3>1. CASE img.dest = Now(d).dest
      BY <1>t, <1>2, <2>3, <3>1
    <3>2. CASE ByHand(d, img.dest)
      BY <1>t, <1>2, <2>3, <3>2, BytesAssumption DEF ByHand
    <3>3. CASE (Restores(d) /\ img = Restored(d)) \/ (Replaces(d) /\ img = Replaced(d))
      BY <1>1, <2>3, <3>3, RenamesTrusted, BytesAssumption
    <3> QED BY <2>1, <3>1, <3>2, <3>3
  <2> QED BY <2>1, <2>2, <2>3 DEF Touches
<1> QED BY <1>3, <1>4

\* No partial or substituted stage reaches a destination, in any image a power loss
\* may leave, whatever is done to the stages meanwhile, unless it is done between the
\* call that authenticates a stage and the call that renames it.
THEOREM DestinationsIntact == Spec => []NoTornDestination
<1>1. Init => NoTornDestination
  BY BytesAssumption DEF Init, NoTornDestination, Durable
<1>2. TypeOK /\ OnBatch /\ Trust /\ NoTornDestination /\ [Next]_vars => NoTornDestination'
  BY IntactStep
<1>3. IInv => TypeOK /\ OnBatch /\ Trust
  BY DEF IInv
<1> QED BY <1>1, <1>2, <1>3, Invariance, PTL DEF Spec

-----------------------------------------------------------------------------
(***************************************************************************)
(* Edits.                                                                   *)
(***************************************************************************)

\* In the window the destination holds the image that was just recognised,
\* unless an edit landed there, which the model can forbid.
Recognised ==
  \A d \in Docs :
    /\ pc \in {"checkAfter", "replace"} /\ First(d, todo) /\ d \notin dirty
         => Now(d).dest = held.img[d]
    /\ pc \in {"checkBefore", "restore"} /\ Last(d, todo) /\ d \notin dirty
         => Now(d).dest = Image(held, <<d, "after">>)
    /\ InWindow(d) /\ ~WindowEdits => d \notin dirty

LEMMA RecognisedStep ==
  ASSUME TypeOK, Recognised, [Next]_vars
  PROVE  Recognised'
<1> USE DEF At, Goto, Gone, Exit
<1>t. todo \subseteq Docs /\ Docs \subseteq Nat /\ dirty \subseteq Docs
      /\ dir \in [Docs -> Directories(DocImages)] /\ WindowEdits \in BOOLEAN
  BY NAssumption, BoundsAssumption DEF TypeOK, Docs
<1>0. ASSUME pc' \notin {"checkAfter", "replace", "checkBefore", "restore"} PROVE Recognised'
  BY <1>0 DEF Recognised, InWindow
<1>1. ASSUME NEW d \in Docs, Fingerprint(d) PROVE Recognised'
  <2>1. CASE pc' = "checkAfter"
    <3>1. /\ First(d, todo) /\ Now(d).dest = held.img[d] /\ UNCHANGED <<dir, held, todo>>
          /\ dirty' = dirty \ {d}
      BY <1>1, <2>1 DEF Fingerprint, work
    <3>2. ASSUME NEW e \in Docs, First(e, todo)' PROVE e = d
      <4>1. d \in todo /\ e \in todo /\ e <= d /\ d <= e
        BY <3>1, <3>2 DEF First
      <4>2. d \in Nat /\ e \in Nat
        BY <1>t
      <4> QED BY <4>1, <4>2
    <3> QED BY <2>1, <3>1, <3>2 DEF Recognised, InWindow, Now
  <2>2. CASE pc' # "checkAfter"
    BY <1>0, <1>1, <2>2 DEF Fingerprint
  <2> QED BY <2>1, <2>2
<1>2. ASSUME NEW d \in Docs, Classify(d) PROVE Recognised'
  <2>1. CASE pc' = "checkBefore"
    <3>1. /\ Last(d, todo) /\ Now(d).dest = Image(held, <<d, "after">>)
          /\ UNCHANGED <<dir, held, todo>> /\ dirty' = dirty \ {d}
      BY <1>2, <2>1 DEF Classify
    <3>2. ASSUME NEW e \in Docs, Last(e, todo)' PROVE e = d
      <4>1. d \in todo /\ e \in todo /\ e <= d /\ d <= e
        BY <3>1, <3>2 DEF Last
      <4>2. d \in Nat /\ e \in Nat
        BY <1>t
      <4> QED BY <4>1, <4>2
    <3> QED BY <2>1, <3>1, <3>2 DEF Recognised, InWindow, Now, Image
  <2>2. CASE pc' # "checkBefore"
    <3>1. pc' = "classify"
      BY <1>2, <2>2 DEF Classify
    <3> QED BY <1>0, <3>1
  <2> QED BY <2>1, <2>2
<1>3. ASSUME NEW d \in Docs, NEW b \in EditBytes, Edit(d, b) PROVE Recognised'
  <2>1. /\ UNCHANGED <<pc, todo, held>> /\ dirty' = dirty \cup {d}
        /\ WindowEdits \/ ~InWindow(d)
        /\ \A e \in Docs \ {d} : Now(e)' = Now(e)
    BY <1>3, <1>t DEF Edit, work, Now
  <2> QED BY <2>1 DEF Recognised, InWindow, First, Last, Image
<1>4. ASSUME NEW x \in Docs \X Roles, TamperStage(x) PROVE Recognised'
  <2>1. \E s : dir' = [dir EXCEPT ![x[1]] = Durable(With(x, s))]
    BY <1>4 DEF TamperStage
  <2>2. PICK s : dir' = [dir EXCEPT ![x[1]] = Durable(With(x, s))]
    BY <2>1
  <2>3. \A e \in Docs : Now(e)'.dest = Now(e).dest
    <3>1. Durable(With(x, s)).now = With(x, s)
      BY DEF Durable
    <3> QED BY <1>t, <2>2, <3>1, WithKeeps, OneChanged DEF Now
  <2>4. UNCHANGED <<pc, todo, held, dirty>>
    BY <1>4 DEF TamperStage, work
  <2> QED BY <2>3, <2>4 DEF Recognised, InWindow, First, Last, Image
<1>5. CASE TamperJournal \/ UNCHANGED vars
  <2>1. UNCHANGED <<dir, pc, todo, held, dirty>>
    BY <1>5 DEF TamperJournal, work, vars
  <2> QED BY <2>1 DEF Recognised, InWindow, First, Last, Image, Now
<1>6. CASE Start \/ Recovery \/ ReadFault \/ Crash \/ PowerLoss \/ SetAside
  BY <1>0, <1>6 DEF Start, Begin, Recovery, RecoverNothing, RecoverRefused, RecoverPrepared,
                    RecoverCommitted, Scan, StartRollback, StartCleanup,
                    ReadFault, Crash, PowerLoss, SetAside
<1>7. CASE Preparation
  <2>1. CASE PlanNothing \/ Unpublish \/ Unstaged \/ Load \/ \E S \in SUBSET Docs : Plan(S)
    BY <1>0, <2>1 DEF PlanNothing, Unpublish, Unstaged, Load, Plan, StartCleanup
  <2>2. CASE Publish
    <3>1. PICK o \in AtomicCreate(held) :
            pc' = IF journal # None THEN "unstage" ELSE IF o.ok THEN "load" ELSE "unpublish"
      BY <2>2 DEF Publish
    <3> QED BY <1>0, <3>1
  <2>3. CASE \E x \in Docs \X Roles : Stage(x) \/ Unstage(x)
    BY <1>0, <2>3 DEF Stage, Unstage
  <2> QED BY <1>7, <2>1, <2>2, <2>3 DEF Preparation
<1>8. CASE \/ Mark \/ Reset \/ Abort \/ Settle \/ UnlinkJournal \/ RestoreJournal
           \/ \E d \in Docs : \/ Replace(d) \/ ReplaceRefused(d) \/ Restore(d)
                              \/ RestoreRefused(d)
           \/ \E x \in Docs \X Roles : CleanStage(x) \/ CleanStageRefused(x)
  <2>1. CASE Mark \/ Reset \/ Abort \/ Settle
    BY <1>0, <2>1 DEF Mark, Reset, Abort, Settle, StartCleanup, StartRollback
  <2>2. CASE UnlinkJournal \/ RestoreJournal
    BY <1>0, <2>2 DEF UnlinkJournal, RestoreJournal, Finish
  <2>3. CASE \E d \in Docs : Replace(d) \/ ReplaceRefused(d) \/ Restore(d) \/ RestoreRefused(d)
    BY <1>0, <2>3 DEF Replace, ReplaceRefused, Restore, RestoreRefused, StartRollback
  <2>4. CASE \E x \in Docs \X Roles : CleanStage(x) \/ CleanStageRefused(x)
    BY <1>0, <2>4 DEF CleanStage, CleanStageRefused, Cleaned
  <2> QED BY <1>8, <2>1, <2>2, <2>3, <2>4
<1>9. CASE \E d \in Docs : Authenticate(d) \/ AuthenticateBefore(d)
  <2>1. /\ UNCHANGED <<dir, todo, held, dirty>>
        /\ \/ pc = "checkAfter" /\ pc' = "replace"
           \/ pc = "checkBefore" /\ pc' = "restore"
    BY <1>9 DEF Authenticate, AuthenticateBefore, work
  <2> QED BY <2>1 DEF Recognised, InWindow, First, Last, Image, Now
<1> QED BY <1>1, <1>2, <1>3, <1>4, <1>5, <1>6, <1>7, <1>8, <1>9
        DEF Next, Process, Environment, Commit, Rollback, Cleanup

\* Only the renames of a commit or a rollback change what a destination holds.
LEMMA OnlyRenames ==
  ASSUME TypeOK, [Next]_vars, ByProcess, NEW d \in Docs, Now(d)'.dest # Now(d).dest
  PROVE  Replace(d) \/ Restore(d)
<1>t. dir \in [Docs -> Directories(DocImages)] /\ spent \in [Events -> Nat]
  BY DEF TypeOK
<1>0. ~UNCHANGED dir
  BY DEF Now
<1>1. ASSUME NEW e \in Docs \ {d}, NEW D, dir' = [dir EXCEPT ![e] = D] PROVE FALSE
  BY <1>1, <1>t DEF Now
<1>2. ASSUME NEW D, NEW img, img.dest = Now(d).dest, NEW o \in Primitive(D, img),
             D = dir[d], dir' = [dir EXCEPT ![d] = o.dir]
      PROVE  FALSE
  <2>1. \/ o = [ok |-> TRUE, dir |-> Durable(img)]
        \/ o = [ok |-> FALSE, dir |-> D]
        \/ o = [ok |-> FALSE, dir |-> Unsynced(D, img)]
    BY <1>2 DEF Primitive
  <2>2. o.dir \in {Durable(img), D, Unsynced(D, img)}
    BY <2>1
  <2>3. dir'[d] = o.dir /\ Durable(img).now = img /\ Unsynced(D, img).now = img
    BY <1>t, <1>2 DEF Durable, Unsynced
  <2> QED BY <1>2, <2>2, <2>3 DEF Now
<1>3. ASSUME NEW k \in {"outages", "edits", "tampers", "repairs"}, Spend(k) PROVE FALSE
  <2>1. spent'[k] = spent[k] + 1 /\ spent[k] \in Nat
    BY <1>t, <1>3 DEF Spend, Events
  <2> QED BY <2>1 DEF ByProcess
<1>4. CASE PowerLoss \/ SetAside \/ TamperJournal
  BY <1>3, <1>4 DEF PowerLoss, SetAside, TamperJournal
<1>5. CASE \/ \E e \in Docs, b \in EditBytes : Edit(e, b)
           \/ \E x \in Docs \X Roles : TamperStage(x)
  BY <1>3, <1>5 DEF Edit, TamperStage
<1>6. CASE \E x \in Docs \X Roles : Stage(x)
  <2>1. PICK x \in Docs \X Roles : Stage(x)
    BY <1>6
  <2> DEFINE ok == With(x, [txn |-> held.txn, data |-> Image(held, x)])
             torn == With(x, [txn |-> held.txn, data |-> Torn])
  <2>2. \/ dir' = [dir EXCEPT ![x[1]] = Durable(ok)]
        \/ \E D \in {dir[x[1]], Unsynced(dir[x[1]], torn)} : dir' = [dir EXCEPT ![x[1]] = D]
    BY <2>1 DEF Stage
  <2>3. x[1] \in Docs /\ ok.dest = Now(x[1]).dest /\ torn.dest = Now(x[1]).dest
    BY WithKeeps
  <2> HIDE DEF ok, torn
  <2>4. PICK D \in {dir[x[1]], Durable(ok), Unsynced(dir[x[1]], torn)} :
          dir' = [dir EXCEPT ![x[1]] = D]
    BY <2>2
  <2>5. x[1] = d
    BY <1>1, <2>3, <2>4
  <2>6. dir'[d] = D /\ Durable(ok).now = ok /\ Unsynced(dir[d], torn).now = torn
    BY <1>t, <2>4, <2>5 DEF Durable, Unsynced
  <2> QED BY <2>3, <2>4, <2>5, <2>6 DEF Now
<1>7. CASE \E x \in Docs \X Roles : Unstage(x) \/ CleanStage(x)
  <2>1. PICK x \in Docs \X Roles : Unstage(x) \/ CleanStage(x)
    BY <1>7
  <2>2. \E img \in {With(x, None), Now(x[1])} : \E o \in Primitive(dir[x[1]], img) :
          dir' = [dir EXCEPT ![x[1]] = o.dir]
    BY <2>1 DEF Unstage, CleanStage
  <2>3. PICK img \in {With(x, None), Now(x[1])} : \E o \in Primitive(dir[x[1]], img) :
          dir' = [dir EXCEPT ![x[1]] = o.dir]
    BY <2>2
  <2>4. PICK o \in Primitive(dir[x[1]], img) : dir' = [dir EXCEPT ![x[1]] = o.dir]
    BY <2>3
  <2>5. x[1] = d
    BY <1>1, <2>4
  <2>6. img.dest = Now(d).dest
    BY <2>3, <2>5, WithKeeps
  <2> QED BY <1>2, <2>4, <2>5, <2>6
<1>8. CASE \E e \in Docs : Replace(e) \/ Restore(e)
  <2>1. PICK e \in Docs : Replace(e) \/ Restore(e)
    BY <1>8
  <2>2. \E D : dir' = [dir EXCEPT ![e] = D]
    BY <2>1 DEF Replace, Restore
  <2>3. e = d
    BY <1>1, <2>2
  <2> QED BY <2>1, <2>3
<1>9. CASE \/ Start \/ Recovery \/ PlanNothing \/ Publish \/ Unpublish \/ Unstaged \/ Load
           \/ Mark \/ Reset \/ Abort \/ Settle \/ UnlinkJournal \/ RestoreJournal
           \/ ReadFault \/ Crash
  <2>1. CASE Start \/ Recovery
    BY <2>1, <1>0 DEF Start, Begin, Recovery, RecoverNothing, RecoverRefused, RecoverPrepared,
                      RecoverCommitted, Scan
  <2> QED BY <1>9, <2>1, <1>0
          DEF PlanNothing, Publish, Unpublish, Unstaged, Load, Mark, Reset, Abort, Settle,
              UnlinkJournal, RestoreJournal, ReadFault, Crash
<1>10. CASE \/ \E S \in SUBSET Docs : Plan(S)
            \/ \E e \in Docs : \/ Fingerprint(e) \/ Authenticate(e) \/ ReplaceRefused(e)
                               \/ Classify(e) \/ AuthenticateBefore(e) \/ RestoreRefused(e)
            \/ \E x \in Docs \X Roles : CleanStageRefused(x)
            \/ UNCHANGED vars
  BY <1>10, <1>0 DEF Plan, Fingerprint, Authenticate, ReplaceRefused, Classify, AuthenticateBefore,
                    RestoreRefused,
                     CleanStageRefused, vars
<1> QED BY <1>4, <1>5, <1>6, <1>7, <1>8, <1>9, <1>10
        DEF Next, Process, Environment, Preparation, Commit, Rollback, Cleanup

\* A destination that reconcile overwrites held what reconcile had recognised.
LEMMA OverwritesRecognised ==
  ASSUME TypeOK, Recognised, [Next]_vars, ByProcess,
         NEW d \in Docs, Now(d)'.dest # Now(d).dest, d \notin dirty \/ ~WindowEdits
  PROVE  Now(d).dest \in {held.img[d], Image(held, <<d, "after">>)}
<1>1. Replace(d) \/ Restore(d)
  BY OnlyRenames
<1>2. CASE Replace(d)
  <2>1. pc = "replace" /\ First(d, todo)
    BY <1>2 DEF Replace, At
  <2> QED BY <2>1 DEF Recognised, InWindow
<1>3. CASE Restore(d)
  <2>1. pc = "restore" /\ Last(d, todo)
    BY <1>3 DEF Restore, At
  <2> QED BY <2>1 DEF Recognised, InWindow
<1> QED BY <1>1, <1>2, <1>3

LEMMA RecognisedAlways == Spec => [](TypeOK /\ Recognised)
<1>1. Init => Recognised
  BY DEF Init, Recognised, InWindow, At
<1>2. TypeOK /\ Recognised /\ [Next]_vars => Recognised'
  BY RecognisedStep
<1> QED BY <1>1, <1>2, TypeCorrect, PTL DEF Spec

\* Reconcile never overwrites an edit, except one that landed between its last
\* read of the destination and the rename.
THEOREM OnlyWindowEditsAreLost == Spec => LostEditsAreInTheWindow
<1>1. TypeOK /\ Recognised /\ [Next]_vars =>
        [ByProcess => \A d \in Docs :
           Now(d)'.dest # Now(d).dest =>
             d \in dirty \/ Now(d).dest \in {held.img[d], Image(held, <<d, "after">>)}]_vars
  BY OverwritesRecognised
<1> QED BY <1>1, RecognisedAlways, PTL DEF Spec, LostEditsAreInTheWindow

\* If no edit ever lands there, none is overwritten.
THEOREM EditsKept == ~WindowEdits /\ Spec => EditsArePreserved
<1>1. ~WindowEdits /\ TypeOK /\ Recognised /\ [Next]_vars =>
        [ByProcess => \A d \in Docs :
           Now(d)'.dest # Now(d).dest =>
             Now(d).dest \in {held.img[d], Image(held, <<d, "after">>)}]_vars
  BY OverwritesRecognised
<1>2. CASE ~WindowEdits
  BY <1>1, <1>2, RecognisedAlways, PTL DEF Spec, EditsArePreserved
<1> QED BY <1>2

-----------------------------------------------------------------------------
(***************************************************************************)
(* An undisturbed tree.                                                     *)
(***************************************************************************)

\* No event happens more often than its bound.
LEMMA BoundedStep ==
  ASSUME TypeOK, Bounded, [Next]_vars
  PROVE  Bounded'
<1> USE DEF TypeOK
<1> DEFINE Goal == \A k \in Events : spent'[k] <= Budget(k)
<1>r. revived' => spent'.outages # 0
  <2>1. spent.outages \in Nat /\ spent'.outages \in Nat /\ spent'.outages >= spent.outages
    BY SpentGrows DEF Events
  <2>2. ASSUME PowerLoss PROVE spent'.outages = spent.outages + 1
    <3>1. Spend("outages")
      BY <2>2 DEF PowerLoss
    <3>2. "outages" \in Events
      BY DEF Events
    <3> QED BY <3>1, <3>2 DEF Spend
  <2>3. CASE PowerLoss
    BY <2>1, <2>2, <2>3
  <2>4. CASE ~PowerLoss
    <3>1. revived' = revived
      BY <2>4, ReviveOrigin
    <3>2. ASSUME revived PROVE spent.outages # 0
      BY <3>2 DEF Bounded
    <3>3. spent.outages # 0 => spent'.outages # 0
      BY <2>1
    <3>4. CASE revived
      BY <3>2, <3>3, <3>4
    <3> QED BY <3>1, <3>4
  <2> QED BY <2>3, <2>4
<1>0. ASSUME UNCHANGED spent PROVE Goal
  BY <1>0 DEF Bounded
<1>1. ASSUME NEW e \in Events, Spend(e) PROVE Goal
  <2> SUFFICES ASSUME NEW k \in Events PROVE spent'[k] <= Budget(k)
    OBVIOUS
  <2>1. spent[k] \in Nat /\ spent[k] <= Budget(k) /\ spent[e] < Budget(e)
    BY <1>1 DEF Bounded, Spend
  <2>2. Budget(e) \in Nat
    <3>1. /\ MaxTxns \in Nat /\ MaxFaults \in Nat /\ MaxCrashes \in Nat /\ MaxOutages \in Nat
          /\ MaxEdits \in Nat /\ MaxTampers \in Nat /\ MaxRepairs \in Nat
      BY BoundsAssumption
    <3> QED BY <3>1 DEF Budget, Events
  <2>3. CASE k = e
    BY <1>1, <2>1, <2>2, <2>3 DEF Spend
  <2>4. CASE k # e
    BY <1>1, <2>1, <2>4 DEF Spend
  <2> QED BY <2>3, <2>4
<1>2. ASSUME NEW ok, Faulty(ok) PROVE Goal
  BY <1>0, <1>1, <1>2 DEF Faulty, Events
<1> HIDE DEF Goal
<1>3. ASSUME Preparation PROVE Goal
  <2>1. CASE \E S \in SUBSET Docs : Plan(S)
    BY <1>1, <2>1 DEF Plan, Events
  <2>2. CASE \E x \in Docs \X Roles : Stage(x) \/ Unstage(x)
    BY <1>0, <1>1, <1>2, <2>2 DEF Stage, Unstage, Events
  <2> QED BY <1>0, <1>2, <1>3, <2>1, <2>2
          DEF Preparation, PlanNothing, Publish, Unpublish, Unstaged, Load
<1>4. ASSUME Commit PROVE Goal
  BY <1>0, <1>1, <1>2, <1>4
     DEF Commit, Mark, Reset, Fingerprint, Authenticate, Replace, ReplaceRefused, Failed, Events
<1>5. ASSUME Rollback PROVE Goal
  BY <1>0, <1>2, <1>5
     DEF Rollback, Abort, Settle, Classify, AuthenticateBefore, Restore, RestoreRefused, Failed
<1>6. ASSUME Cleanup PROVE Goal
  BY <1>0, <1>2, <1>6
     DEF Cleanup, UnlinkJournal, RestoreJournal, CleanStage, CleanStageRefused
<1>7. ASSUME Start \/ Recovery PROVE Goal
  BY <1>0, <1>7
     DEF Start, Begin, Recovery, RecoverNothing, RecoverRefused, RecoverPrepared,
         RecoverCommitted, Scan
<1>8. ASSUME ReadFault \/ Environment PROVE Goal
  BY <1>1, <1>8 DEF ReadFault, Environment, Crash, PowerLoss, SetAside, Edit,
                    TamperJournal, TamperStage, Events
<1>9. ASSUME UNCHANGED vars PROVE Goal
  BY <1>0, <1>9 DEF vars
<1> QED BY <1>r, <1>3, <1>4, <1>5, <1>6, <1>7, <1>8, <1>9 DEF Next, Process, Bounded, Goal

\* Nothing but edits, crashes and failed calls happens to an undisturbed tree.
LEMMA NoDisturbance ==
  ASSUME Undisturbed, TypeOK, Bounded
  PROVE  /\ ~PowerLoss /\ ~SetAside /\ ~TamperJournal
         /\ \A x \in Docs \X Roles : ~TamperStage(x)
         /\ Untampered /\ Faithful
<1>1. Budget("outages") = 0 /\ Budget("tampers") = 0 /\ Budget("repairs") = 0
  BY DEF Budget, Undisturbed
<1>2. \A k \in Events : spent[k] \in Nat /\ spent[k] <= Budget(k)
  BY DEF TypeOK, Bounded
<1>3. /\ spent["outages"] \in Nat /\ spent["tampers"] \in Nat /\ spent["repairs"] \in Nat
      /\ spent["outages"] <= 0 /\ spent["tampers"] <= 0
  BY <1>1, <1>2 DEF Events
<1>4. ~Spend("outages") /\ ~Spend("tampers") /\ ~Spend("repairs")
  BY <1>1, <1>3 DEF Spend
<1>5. Untampered /\ Faithful
  BY <1>3 DEF Untampered, Faithful, Bounded
<1> QED BY <1>4, <1>5 DEF PowerLoss, SetAside, TamperJournal, TamperStage

\* What a document shows is written by an edit, a replacement or a restoration.
LEMMA ContentOrigin ==
  ASSUME Undisturbed, TypeOK, Bounded, [Next]_vars, NEW d \in Docs
  PROVE  \/ Now(d)'.by = Now(d).by /\ Now(d)'.dest = Now(d).dest
         \/ Now(d)'.by = User /\ Now(d)'.dest \in EditBytes /\ Edit(d, Now(d)'.dest)
         \/ Restores(d) /\ Now(d)' = Restored(d)
         \/ Replaces(d) /\ Now(d)' = Replaced(d)
<1>1. ~PowerLoss /\ ~SetAside
  BY NoDisturbance
<1>2. PICK img : /\ Touches(d, img)
                 /\ \/ img.by = Now(d).by /\ img.dest = Now(d).dest
                    \/ img.by = User /\ ByHand(d, img.dest)
                    \/ Restores(d) /\ img = Restored(d)
                    \/ Replaces(d) /\ img = Replaced(d)
  BY <1>1, WriterOrigin
<1>3. Now(d)' = Now(d) \/ Now(d)' = img
  BY <1>2 DEF Touches
<1> QED BY <1>1, <1>2, <1>3 DEF ByHand

\* What the steps that write have in common.
LEMMA Renaming ==
  ASSUME TypeOK, OnBatch, Trust, Untampered, Numbered, Shown, Recognised, ~WindowEdits,
         NEW d \in Docs, Restore(d) \/ Replace(d)
  PROVE  /\ d \in Batch(held) /\ held.img[d] \in Bytes /\ held.img[d] # None
         /\ held.txn \notin {0, User} /\ held.txn \notin decided
         /\ Restores(d) => /\ Restored(d).by = 0 /\ Restored(d).dest = held.img[d]
                           /\ Now(d).dest = Reconciled[held.img[d]]
         /\ Replace(d) => /\ Replaced(d).by = held.txn /\ Now(d).dest = held.img[d]
         /\ UNCHANGED <<held, decided>>
         /\ \A e \in Docs \ {d} : Now(e)' = Now(e)
<1> USE DEF At
<1>1. /\ pc \in {"restore", "replace"} /\ d \in todo /\ UNCHANGED <<held, decided>>
  BY DEF Restore, Replace, Last, First
<1>2. d \in Batch(held)
  BY <1>1 DEF OnBatch
<1>3. held.img[d] \in Bytes /\ held.img[d] # None /\ held.txn \in Nat
  BY <1>2 DEF Batch, TypeOK, Journals
<1>4. held.txn \notin {0, User} /\ held.txn \notin decided
  BY <1>1, <1>3, WriterAssumption DEF Numbered, Rest, Shown
<1>5. ASSUME Restores(d)
      PROVE  /\ Restored(d).by = 0 /\ Restored(d).dest = held.img[d]
             /\ Now(d).dest = Reconciled[held.img[d]]
  <2>1. pc = "restore" /\ Last(d, todo)
    BY <1>5 DEF Restores, Restore
  <2>2. Restored(d).by = 0 /\ Restored(d).dest = held.img[d]
    <3>1. d \notin tainted
      BY DEF Trust
    <3> QED BY <1>5, <3>1, RenamesTrusted DEF Restored
  <2>3. d \notin dirty
    BY <2>1 DEF Recognised, InWindow
  <2>4. Now(d).dest = Image(held, <<d, "after">>)
    BY <2>1, <2>3 DEF Recognised
  <2> QED BY <2>2, <2>4 DEF Image
<1>6. ASSUME Replace(d)
      PROVE  Replaced(d).by = held.txn /\ Now(d).dest = held.img[d]
  <2>1. pc = "replace" /\ First(d, todo)
    BY <1>6 DEF Replace
  <2>2. d \notin dirty
    BY <2>1 DEF Recognised, InWindow
  <2> QED BY <2>1, <2>2 DEF Recognised, Replaced
<1>7. \A e \in Docs \ {d} : Now(e)' = Now(e)
  <2>1. \E D : dir' = [dir EXCEPT ![d] = D]
    BY DEF Restore, Replace
  <2>2. \A e \in Docs \ {d} : dir'[e] = dir[e]
    BY <2>1 DEF TypeOK
  <2> QED BY <2>2 DEF Now
<1> QED BY <1>1, <1>2, <1>3, <1>4, <1>5, <1>6, <1>7

\* A batch that is not decided stays the batch in memory until another is planned.
LEMMA SameBatchHeld ==
  ASSUME TypeOK, Shown, [Next]_vars, \A S \in SUBSET Docs : ~Plan(S)
  PROVE  SameBatch(held', held) /\ decided \subseteq decided'
<1>1. SameBatch(held, held) /\ SameBatch(Committed(held), held)
  BY CommittedType DEF TypeOK, SameBatch
<1>2. (RecoverPrepared \/ RecoverCommitted) /\ held' = journal => SameBatch(held', held)
  BY DEF RecoverPrepared, RecoverCommitted, Shown, Real, OfBatch, SameBatch
<1>3. decided \subseteq decided'
  BY DecidedOrigin
<1> QED BY <1>1, <1>2, <1>3, HeldOrigin

LEMMA DistinctStep ==
  ASSUME Undisturbed, TypeOK, OnBatch, Trust, Bounded, Numbered, Shown, Recognised,
         Distinct, [Next]_vars
  PROVE  Distinct'
<1> SUFFICES ASSUME held'.txn \notin decided', NEW d \in Batch(held')
             PROVE  /\ Reconciled[held'.img[d]] # held'.img[d]
                    /\ Now(d)'.by \in {0, User} => Now(d)'.dest # Reconciled[held'.img[d]]
  BY DEF Distinct, Batch
<1>d. d \in Docs
  BY DEF Batch
<1>1. CASE \E S \in SUBSET Docs : Plan(S)
  <2>1. PICK S \in SUBSET Docs : Plan(S)
    BY <1>1
  <2>2. /\ UNCHANGED dir
        /\ held'.img = [e \in Docs |-> IF e \in S THEN Now(e).dest ELSE None]
        /\ \A e \in S : Reconciled[Now(e).dest] # Now(e).dest
    BY <2>1 DEF Plan
  <2>3. d \in S
    BY <2>2 DEF Batch
  <2> QED BY <1>d, <2>2, <2>3 DEF Now
<1>2. CASE \A S \in SUBSET Docs : ~Plan(S)
  <2>1. held'.img = held.img /\ held.txn \notin decided
    BY <1>2, SameBatchHeld DEF SameBatch
  <2>2. d \in Batch(held) /\ held.img[d] \in Bytes
    BY <2>1 DEF Batch, TypeOK, Journals
  <2>3. /\ Reconciled[held.img[d]] # held.img[d]
        /\ Now(d).by \in {0, User} => Now(d).dest # Reconciled[held.img[d]]
    BY <2>1, <2>2 DEF Distinct
  <2>4. Reconciled[held.img[d]] \notin EditBytes /\ ~WindowEdits
    BY <2>2, <2>3 DEF Undisturbed
  <2>5. /\ Restores(d) => Restored(d).dest = held.img[d]
        /\ Replaces(d) => Replaced(d).by \notin {0, User}
    BY <1>d, <2>4, NoDisturbance, Renaming DEF Restores, Replaces
  <2> QED BY <1>d, <2>1, <2>3, <2>4, <2>5, ContentOrigin
<1> QED BY <1>1, <1>2

-----------------------------------------------------------------------------
(***************************************************************************)
(* A batch is atomic.                                                       *)
(***************************************************************************)

\* All that the refinement rests on.
Calm == DInv /\ IInv /\ Recognised /\ Bounded /\ Distinct

LEMMA CalmFacts ==
  ASSUME Undisturbed, Calm
  PROVE  /\ TypeOK /\ OnBatch /\ Numbered /\ Shown /\ Fresh /\ Whole /\ Branded /\ WayBack
         /\ Rewritten /\ Recognised /\ Bounded /\ Distinct /\ ~WindowEdits /\ Trust /\ Untampered
  BY NoDisturbance DEF Calm, DInv, Decision, IInv, Authority, Undisturbed

\* The forms in which steps of the abstract batch are recognised.
LEMMA StutterForm ==
  ASSUME docsA' = docsA, batchA' = batchA, editedA' = editedA
  PROVE  UNCHANGED Atomic!avars
  BY DEF Atomic!avars

LEMMA EditForm ==
  ASSUME NEW d \in Docs, NEW b \in Bytes \cup {Absent},
         docsA' = [docsA EXCEPT ![d] = b], editedA' = editedA \cup {d}, batchA' = batchA
  PROVE  Atomic!ANext
<1>1. Atomic!Edit(d, b)
  BY DEF Atomic!Edit
<1> QED BY <1>1 DEF Atomic!ANext

LEMMA RereadForm ==
  ASSUME NEW d \in Docs, batchA[d] # None, docsA[d] = batchA[d],
         docsA' = docsA, editedA' = editedA \ {d}, batchA' = batchA
  PROVE  Atomic!ANext
<1>1. Atomic!Reread(d)
  BY DEF Atomic!Reread, Atomic!Open
<1> QED BY <1>1 DEF Atomic!ANext

LEMMA BeginForm ==
  ASSUME NEW S \in SUBSET Docs, \A d \in S : docsA[d] \in Bytes /\ Reconciled[docsA[d]] # docsA[d],
         batchA' = [d \in Docs |-> IF d \in S THEN docsA[d] ELSE None],
         docsA' = docsA, editedA' = editedA
  PROVE  Atomic!ANext
<1>1. Atomic!Begin(S)
  BY DEF Atomic!Begin
<1> QED BY <1>1 DEF Atomic!ANext

LEMMA CommitForm ==
  ASSUME NEW S \in SUBSET Docs,
         \A d \in Docs : batchA[d] # None => d \in S \/ d \in editedA,
         \A d \in S : batchA[d] # None /\ docsA[d] = batchA[d],
         docsA' = [d \in Docs |-> IF d \in S THEN Reconciled[batchA[d]] ELSE docsA[d]],
         batchA' = [d \in Docs |-> None], editedA' = editedA
  PROVE  Atomic!ANext
<1>1. Atomic!Commit(S)
  BY DEF Atomic!Commit, Atomic!Open
<1> QED BY <1>1 DEF Atomic!ANext

\* A document that no undecided batch wrote counts as what it holds.
LEMMA Contents0 ==
  ASSUME Undisturbed, Calm, NEW d \in Docs
  PROVE  /\ Applied(d) => Now(d).by = held.txn /\ d \in Batch(held) /\ OfBatch(journal)
                          /\ Now(d).dest = Reconciled[held.img[d]]
                          /\ held.txn \notin decided
         /\ docsA[d] = Logical(d)
<1>1. TypeOK /\ WayBack /\ Now(d) \in dir[d].disk
  BY CalmFacts DEF TypeOK, Now, Directories
<1>2. ASSUME Applied(d)
      PROVE  Now(d).by = held.txn /\ d \in Batch(held) /\ OfBatch(journal)
             /\ Now(d).dest = Reconciled[held.img[d]] /\ held.txn \notin decided
  <2>1. Undecided(Now(d))
    BY <1>2 DEF Applied, Undecided
  <2>2. OfBatch(journal)
    BY <1>1, <2>1, JournalOfUndecided
  <2> QED BY <1>1, <2>1, <2>2 DEF WayBack, Undecided
<1> QED BY <1>2 DEF docsA

LEMMA PlanMaps ==
  ASSUME Undisturbed, Calm, NEW S \in SUBSET Docs, Plan(S)
  PROVE  Atomic!ANext
<1>1. /\ journal = None /\ UNCHANGED <<dir, decided>>
      /\ \A d \in S : Now(d).dest \in Bytes /\ Reconciled[Now(d).dest] # Now(d).dest
      /\ held'.txn = spent.txns + 1
      /\ held'.img = [d \in Docs |-> IF d \in S THEN Now(d).dest ELSE None]
  BY DEF Plan
<1>2. \A d \in Docs : ~Applied(d)
  BY <1>1, Contents0 DEF OfBatch
<1>3. \A d \in Docs : Logical(d) = Now(d).dest /\ Logical(d)' = Now(d).dest
  BY <1>1, <1>2 DEF Logical, Applied, Now
<1>4. docsA = [d \in Docs |-> Now(d).dest] /\ docsA' = [d \in Docs |-> Now(d).dest]
  BY <1>3 DEF docsA
<1>5. held'.txn \notin decided'
  <2>1. spent.txns \in Nat /\ decided \subseteq Nat /\ \A t \in decided : t <= spent.txns
    BY CalmFacts DEF TypeOK, Events, Numbered
  <2> QED BY <1>1, <2>1
<1>6. batchA' = [d \in Docs |-> IF d \in S THEN docsA[d] ELSE None]
  BY <1>1, <1>4, <1>5 DEF batchA
<1>7. editedA' = editedA
  BY <1>1 DEF editedA, Now
<1> QED BY <1>1, <1>4, <1>6, <1>7, BeginForm

\* The step that decides a batch commits it.
LEMMA DecideMaps ==
  ASSUME Undisturbed, Calm, [Next]_vars, decided' # decided
  PROVE  Atomic!ANext \/ UNCHANGED Atomic!avars
<1>f. TypeOK /\ Numbered /\ Shown /\ Whole /\ Rewritten /\ Branded /\ WayBack
  BY CalmFacts
<1>t. /\ held \in Journals /\ held \in Known /\ held.txn \in Nat /\ User \notin Nat
      /\ \A d \in Docs : Now(d) \in dir[d].disk
      /\ Committed(held).txn = held.txn /\ Committed(held).img = held.img
  BY <1>f, CommittedType, WriterAssumption DEF TypeOK, Known, Journals, Directories, Now
<1>1. /\ UNCHANGED dir /\ held'.txn = held.txn /\ held'.img = held.img
      /\ decided' = decided \cup {held.txn} /\ held.txn # 0
      /\ \A d \in Batch(held) : By(d, Writers)
  <2>1. CASE Mark /\ held' = Committed(held) /\ decided' = decided \cup {held.txn}
    <3>1. held.txn # 0
      BY <1>f, <2>1 DEF Mark, At, Numbered, Rest
    <3>2. UNCHANGED dir
      BY <2>1 DEF Mark
    <3> QED BY <1>f, <1>t, <2>1, <3>1, <3>2, MarkIsWhole
  <2>2. CASE RecoverCommitted /\ held' = journal /\ decided' = decided \cup {journal.txn}
    <3>1. Real(journal) /\ journal.state = "committed" /\ UNCHANGED dir
      BY <2>2 DEF RecoverCommitted, Real
    <3>2. journal.txn = held.txn /\ journal.img = held.img
      BY <1>f, <3>1 DEF Shown, OfBatch
    <3>3. journal.txn # 0
      BY <1>f, <3>1 DEF TypeOK, Directories, Numbered, journal
    <3>4. Marked
      BY <3>1 DEF Marked
    <3> QED BY <1>f, <2>2, <3>1, <3>2, <3>3, <3>4 DEF Whole
  <2> QED BY <1>f, <2>1, <2>2, DecidedOrigin
<1>2. held.txn \notin decided
  BY <1>1
<1> DEFINE S == {d \in Docs : Applied(d)}
<1>3. \A d \in Docs : d \in S <=> Now(d).by = held.txn
  BY <1>1, <1>2, <1>t, Contents0 DEF Applied
<1>4. \A d \in S : /\ d \in Batch(held) /\ Now(d).dest = Reconciled[held.img[d]]
                   /\ Logical(d) = held.img[d] /\ held.img[d] # None
  BY Contents0 DEF Logical, Batch
<1>5. batchA = [d \in Docs |-> held.img[d]] /\ batchA' = [d \in Docs |-> None]
  BY <1>1, <1>2 DEF batchA
<1>6. editedA' = editedA /\ editedA = {d \in Docs : Now(d).by = User}
  BY <1>1 DEF editedA, Now
<1>7. \A d \in Docs : ~Applied(d)'
  BY <1>1, <1>3 DEF Applied, Now
<1>8. \A d \in Docs : Logical(d)' = IF d \in S THEN Reconciled[batchA[d]] ELSE docsA[d]
  BY <1>1, <1>4, <1>5, <1>7 DEF Logical, Now, docsA
<1>9. docsA' = [d \in Docs |-> IF d \in S THEN Reconciled[batchA[d]] ELSE docsA[d]]
  BY <1>8 DEF docsA
<1>10. \A d \in S : batchA[d] # None /\ docsA[d] = batchA[d]
  BY <1>4, <1>5 DEF docsA
<1>11. \A d \in Docs : batchA[d] # None => d \in S \/ d \in editedA
  BY <1>1, <1>t, <1>3, <1>5, <1>6 DEF Batch, By, Writers
<1> HIDE DEF S
<1>12. S \in SUBSET Docs
  BY DEF S
<1> QED BY <1>5, <1>6, <1>9, <1>10, <1>11, <1>12, CommitForm

\* Any other step writes at most one document of the batch.
LEMMA WriteMaps ==
  ASSUME Undisturbed, Calm, [Next]_vars, decided' = decided, \A S \in SUBSET Docs : ~Plan(S)
  PROVE  Atomic!ANext \/ UNCHANGED Atomic!avars
<1>f. /\ TypeOK /\ OnBatch /\ Numbered /\ Shown /\ Recognised /\ Distinct /\ ~WindowEdits
      /\ Bounded /\ Trust /\ Untampered
  BY CalmFacts
<1>t. /\ dir \in [Docs -> Directories(DocImages)] /\ User # 0 /\ Absent \notin Bytes
      /\ EditBytes \subseteq Bytes \cup {Absent}
  BY <1>f, WriterAssumption, BytesAssumption DEF TypeOK
<1>1. held'.txn = held.txn /\ held'.img = held.img
  BY <1>f, SameBatchHeld DEF SameBatch
<1>2. batchA' = batchA
  BY <1>1 DEF batchA
<1>s. ASSUME NEW d \in Docs, Now(d)'.by = Now(d).by, Now(d)'.dest = Now(d).dest
      PROVE  Logical(d)' = Logical(d) /\ (Now(d)'.by = User <=> Now(d).by = User)
  BY <1>1, <1>s DEF Logical, Applied
<1>3. CASE \E d \in Docs : Restore(d) \/ Replace(d)
  <2>1. PICK d \in Docs : Restore(d) \/ Replace(d)
    BY <1>3
  <2>2. /\ d \in Batch(held) /\ held.img[d] \in Bytes /\ held.img[d] # None
        /\ held.txn \notin {0, User} /\ held.txn \notin decided
        /\ \A e \in Docs \ {d} : Now(e)' = Now(e)
    BY <1>f, <2>1, Renaming
  <2>3. /\ Restores(d) => /\ Restored(d).by = 0 /\ Restored(d).dest = held.img[d]
                          /\ Now(d).dest = Reconciled[held.img[d]]
        /\ Replace(d) => /\ Replaced(d).by = held.txn /\ Now(d).dest = held.img[d]
    BY <1>f, <2>1, Renaming
  <2>4. Applied(d) => Logical(d) = held.img[d] /\ Now(d).by = held.txn
    BY Contents0 DEF Logical
  <2>e. ~\E b \in EditBytes : Edit(d, b)
    BY <1>f, <2>1 DEF Edit, Restore, Replace, InWindow, At
  <2>5. /\ Logical(d)' = Logical(d)
        /\ \/ Now(d)'.by = User <=> Now(d).by = User
           \/ Now(d)'.by # User /\ Logical(d) = held.img[d]
    <3>1. CASE Now(d)'.by = Now(d).by /\ Now(d)'.dest = Now(d).dest
      BY <1>s, <3>1
    <3>2. CASE Restores(d) /\ Now(d)' = Restored(d)
      <4>1. ~Applied(d)' /\ Logical(d)' = held.img[d] /\ Now(d)'.by = 0
        BY <2>3, <3>2 DEF Applied, Logical
      <4>2. Applied(d)
        <5>1. Now(d).by \notin {0, User}
          BY <1>f, <2>2, <2>3, <3>2 DEF Distinct
        <5>2. Now(d).by \in {0, User, held.txn}
          BY <1>f, <3>2, BeforeDecided, CalmFacts DEF Restores
        <5> QED BY <2>2, <5>1, <5>2 DEF Applied
      <4> QED BY <1>t, <2>2, <2>4, <4>1, <4>2
    <3>3. CASE Replaces(d) /\ Now(d)' = Replaced(d)
      <4>1. Applied(d)' /\ Now(d)'.by = held.txn
        BY <2>2, <2>3, <3>3 DEF Applied, Replaces
      <4>2. Logical(d)' = held.img[d]
        BY <1>1, <4>1 DEF Logical
      <4>3. Logical(d) = held.img[d]
        BY <2>3, <3>3 DEF Logical, Replaces
      <4> QED BY <2>2, <4>1, <4>2, <4>3
    <3> QED BY <1>f, <2>e, <3>1, <3>2, <3>3, ContentOrigin
  <2>6. \A e \in Docs : Logical(e)' = Logical(e)
    BY <1>s, <2>2, <2>5
  <2>7. docsA' = docsA
    BY <2>6 DEF docsA
  <2>8. CASE Now(d)'.by = User <=> Now(d).by = User
    <3>1. editedA' = editedA
      BY <2>2, <2>8 DEF editedA
    <3> QED BY <1>2, <2>7, <3>1, StutterForm
  <2>9. CASE Now(d)'.by # User /\ Logical(d) = held.img[d]
    <3>1. editedA' = editedA \ {d}
      BY <2>2, <2>9 DEF editedA
    <3>2. batchA[d] # None /\ docsA[d] = batchA[d]
      BY <2>2, <2>9 DEF batchA, docsA
    <3> QED BY <1>2, <2>7, <3>1, <3>2, RereadForm
  <2> QED BY <2>5, <2>8, <2>9
<1>4. CASE \A d \in Docs : ~Restore(d) /\ ~Replace(d)
  <2>1. CASE \E d \in Docs, b \in EditBytes : Edit(d, b)
    <3>1. PICK d \in Docs, b \in EditBytes : Edit(d, b)
      BY <2>1
    <3> DEFINE img == [dest |-> b, by |-> User, before |-> Now(d).before, after |-> Now(d).after]
    <3>2. dir' = [dir EXCEPT ![d] = Unsynced(dir[d], img)]
      BY <3>1 DEF Edit
    <3>3. img.dest = b /\ img.by = User
      OBVIOUS
    <3> HIDE DEF img
    <3>4. Now(d)' = img /\ \A e \in Docs \ {d} : Now(e)' = Now(e)
      BY <1>t, <3>2 DEF Unsynced, Now
    <3>5. Logical(d)' = b /\ \A e \in Docs \ {d} : Logical(e)' = Logical(e)
      BY <1>s, <3>3, <3>4 DEF Logical, Applied
    <3>6. docsA' = [docsA EXCEPT ![d] = b]
      BY <3>5 DEF docsA
    <3>7. editedA' = editedA \cup {d}
      BY <3>3, <3>4 DEF editedA
    <3> QED BY <1>2, <1>t, <3>6, <3>7, EditForm
  <2>2. CASE ~\E d \in Docs, b \in EditBytes : Edit(d, b)
    <3>1. \A d \in Docs : Now(d)'.by = Now(d).by /\ Now(d)'.dest = Now(d).dest
      BY <1>f, <1>4, <2>2, ContentOrigin DEF Restores, Replaces
    <3>2. \A d \in Docs : Logical(d)' = Logical(d) /\ (Now(d)'.by = User <=> Now(d).by = User)
      BY <1>s, <3>1
    <3> QED BY <1>2, <3>2, StutterForm DEF docsA, editedA
  <2> QED BY <2>1, <2>2
<1> QED BY <1>3, <1>4

LEMMA CalmStep ==
  ASSUME Undisturbed, Calm, DInv', IInv', [Next]_vars
  PROVE  Calm'
  BY CalmFacts, RecognisedStep, BoundedStep, DistinctStep DEF Calm

LEMMA InitAtomic ==
  ASSUME Init
  PROVE  Atomic!AInit /\ Recognised /\ Bounded /\ Distinct
<1>1. PICK f \in [Docs -> Bytes] :
        dir = [d \in Docs |-> Durable([dest |-> f[d], by |-> 0, before |-> None, after |-> None])]
  BY DEF Init
<1>2. /\ pc = "idle" /\ decided = {} /\ spent = [k \in Events |-> 0]
      /\ held = [txn |-> 0, state |-> "prepared", img |-> [d \in Docs |-> None]]
  BY DEF Init
<1>3. \A d \in Docs : Now(d).dest = f[d] /\ Now(d).by = 0
  BY <1>1 DEF Now, Durable
<1>4. docsA = f
  BY <1>2, <1>3 DEF docsA, Logical, Applied
<1>5. batchA = [d \in Docs |-> None] /\ editedA = {}
  BY <1>2, <1>3, WriterAssumption DEF batchA, editedA
<1>6. Atomic!AInit
  BY <1>4, <1>5 DEF Atomic!AInit
<1>7. Recognised /\ Distinct
  BY <1>2 DEF Recognised, InWindow, At, Distinct, Batch
<1>8. Bounded
  <2>1. ~revived
    BY DEF Init
  <2>2. \A k \in Events : Budget(k) \in Nat /\ spent[k] = 0
    BY <1>2, BoundsAssumption DEF Budget, Events
  <2> QED BY <2>1, <2>2 DEF Bounded
<1> QED BY <1>6, <1>7, <1>8

\* From the operator's perspective a batch changes in one step, whatever fails or
\* crashes: of an undisturbed tree, reconcile implements AtomicBatch.
THEOREM BatchIsAtomic == Undisturbed /\ Spec => ImplementsAtomicBatch
<1>1. Undisturbed /\ Calm /\ [Next]_vars => [Atomic!ANext]_(Atomic!avars)
  <2> SUFFICES ASSUME Undisturbed, Calm, [Next]_vars PROVE Atomic!ANext \/ UNCHANGED Atomic!avars
    OBVIOUS
  <2>1. CASE \E S \in SUBSET Docs : Plan(S)
    BY <2>1, PlanMaps
  <2>2. CASE decided' # decided
    BY <2>2, DecideMaps
  <2>3. CASE decided' = decided /\ \A S \in SUBSET Docs : ~Plan(S)
    BY <2>3, WriteMaps
  <2> QED BY <2>1, <2>2, <2>3
<1>2. Undisturbed /\ Calm /\ DInv' /\ IInv' /\ [Next]_vars => Calm'
  BY CalmStep
<1>3. Init => Atomic!AInit /\ Recognised /\ Bounded /\ Distinct
  BY InitAtomic
<1>4. DInv /\ IInv /\ Recognised /\ Bounded /\ Distinct => Calm
  BY DEF Calm
<1>5. CASE Undisturbed
  BY <1>1, <1>2, <1>3, <1>4, <1>5, DecisionInvariant, Invariance, PTL
     DEF Spec, ImplementsAtomicBatch, Atomic!ASpec
<1> QED BY <1>5

-----------------------------------------------------------------------------
(***************************************************************************)
(* What a rollback knows of the edits around it.                            *)
(***************************************************************************)

\* Only an edit over an undecided after image counts as one.
LEMMA OverlaidOrigin ==
  ASSUME [Next]_vars, NEW d \in Docs, d \in overlaid', d \notin overlaid
  PROVE  (\E b \in EditBytes : Edit(d, b)) /\ Applied(d) /\ d \in dirty'
<1>1. CASE Start \/ Recovery \/ Rollback
  BY <1>1
     DEF Start, Begin, Recovery, RecoverNothing, RecoverRefused, RecoverPrepared,
         RecoverCommitted, Scan, Rollback, Abort, Settle, Classify,
         AuthenticateBefore, Restore, RestoreRefused, Failed
<1>2. CASE Preparation
  BY <1>2 DEF Preparation, Plan, PlanNothing, Publish, Unpublish, Unstaged, Load, Stage, Unstage
<1>3. CASE Commit
  BY <1>3 DEF Commit, Mark, Reset, Fingerprint, Authenticate, Replace, ReplaceRefused, Failed
<1>4. CASE Cleanup
  BY <1>4 DEF Cleanup, UnlinkJournal, RestoreJournal, CleanStage, CleanStageRefused
<1>5. CASE ReadFault \/ Crash \/ PowerLoss \/ TamperJournal \/ SetAside \/ UNCHANGED vars
  BY <1>5 DEF ReadFault, Crash, PowerLoss, SetAside, TamperJournal, vars
<1>6. CASE \E x \in Docs \X Roles : TamperStage(x)
  BY <1>6 DEF TamperStage
<1>7. CASE \E e \in Docs, b \in EditBytes : Edit(e, b)
  BY <1>7 DEF Edit
<1> QED BY <1>1, <1>2, <1>3, <1>4, <1>5, <1>6, <1>7 DEF Next, Process, Environment

\* ... and only reading the destination again makes reconcile aware of it.
LEMMA SeenOrigin ==
  ASSUME [Next]_vars, NEW d \in Docs, Seen(d)', ~Seen(d)
  PROVE  Fingerprint(d) \/ Classify(d)
<1>0. d \in overlaid' /\ d \notin dirty'
  BY DEF Seen
<1>a. d \in overlaid
  BY <1>0, OverlaidOrigin
<1>b. d \in dirty
  <2>1. d \notin tainted
    BY TaintGrows DEF Seen
  <2> QED BY <1>a, <2>1 DEF Seen
<1>1. CASE Start \/ Recovery
  BY <1>0, <1>b, <1>1
     DEF Start, Begin, Recovery, RecoverNothing, RecoverRefused, RecoverPrepared,
         RecoverCommitted, Scan
<1>2. CASE \E S \in SUBSET Docs : Plan(S)
  BY <1>0, <1>b, <1>2 DEF Plan
<1>3. CASE \/ PlanNothing \/ Publish \/ Unpublish \/ Unstaged \/ Load
           \/ \E x \in Docs \X Roles : Stage(x) \/ Unstage(x)
  BY <1>0, <1>b, <1>3 DEF PlanNothing, Publish, Unpublish, Unstaged, Load, Stage, Unstage
<1>4. CASE Mark \/ Reset \/ \E e \in Docs : Authenticate(e) \/ Replace(e) \/ ReplaceRefused(e)
  BY <1>0, <1>b, <1>4 DEF Mark, Reset, Authenticate, Replace, ReplaceRefused
<1>5. CASE \E e \in Docs : Fingerprint(e) \/ Classify(e)
  BY <1>0, <1>b, <1>5 DEF Fingerprint, Classify
<1>6. CASE \/ Abort \/ Settle
           \/ \E e \in Docs : AuthenticateBefore(e) \/ Restore(e) \/ RestoreRefused(e)
  BY <1>0, <1>b, <1>6 DEF Abort, Settle, AuthenticateBefore, Restore, RestoreRefused
<1>7. CASE Cleanup
  BY <1>0, <1>b, <1>7 DEF Cleanup, UnlinkJournal, RestoreJournal, CleanStage, CleanStageRefused
<1>8. CASE ReadFault \/ Environment \/ UNCHANGED vars
  BY <1>0, <1>b, <1>8 DEF ReadFault, Environment, Crash, PowerLoss, SetAside, Edit,
                          TamperJournal, TamperStage, vars
<1>9. CASE Preparation \/ Commit \/ Rollback
  BY <1>2, <1>3, <1>4, <1>5, <1>6, <1>9 DEF Preparation, Commit, Rollback
<1> QED BY <1>1, <1>7, <1>8, <1>9 DEF Next, Process

\* What an edit leaves is dirty.
LEMMA EditIsDirty ==
  ASSUME NEW d \in Docs, NEW b, Edit(d, b)
  PROVE  d \in dirty'
  BY DEF Edit

\* Short of a power loss, the contents of a destination that reconcile has read
\* changes by its own renames.
LEMMA CleanContent ==
  ASSUME TypeOK, [Next]_vars, ~PowerLoss, NEW d \in Docs, d \notin dirty',
         Now(d)'.dest # Now(d).dest
  PROVE  \/ Restores(d) /\ Now(d)' = Restored(d)
         \/ Replaces(d) /\ Now(d)' = Replaced(d)
<1>1. PICK img : /\ Touches(d, img)
                 /\ \/ img.by = Now(d).by /\ img.dest = Now(d).dest
                    \/ img.by = User /\ ByHand(d, img.dest)
                    \/ Restores(d) /\ img = Restored(d)
                    \/ Replaces(d) /\ img = Replaced(d)
  BY WriterOrigin
<1>2. Now(d)' = img
  BY <1>1 DEF Touches
<1>3. ~ByHand(d, img.dest)
  BY <1>2, EditIsDirty DEF ByHand
<1> QED BY <1>1, <1>2, <1>3

LEMMA SparedKept ==
  ASSUME TypeOK, [Next]_vars, ~PowerLoss, NEW d \in Docs, Spared(d), ~Replace(d)
  PROVE  Spared(d)'
<1>1. d \notin overlaid'
  BY OverlaidOrigin DEF Spared, Applied
<1>2. PICK img : /\ Touches(d, img)
                 /\ \/ img.by = Now(d).by /\ img.dest = Now(d).dest
                    \/ img.by = User /\ ByHand(d, img.dest)
                    \/ Restores(d) /\ img = Restored(d)
                    \/ Replaces(d) /\ img = Replaced(d)
  BY WriterOrigin
<1>3. Now(d)' = Now(d) \/ Now(d)' = img
  BY <1>2 DEF Touches
<1>4. Restored(d).by = 0
  BY DEF Restored
<1>5. Now(d)'.by \in {0, User}
  BY <1>2, <1>3, <1>4 DEF Spared, Replaces
<1> QED BY <1>1, <1>5 DEF Spared

LEMMA SuspectedStep ==
  ASSUME TypeOK, Branded, Suspected, [Next]_vars
  PROVE  Suspected'
<1> USE DEF At, Rolling
<1>0. CASE PowerLoss
  BY <1>0, PowerKeeps DEF Suspected
<1>a. ASSUME ~PowerLoss, held' = held, \A d \in Docs : ~Replace(d),
             \A d \in Batch(held) : Spared(d)
      PROVE  \A d \in Batch(held') : Spared(d)'
  <2>1. Batch(held) \subseteq Docs
    BY DEF Batch
  <2> QED BY <1>a, <2>1, SparedKept
<1>b. ASSUME ~PowerLoss, held' = held, \A d \in Docs : ~Replace(d), candidates' = candidates,
             \A d \in Batch(held) \ candidates : Spared(d)
      PROVE  \A d \in Batch(held') \ candidates' : Spared(d)'
  <2>1. Batch(held) \subseteq Docs
    BY DEF Batch
  <2> QED BY <1>b, <2>1, SparedKept
<1>1. CASE ~PowerLoss /\ Outside
  <2>1. UNCHANGED <<pc, candidates, held>>
    BY <1>1, OutsideKeeps
  <2>2. ASSUME pc \in Rolling \cup {"stage", "unpublish", "load", "fingerprint", "checkAfter",
                                    "reset", "abort"}
        PROVE  \A d \in Docs : ~Replace(d)
    BY <2>2 DEF Replace
  <2>3. ASSUME pc = "replace", NEW d \in Docs PROVE ~Replace(d)
    BY <2>1, <2>3 DEF Replace
  <2>4. pc' \in {"stage", "unpublish", "load"} => \A d \in Batch(held') : Spared(d)'
    BY <1>1, <1>a, <2>1, <2>2 DEF Suspected
  <2>5. pc' \in Rolling \cup {"fingerprint", "checkAfter", "replace", "reset", "abort"}
          => \A d \in Batch(held') \ candidates' : Spared(d)'
    BY <1>1, <1>b, <2>1, <2>2, <2>3 DEF Suspected
  <2> QED BY <2>4, <2>5 DEF Suspected
<1>2. ASSUME ~PowerLoss, ~Outside, pc' \in {"stage", "unpublish", "load"}
      PROVE  \A d \in Batch(held') : Spared(d)'
  <2>1. CASE \E S \in SUBSET Docs : Plan(S)
    <3>1. PICK S \in SUBSET Docs : Plan(S)
      BY <2>1
    <3>2. /\ UNCHANGED dir /\ overlaid' = overlaid \ S
          /\ held'.img = [d \in Docs |-> IF d \in S THEN Now(d).dest ELSE None]
          /\ \A d \in S : Now(d).dest \in Bytes /\ Reconciled[Now(d).dest] # Now(d).dest
      BY <3>1 DEF Plan
    <3>3. Batch(held') \subseteq S
      BY <3>2 DEF Batch
    <3>4. ASSUME NEW d \in S PROVE Now(d).by \in {0, User}
      <4>1. d \in Docs /\ Now(d) \in dir[d].disk
        BY DEF TypeOK, Now, Directories
      <4>2. Now(d).dest # Torn
        BY <3>2, BytesAssumption
      <4> QED BY <3>2, <4>1, <4>2 DEF Branded
    <3> QED BY <3>2, <3>3, <3>4 DEF Spared, Now
  <2>2. CASE Publish \/ \E x \in Docs \X Roles : Stage(x)
    <3>1. pc = "stage" /\ held' = held
      BY <2>2 DEF Publish, Stage
    <3>2. \A d \in Docs : ~Replace(d)
      BY <3>1 DEF Replace
    <3> QED BY <1>2, <1>a, <3>1, <3>2 DEF Suspected
  <2> QED BY <1>2, <2>1, <2>2, ControlFlow
<1>3. ASSUME ~PowerLoss, ~Outside,
             pc' \in Rolling \cup {"fingerprint", "checkAfter", "replace", "reset", "abort"}
      PROVE  \A d \in Batch(held') \ candidates' : Spared(d)'
  <2>1. CASE Load
    <3>1. pc = "load" /\ held' = held
      BY <2>1 DEF Load
    <3>2. \A d \in Docs : ~Replace(d)
      BY <3>1 DEF Replace
    <3> QED BY <1>3, <1>a, <3>1, <3>2 DEF Suspected
  <2>2. CASE \E e \in Docs : Replace(e)
    <3>1. PICK e \in Docs : Replace(e)
      BY <2>2
    <3>2. pc = "replace" /\ held' = held /\ candidates' = candidates \cup {e} /\ First(e, todo)
      BY <3>1 DEF Replace
    <3>3. ASSUME NEW d \in Batch(held) \ candidates' PROVE Spared(d)'
      <4>1. d \in Docs /\ d # e /\ Spared(d)
        BY <3>2 DEF Batch, Suspected
      <4>2. ~Replace(d)
        BY <3>2, <4>1 DEF Replace
      <4> QED BY <1>3, <4>1, <4>2, SparedKept
    <3> QED BY <3>2, <3>3
  <2>3. CASE RecoverPrepared
    <3>1. candidates' = Docs
      BY <2>3 DEF RecoverPrepared, StartRollback
    <3> QED BY <3>1 DEF Batch
  <2>4. CASE \/ Mark /\ pc' = "reset"
             \/ Reset \/ Abort
             \/ \E d \in Docs : \/ Fingerprint(d) \/ Authenticate(d) \/ ReplaceRefused(d)
                              \/ Classify(d) \/ AuthenticateBefore(d) \/ Restore(d)
    <3>1. /\ pc \in Rolling \cup {"fingerprint", "checkAfter", "replace", "reset", "abort"}
          /\ held' = held /\ candidates' = candidates
      <4>1. CASE Mark /\ pc' = "reset"
        BY <4>1 DEF Mark, Goto, work, Exit, Gone, StartCleanup
      <4>2. CASE Reset \/ Abort
        BY <1>3, <4>2 DEF Reset, Abort, Goto, work, Exit, Gone, StartRollback
      <4>3. CASE \E d \in Docs : Fingerprint(d) \/ Authenticate(d) \/ ReplaceRefused(d)
        BY <1>3, <4>3 DEF Fingerprint, Authenticate, ReplaceRefused, Goto, work, StartRollback
      <4>4. CASE \E d \in Docs : Classify(d) \/ AuthenticateBefore(d) \/ Restore(d)
        BY <1>3, <4>4 DEF Classify, AuthenticateBefore, Restore, Goto, work, Exit, Gone
      <4> QED BY <2>4, <4>1, <4>2, <4>3, <4>4
    <3>2. CASE \E e \in Docs : Replace(e)
      BY <2>2, <3>2
    <3> QED BY <1>3, <1>b, <3>1, <3>2 DEF Suspected
  <2> QED BY <1>3, <2>1, <2>2, <2>3, <2>4, ControlFlow
<1> QED BY <1>0, <1>1, <1>2, <1>3 DEF Suspected

LEMMA AccountedStep ==
  ASSUME TypeOK, OnBatch, Trust, Suspected, Accounted, [Next]_vars
  PROVE  Accounted'
<1> USE DEF At, Rolling
<1>0. CASE PowerLoss
  BY <1>0, PowerKeeps DEF Accounted
<1>1. ASSUME ~PowerLoss, pc' \in Rolling, NEW d \in Batch(held') \ todo', Seen(d)'
      PROVE  Now(d)'.dest = held'.img[d] \/ d \in unresolved'
  <2>0. d \in Docs /\ d \notin dirty' /\ d \notin tainted
    BY <1>1, TaintGrows DEF Batch, Seen
  <2>1. CASE \E e \in Docs : Classify(e)
    <3>1. PICK e \in Docs : Classify(e)
      BY <2>1
    <3>2. /\ pc = "classify" /\ Last(e, todo) /\ UNCHANGED <<dir, held, overlaid, candidates>>
          /\ dirty' = dirty \ {e}
          /\ unresolved \subseteq unresolved' /\ todo \ {e} \subseteq todo'
      BY <3>1 DEF Classify
    <3>3. CASE d = e
      <4>1. d \in overlaid
        BY <1>1, <3>2 DEF Seen
      <4>2. d \in candidates
        BY <1>1, <3>2, <4>1 DEF Suspected, Spared
      <4>3. Now(d).dest = held.img[d] \/ d \in unresolved'
        BY <1>1, <3>1, <3>2, <3>3, <4>2 DEF Classify, Last
      <4> QED BY <3>2, <4>3 DEF Now
    <3>4. CASE d # e
      <4>1. d \in Batch(held) \ todo /\ Seen(d)
        BY <1>1, <2>0, <3>2, <3>4 DEF Seen
      <4> QED BY <3>2, <4>1 DEF Accounted, Now
    <3> QED BY <3>3, <3>4
  <2>2. CASE \E e \in Docs : Restore(e)
    <3>1. PICK e \in Docs : Restore(e)
      BY <2>2
    <3>2. /\ pc = "restore" /\ e \in todo /\ UNCHANGED <<held, overlaid, dirty>>
      BY <3>1 DEF Restore, Last
    <3>o. PICK o \in Primitive(dir[e], Restored(e)) :
            /\ dir' = [dir EXCEPT ![e] = o.dir]
            /\ Present(held, <<e, "before">>) \/ (o.ok = FALSE /\ o.dir = dir[e])
            /\ o.ok /\ todo' = todo \ {e} /\ UNCHANGED unresolved
      BY <1>1, <3>1, RestoreForms DEF Exit, Gone
    <3>3. Seen(d)
      BY <1>1, <2>0, <3>2 DEF Seen
    <3>4. CASE d = e
      <4>1. Restores(e)
        BY <3>1, <3>o DEF Restores
      <4>2. Restored(e).dest = held.img[e]
        BY <2>0, <3>4, <4>1, RenamesTrusted
      <4>3. o.dir = Durable(Restored(e))
        BY <3>o, PrimitiveShows
      <4>4. Now(e)' = Restored(e)
        BY <3>o, <4>3 DEF TypeOK, Durable, Now
      <4> QED BY <3>2, <3>4, <4>2, <4>4
    <3>5. CASE d # e
      <4>1. d \in Batch(held) \ todo
        BY <1>1, <3>2, <3>o, <3>5
      <4>2. \E D : dir' = [dir EXCEPT ![e] = D]
        BY <3>o
      <4>3. Now(d)' = Now(d)
        BY <2>0, <3>5, <4>2 DEF TypeOK, Now
      <4> QED BY <3>2, <3>3, <3>o, <4>1, <4>3 DEF Accounted
    <3> QED BY <3>4, <3>5
  <2>3. CASE RecoverPrepared \/ Abort \/ \E e \in Docs : ReplaceRefused(e)
    <3>1. todo' = Batch(held')
      BY <1>1, <2>3 DEF RecoverPrepared, Abort, ReplaceRefused, StartRollback, Exit, Gone
    <3> QED BY <1>1, <3>1
  <2>4. CASE Outside /\ ~(\E e \in Docs : Classify(e) \/ Restore(e))
    <3>1. UNCHANGED <<pc, held, todo, unresolved>>
      BY <2>4, OutsideKeeps
    <3>2. ~Fingerprint(d) /\ ~Replace(d)
      BY <1>1, <3>1 DEF Fingerprint, Replace
    <3>3. Seen(d)
      BY <1>1, <2>0, <2>4, <3>2, SeenOrigin
    <3>4. Now(d)'.dest = Now(d).dest
      BY <1>1, <2>0, <2>4, <3>2, CleanContent DEF Restores, Replaces
    <3> QED BY <1>1, <3>1, <3>3, <3>4 DEF Accounted
  <2>5. CASE \E e \in Docs : AuthenticateBefore(e)
    <3>1. UNCHANGED <<dir, held, overlaid, dirty, todo, unresolved>> /\ pc = "checkBefore"
      BY <2>5 DEF AuthenticateBefore, Goto, work
    <3>2. Seen(d)
      BY <1>1, <2>0, <3>1 DEF Seen
    <3> QED BY <1>1, <3>1, <3>2 DEF Accounted, Now
  <2> QED BY <1>1, <2>1, <2>2, <2>3, <2>4, <2>5, ControlFlow
<1>2. ASSUME ~PowerLoss, pc' = "cleanup", held'.state = "prepared",
             NEW d \in Batch(held'), Seen(d)'
      PROVE  Now(d)'.dest = held'.img[d]
  <2>0. d \in Docs /\ d \notin dirty' /\ d \notin tainted
    BY <1>2, TaintGrows DEF Batch, Seen
  <2>1. CASE Unpublish
    <3>1. pc = "unpublish" /\ UNCHANGED <<held, overlaid>>
      BY <2>1 DEF Unpublish
    <3>2. d \notin overlaid'
      BY <1>2, <3>1 DEF Suspected, Spared
    <3> QED BY <1>2, <3>2 DEF Seen
  <2>2. CASE Settle
    <3>1. /\ pc = "classify" /\ todo = {} /\ unresolved = {}
          /\ UNCHANGED <<dir, held, overlaid, dirty>>
      BY <1>2, <2>2 DEF Settle, Exit, Gone
    <3>2. Seen(d)
      BY <1>2, <2>0, <3>1 DEF Seen
    <3>3. Now(d).dest = held.img[d]
      BY <1>2, <3>1, <3>2 DEF Accounted
    <3> QED BY <3>1, <3>3 DEF Now
  <2>3. CASE RecoverCommitted
    BY <1>2, <2>3 DEF RecoverCommitted
  <2>4. CASE Mark
    <3>1. held' = Committed(held)
      BY <1>2, <2>4 DEF Mark, Goto
    <3> QED BY <1>2, <3>1, CommittedType DEF TypeOK
  <2>5. CASE At("cleanup") /\ UNCHANGED held
    <3>1. \A e \in Docs : ~Fingerprint(e) /\ ~Replace(e) /\ ~Restore(e) /\ ~Classify(e)
      BY <2>5 DEF Fingerprint, Replace, Restore, Classify
    <3>2. Seen(d)
      BY <1>2, <2>0, <3>1, SeenOrigin
    <3>3. Now(d)'.dest = Now(d).dest
      BY <1>2, <2>0, <3>1, CleanContent DEF Restores, Replaces
    <3> QED BY <1>2, <2>5, <3>2, <3>3 DEF Accounted
  <2> QED BY <1>2, <2>1, <2>2, <2>3, <2>4, <2>5, ToCleanup
<1> QED BY <1>0, <1>1, <1>2 DEF Accounted

\* What reconcile knows of the edits it met, in every behaviour.
THEOREM DoubtInvariant == Spec => []Doubts
<1>1. Init => Suspected /\ Accounted
  BY DEF Init, Suspected, Accounted, At, Rolling
<1>2. Doubts /\ [Next]_vars => Suspected' /\ Accounted'
  BY SuspectedStep, AccountedStep DEF Doubts
<1>3. DInv => TypeOK /\ OnBatch /\ Trust /\ Lineage /\ Branded
  BY DEF DInv
<1>4. Spec => [](TypeOK /\ OnBatch /\ Trust /\ Lineage /\ Branded)
  BY <1>3, DecisionInvariant, PTL
<1>5. /\ TypeOK /\ OnBatch /\ Trust /\ Lineage /\ Branded /\ Suspected /\ Accounted => Doubts
      /\ (TypeOK /\ OnBatch /\ Trust /\ Lineage /\ Branded)' /\ Suspected' /\ Accounted' => Doubts'
  BY DEF Doubts
<1> QED BY <1>1, <1>2, <1>4, <1>5, PTL DEF Spec

\* A rollback removes the journal only when every destination it found edited over
\* an after image holds its before image again: the evidence a repair by hand needs
\* outlives every doubt.
THEOREM DoubtKeepsEvidence == Spec => EvidenceOutlivesDoubt
<1>1. Doubts /\ [Next]_vars =>
        [ByProcess /\ journal = held /\ held.state = "prepared" /\ journal' = None =>
           \A d \in Batch(held) \cap (overlaid \ (dirty \cup tainted)) :
             Now(d).dest = held.img[d]]_vars
  <2> SUFFICES ASSUME Doubts, [Next]_vars, ByProcess, journal = held,
                      held.state = "prepared", journal' = None
               PROVE  \A d \in Batch(held) \cap (overlaid \ (dirty \cup tainted)) :
                        Now(d).dest = held.img[d]
    OBVIOUS
  <2>1. held \notin {None, Foreign}
    BY FilesAssumption DEF Doubts, TypeOK
  <2>2. At("cleanup")
    BY <2>1, OnlyUnlink DEF Doubts, UnlinkJournal
  <2> QED BY <2>2 DEF Doubts, Accounted, Seen
<1> QED BY <1>1, DoubtInvariant, PTL DEF Spec, EvidenceOutlivesDoubt

-----------------------------------------------------------------------------
(***************************************************************************)
(* An incomplete recovery.                                                  *)
(***************************************************************************)

LEMMA PlannedStep ==
  ASSUME TypeOK, Planned, [Next]_vars
  PROVE  Planned'
<1> SUFFICES ASSUME NEW j \in Known', NEW d \in Batch(j)
             PROVE  Reconciled[j.img[d]] # j.img[d]
  BY DEF Planned, Batch
<1>1. CASE \A S \in SUBSET Docs : ~Plan(S)
  <2>1. PICK i \in Known : SameBatch(i, j)
    BY <1>1, KnownKept
  <2> QED BY <2>1 DEF Planned, SameBatch, Batch
<1>2. CASE \E S \in SUBSET Docs : Plan(S)
  <2>1. PICK S \in SUBSET Docs : Plan(S)
    BY <1>2
  <2>2. /\ UNCHANGED root
        /\ held'.img = [e \in Docs |-> IF e \in S THEN Now(e).dest ELSE None]
        /\ \A e \in S : Reconciled[Now(e).dest] # Now(e).dest
    BY <2>1 DEF Plan
  <2>3. j = held' \/ j \in Known
    BY <2>2 DEF Known
  <2>4. CASE j = held'
    BY <2>2, <2>4 DEF Batch
  <2> QED BY <2>3, <2>4 DEF Planned
<1> QED BY <1>1, <1>2

\* What a rolling back process does next.
LEMMA FromRolling ==
  ASSUME [Next]_vars, pc \in Rolling
  PROVE  \/ Settle \/ ReadFault \/ Environment \/ UNCHANGED vars
         \/ \E d \in Docs : Classify(d) \/ AuthenticateBefore(d) \/ Restore(d) \/ RestoreRefused(d)
<1> USE DEF At, Rolling
<1>1. ~Start /\ ~Recovery
  BY DEF Start, Begin, Recovery, RecoverNothing, RecoverRefused, RecoverPrepared,
         RecoverCommitted, Scan
<1>2. ~Preparation
  BY DEF Preparation, Plan, PlanNothing, Publish, Unpublish, Unstaged, Load, Stage, Unstage
<1>3. ~Commit
  BY DEF Commit, Mark, Reset, Fingerprint, Authenticate, Replace, ReplaceRefused, Failed
<1>4. ~Cleanup
  BY DEF Cleanup, UnlinkJournal, RestoreJournal, CleanStage, CleanStageRefused
<1>5. ~Abort
  BY DEF Abort
<1> QED BY <1>1, <1>2, <1>3, <1>4, <1>5 DEF Next, Process, Rollback

\* Only a rollback finds destinations it cannot resolve.
LEMMA NothingUnresolved ==
  ASSUME [Next]_vars, pc \notin Rolling, unresolved = {}
  PROVE  unresolved' = {}
<1> USE DEF At, Rolling, Goto, Gone, Exit, StartRollback, StartCleanup, work
<1>1. CASE Start \/ Recovery
  BY <1>1 DEF Start, Begin, Recovery, RecoverNothing, RecoverRefused, RecoverPrepared,
              RecoverCommitted, Scan
<1>2. CASE PlanNothing \/ Unpublish \/ Unstaged \/ Load
  BY <1>2 DEF PlanNothing, Unpublish, Unstaged, Load
<1>3. CASE \/ Publish \/ \E S \in SUBSET Docs : Plan(S)
           \/ \E x \in Docs \X Roles : Stage(x) \/ Unstage(x)
  BY <1>3 DEF Publish, Plan, Stage, Unstage
<1>4. CASE Commit
  BY <1>4 DEF Commit, Mark, Reset, Fingerprint, Authenticate, Replace, ReplaceRefused, Failed
<1>5. CASE Rollback
  BY <1>5 DEF Rollback, Abort, Settle, Classify, AuthenticateBefore, Restore, RestoreRefused, Failed
<1>6. CASE UnlinkJournal \/ RestoreJournal
  BY <1>6 DEF UnlinkJournal, RestoreJournal, Finish
<1>7. CASE \E x \in Docs \X Roles : CleanStage(x) \/ CleanStageRefused(x)
  BY <1>7 DEF CleanStage, CleanStageRefused, Cleaned
<1>8. CASE ReadFault \/ Environment \/ UNCHANGED vars
  BY <1>8 DEF ReadFault, Environment, Crash, PowerLoss, SetAside, Edit, TamperJournal,
              TamperStage, vars
<1> QED BY <1>1, <1>2, <1>3, <1>4, <1>5, <1>6, <1>7, <1>8
     DEF Next, Process, Preparation, Cleanup

LEMMA UnresolvedStep ==
  ASSUME TypeOK, OnBatch, Recovering, [Next]_vars
  PROVE  /\ unresolved' \subseteq Batch(held') \ todo'
         /\ pc' \notin Rolling => unresolved' = {}
<1> USE DEF At, Rolling
<1>1. CASE pc \notin Rolling
  BY <1>1, NothingUnresolved DEF Recovering
<1>2. CASE pc \in Rolling
  <2>1. CASE \E d \in Docs : Classify(d)
    <3>1. PICK d \in Docs : Classify(d)
      BY <2>1
    <3>2. /\ d \in todo /\ held' = held /\ pc' \in Rolling /\ todo' \subseteq todo
          /\ unresolved' = unresolved \/ (unresolved' = unresolved \cup {d} /\ todo' = todo \ {d})
      BY <1>2, <3>1 DEF Classify, Last
    <3>3. d \in Batch(held)
      BY <1>2, <3>2 DEF OnBatch
    <3> QED BY <3>2, <3>3 DEF Recovering
  <2>2. CASE Settle
    BY <2>2 DEF Settle, Exit, Gone, StartCleanup, Recovering
  <2>3. CASE \E d \in Docs : AuthenticateBefore(d) \/ Restore(d) \/ RestoreRefused(d)
    BY <1>2, <2>3 DEF AuthenticateBefore, Restore, RestoreRefused, Goto, work, Exit, Gone,
                      Recovering
  <2>4. CASE ReadFault \/ Crash \/ PowerLoss
    BY <2>4 DEF ReadFault, Crash, PowerLoss, Exit, Gone
  <2>5. CASE SetAside
    BY <1>2, <2>5 DEF SetAside
  <2>6. CASE Outside
    BY <1>2, <2>6, OutsideKeeps DEF Recovering
  <2> QED BY <1>2, <2>1, <2>2, <2>3, <2>4, <2>5, <2>6, FromRolling DEF Environment, Outside
<1> QED BY <1>1, <1>2

\* Others may take the journal away.
LEMMA JournalOutside ==
  ASSUME TypeOK, Outside
  PROVE  journal' \in {journal, None, Foreign}
<1>1. CASE TamperJournal
  <2>1. PICK j \in {None, Foreign} : root' = Durable([root.now EXCEPT !.journal = j])
    BY <1>1 DEF TamperJournal
  <2>2. root'.now = [root.now EXCEPT !.journal = j]
    BY <2>1 DEF Durable
  <2>3. root'.now.journal = j
    BY <2>2 DEF TypeOK, Directories, RootImages
  <2> QED BY <2>3 DEF journal
<1>2. CASE UNCHANGED root
  BY <1>2 DEF journal
<1> QED BY <1>1, <1>2 DEF Outside, TamperStage, Edit, vars

LEMMA RecoveringStep ==
  ASSUME TypeOK, OnBatch, Trust, Planned, Recovering, [Next]_vars
  PROVE  Recovering'
<1> USE DEF At, Rolling
<1>1. ASSUME pc' \in Rolling, goal' # "abort"
      PROVE  /\ journal' \in {held', None, Foreign}
             /\ held'.state = "prepared" /\ candidates' = Docs
             /\ \A d \in Batch(held') \ (todo' \cup dirty') :
                  Now(d)'.dest # Reconciled[held'.img[d]]
             /\ \A d \in unresolved' \ dirty' : Foreigner(held, d)'
  <2>0. ~PowerLoss /\ Batch(held) \subseteq Docs
    BY <1>1, PowerKeeps DEF Batch
  <2>1. CASE RecoverPrepared
    <3>1. /\ pc = "recover" /\ held' = journal /\ journal.state = "prepared"
          /\ todo' = Batch(held') /\ candidates' = Docs /\ unresolved' = unresolved
          /\ UNCHANGED root
      BY <2>1 DEF RecoverPrepared, StartRollback
    <3> QED BY <3>1 DEF Recovering, journal
  <2>2. CASE Abort \/ \E d \in Docs : ReplaceRefused(d)
    BY <1>1, <2>2 DEF Abort, ReplaceRefused, StartRollback, Exit, Gone
  <2>3. CASE \E e \in Docs : Classify(e)
    <3>1. PICK e \in Docs : Classify(e)
      BY <2>3
    <3>2. /\ pc = "classify" /\ UNCHANGED <<dir, root, goal, held, candidates>>
          /\ dirty' = dirty \ {e}
      BY <3>1 DEF Classify
    <3>3. ASSUME NEW d \in Batch(held) \ (todo' \cup dirty')
          PROVE  Now(d).dest # Reconciled[held.img[d]]
      <4>1. CASE d = e
        BY <3>1, <3>3, <4>1 DEF Classify, Image, Last
      <4>2. CASE d # e
        BY <1>1, <3>1, <3>2, <3>3, <4>2 DEF Classify, Recovering
      <4> QED BY <4>1, <4>2
    <3>4. ASSUME NEW d \in unresolved' \ dirty'
          PROVE  Foreigner(held, d)
      <4>1. CASE d = e
        <5>1. e \in todo
          BY <3>1 DEF Classify, Last
        <5>2. e \notin unresolved
          BY <5>1 DEF Recovering
        <5> QED BY <3>1, <3>4, <4>1, <5>2 DEF Classify, Image, Foreigner
      <4>2. CASE d # e
        BY <1>1, <3>1, <3>2, <3>4, <4>2 DEF Classify, Recovering
      <4> QED BY <4>1, <4>2
    <3> QED BY <1>1, <3>2, <3>3, <3>4 DEF Recovering, journal, Now, Foreigner
  <2>4. CASE \E e \in Docs : Restore(e)
    <3>1. PICK e \in Docs : Restore(e)
      BY <2>4
    <3>3. PICK o \in Primitive(dir[e], Restored(e)) :
            /\ dir' = [dir EXCEPT ![e] = o.dir]
            /\ Present(held, <<e, "before">>) \/ (o.ok = FALSE /\ o.dir = dir[e])
            /\ o.ok /\ todo' = todo \ {e} /\ UNCHANGED <<goal, candidates, unresolved>>
      BY <1>1, <3>1, RestoreForms DEF Exit, Gone
    <3>2. /\ pc = "restore" /\ UNCHANGED <<root, goal, held, dirty, candidates, unresolved>>
          /\ todo' = todo \ {e} /\ e \in todo
      BY <3>1, <3>3 DEF Restore, Last
    <3>4. o.dir = Durable(Restored(e))
      BY <3>3, PrimitiveShows
    <3>5. Now(e)' = Restored(e) /\ Restores(e)
      BY <3>1, <3>3, <3>4 DEF TypeOK, Durable, Now, Restores
    <3>6. Now(e)'.dest \in {held.img[e], Torn} /\ held.img[e] \in Bytes
      BY <3>5, RenamesTrusted
    <3>7. \A d \in Docs \ {e} : Now(d)' = Now(d)
      BY <3>3 DEF TypeOK, Now
    <3>8. ASSUME NEW d \in Batch(held) \ (todo' \cup dirty)
          PROVE  Now(d)'.dest # Reconciled[held.img[d]]
      <4>1. CASE d = e
        <5>1. Reconciled[held.img[d]] \notin {held.img[d], Torn}
          BY <3>6, <4>1, BytesAssumption DEF Planned, Known
        <5> QED BY <3>6, <4>1, <5>1
      <4>2. CASE d # e
        BY <1>1, <2>0, <3>2, <3>7, <3>8, <4>2 DEF Recovering
      <4> QED BY <4>1, <4>2
    <3>9. ASSUME NEW d \in unresolved \ dirty
          PROVE  Foreigner(held, d)'
      <4>1. d # e /\ d \in Docs
        BY <2>0, <3>2 DEF Recovering
      <4>2. Foreigner(held, d)
        BY <1>1, <3>2, <3>9 DEF Recovering
      <4> QED BY <3>2, <3>7, <4>1, <4>2 DEF Foreigner
    <3> QED BY <1>1, <3>2, <3>8, <3>9 DEF Recovering, journal
  <2>5. CASE Outside /\ ~(\E e \in Docs : Classify(e) \/ Restore(e))
    <3>1. UNCHANGED <<pc, goal, todo, candidates, unresolved, held>>
      BY <2>5, OutsideKeeps
    <3>2. journal' \in {held', None, Foreign}
      BY <1>1, <2>5, <3>1, JournalOutside DEF Recovering
    <3>3. dirty \subseteq dirty'
      BY <2>5 DEF Outside, TamperJournal, TamperStage, Edit, vars
    <3>4. ASSUME NEW d \in Docs, d \notin dirty' PROVE Now(d)'.dest = Now(d).dest
      <4>1. ~Replace(d) /\ ~Restore(d)
        BY <1>1, <2>5, <3>1 DEF Replace
      <4> QED BY <2>0, <3>4, <4>1, CleanContent DEF Restores, Replaces
    <3>5. unresolved \subseteq Docs
      BY DEF TypeOK
    <3> QED BY <1>1, <2>0, <3>1, <3>2, <3>3, <3>4, <3>5 DEF Recovering, Foreigner
  <2>6. CASE \E e \in Docs : AuthenticateBefore(e)
    <3>1. /\ UNCHANGED <<dir, root, goal, held, dirty, todo, candidates, unresolved>>
          /\ pc = "checkBefore"
      BY <2>6 DEF AuthenticateBefore, Goto, work
    <3> QED BY <1>1, <3>1 DEF Recovering, Foreigner, Now, journal
  <2> QED BY <1>1, <2>0, <2>1, <2>2, <2>3, <2>4, <2>5, <2>6, ControlFlow
<1> QED BY <1>1, UnresolvedStep DEF Recovering

\* Where a process may stand while the last one's report is that recovery is
\* incomplete.
Waiting == {"idle", "recover", "scan", "plan", "classify"}

\* From there it changes no file.
LEMMA WaitingIsIdle ==
  ASSUME TypeOK, [Next]_vars, ByProcess, pc \in Waiting
  PROVE  UNCHANGED <<dir, root>>
<1> USE DEF At, Waiting
<1>t. \A k \in Events : spent[k] \in Nat
  BY DEF TypeOK
<1>1. CASE Start \/ Recovery
  BY <1>1 DEF Start, Begin, Recovery, RecoverNothing, RecoverRefused, RecoverPrepared,
              RecoverCommitted, Scan
<1>2. CASE Preparation
  BY <1>2 DEF Preparation, Plan, PlanNothing, Publish, Unpublish, Unstaged, Load, Stage, Unstage
<1>3. CASE Commit
  BY <1>3 DEF Commit, Mark, Reset, Fingerprint, Authenticate, Replace, ReplaceRefused, Failed
<1>4. CASE Rollback
  BY <1>4 DEF Rollback, Abort, Settle, Classify, AuthenticateBefore, Restore, RestoreRefused, Failed
<1>5. CASE Cleanup
  BY <1>5 DEF Cleanup, UnlinkJournal, RestoreJournal, CleanStage, CleanStageRefused
<1>6. CASE ReadFault \/ Crash \/ UNCHANGED vars
  BY <1>6 DEF ReadFault, Crash, vars
<1>7. ASSUME NEW k \in {"outages", "edits", "tampers", "repairs"}, Spend(k) PROVE FALSE
  <2>1. k \in Events /\ spent' = [spent EXCEPT ![k] = @ + 1]
    BY <1>7 DEF Spend, Events
  <2>2. spent'[k] = spent[k] + 1
    BY <2>1 DEF TypeOK
  <2> QED BY <1>t, <2>1, <2>2 DEF ByProcess
<1>8. CASE Environment /\ ~Crash
  BY <1>7, <1>8 DEF Environment, PowerLoss, SetAside, Edit, TamperJournal, TamperStage
<1> QED BY <1>1, <1>2, <1>3, <1>4, <1>5, <1>6, <1>8 DEF Next, Process

\* ... and goes on only by these steps, until something else is reported.
LEMMA FromWaiting ==
  ASSUME [Next]_vars, pc \in Waiting, report' = "incomplete", report = "incomplete"
  PROVE  \/ Start \/ RecoverNothing \/ RecoverPrepared \/ RecoverCommitted \/ Scan
         \/ Settle \/ PlanNothing \/ Crash \/ UNCHANGED vars
         \/ \E d \in Docs : Classify(d)
<1> USE DEF At, Waiting
<1>1. CASE Start \/ Recovery
  BY <1>1 DEF Recovery, RecoverRefused, Exit
<1>2. CASE Preparation
  BY <1>2 DEF Preparation, Plan, Publish, Unpublish, Unstaged, Load, Stage, Unstage
<1>3. CASE Commit
  BY <1>3 DEF Commit, Mark, Reset, Fingerprint, Authenticate, Replace, ReplaceRefused, Failed
<1>4. CASE Rollback
  BY <1>4 DEF Rollback, Abort, AuthenticateBefore, Restore, RestoreRefused
<1>5. CASE Cleanup
  BY <1>5 DEF Cleanup, UnlinkJournal, RestoreJournal, CleanStage, CleanStageRefused
<1>6. CASE ReadFault \/ Environment
  BY <1>6 DEF ReadFault, Environment, PowerLoss, SetAside, Edit, TamperJournal, TamperStage,
              Outdated, Exit
<1> QED BY <1>1, <1>2, <1>3, <1>4, <1>5, <1>6 DEF Next, Process

\* Two steps report that recovery is incomplete.
LEMMA IncompleteOrigin ==
  ASSUME [Next]_vars, report' = "incomplete", report # "incomplete"
  PROVE  /\ pc' = "idle" /\ UNCHANGED <<dir, root, held>>
         /\ \/ Scan
            \/ /\ At("classify") /\ todo = {} /\ unresolved # {}
               /\ goal # "abort" /\ dirty \cap Batch(held) = {}
<1> USE DEF At, Gone, Exit, Goto
<1>1. CASE Start \/ RecoverNothing \/ RecoverRefused \/ RecoverPrepared \/ RecoverCommitted
  BY <1>1 DEF Start, Begin, RecoverNothing, RecoverRefused, RecoverPrepared, RecoverCommitted
<1>2. CASE Scan
  BY <1>2 DEF Scan
<1>3. CASE Preparation
  BY <1>3 DEF Preparation, Plan, PlanNothing, Publish, Unpublish, Unstaged, Load, Stage, Unstage
<1>4. CASE Commit
  BY <1>4 DEF Commit, Mark, Reset, Fingerprint, Authenticate, Replace, ReplaceRefused, Failed
<1>5. CASE Settle
  BY <1>5 DEF Settle, Unresolved
<1>6. CASE \/ Abort
           \/ \E d \in Docs : \/ Classify(d) \/ AuthenticateBefore(d)
                            \/ Restore(d) \/ RestoreRefused(d)
  BY <1>6 DEF Abort, Classify, AuthenticateBefore, Restore, RestoreRefused, Failed
<1>7. CASE UnlinkJournal \/ RestoreJournal
  BY <1>7 DEF UnlinkJournal, RestoreJournal, Finish
<1>8. CASE \E x \in Docs \X Roles : CleanStage(x) \/ CleanStageRefused(x)
  BY <1>8 DEF CleanStage, CleanStageRefused, Cleaned
<1>9. CASE ReadFault \/ Environment \/ UNCHANGED vars
  BY <1>9 DEF ReadFault, Environment, Crash, PowerLoss, SetAside, Edit, TamperJournal,
              TamperStage, Outdated, vars
<1> QED BY <1>1, <1>2, <1>3, <1>4, <1>5, <1>6, <1>7, <1>8, <1>9
     DEF Next, Process, Recovery, Rollback, Cleanup

LEMMA ClearedStep ==
  ASSUME TypeOK, Cleared, [Next]_vars
  PROVE  Cleared'
<1> USE DEF At
<1> SUFFICES ASSUME pc' = "scan" PROVE journal' \in {None, Foreign}
  BY DEF Cleared
<1>1. CASE Outside
  BY <1>1, OutsideKeeps, JournalOutside DEF Cleared
<1>2. CASE RecoverNothing
  BY <1>2 DEF RecoverNothing, journal
<1>3. CASE UnlinkJournal
  <2>1. journal = held
    BY <1>3 DEF UnlinkJournal, Exit, Gone
  <2>2. PICK o \in Primitive(root, [root.now EXCEPT !.journal = None]) : root' = o.dir /\ o.ok
    BY <1>3, <2>1 DEF UnlinkJournal, Exit, Gone, Goto
  <2>3. root' = Durable([root.now EXCEPT !.journal = None])
    BY <2>2, PrimitiveShows
  <2> QED BY <2>3 DEF Durable, journal, TypeOK, Directories, RootImages
<1> QED BY <1>1, <1>2, <1>3, ControlFlow

LEMMA GivenUpStep ==
  ASSUME TypeOK, OnBatch, Planned, Recovering, Cleared, GivenUp, [Next]_vars
  PROVE  GivenUp'
<1> USE DEF At, Rolling, Rest
<1> SUFFICES ASSUME report' = "incomplete" PROVE GivenUp'
  BY DEF GivenUp
<1>s. ASSUME UNCHANGED dir, NEW j, Stuck(j) PROVE Stuck(j)'
  BY <1>s DEF Stuck, Foreigner, Now, Batch
<1>1. CASE report # "incomplete"
  <2>1. pc' = "idle" /\ UNCHANGED <<dir, root, held>>
    BY <1>1, IncompleteOrigin
  <2>2. CASE journal \in {None, Foreign}
    BY <2>1, <2>2 DEF GivenUp, journal
  <2>3. CASE journal \notin {None, Foreign}
    <3>1. ~Scan
      BY <2>3 DEF Scan, Cleared
    <3>2. /\ pc = "classify" /\ todo = {} /\ unresolved # {}
          /\ goal # "abort" /\ dirty \cap Batch(held) = {}
      BY <1>1, <3>1, IncompleteOrigin
    <3>3. journal = held /\ held.state = "prepared"
      BY <2>3, <3>2 DEF Recovering
    <3>4. \A d \in Batch(held) : Now(d).dest # Reconciled[held.img[d]]
      BY <3>2 DEF Recovering
    <3>5. PICK d \in unresolved : d \in Batch(held)
      BY <3>2 DEF Recovering
    <3>6. Foreigner(held, d)
      BY <3>2, <3>5 DEF Recovering
    <3>7. Stuck(journal)
      BY <3>3, <3>4, <3>5, <3>6 DEF Stuck
    <3>8. Stuck(journal)' /\ Real(journal)'
      BY <1>s, <2>1, <2>3, <3>7 DEF Real, journal
    <3> QED BY <2>1, <3>8 DEF GivenUp
  <2> QED BY <2>2, <2>3
<1>2. CASE report = "incomplete"
  <2>0. pc \in Waiting
    BY <1>2 DEF GivenUp, Waiting
  <2>a. \/ Start \/ RecoverNothing \/ RecoverPrepared \/ RecoverCommitted \/ Scan
        \/ Settle \/ PlanNothing \/ Crash \/ UNCHANGED vars
        \/ \E d \in Docs : Classify(d)
    BY <1>2, <2>0, FromWaiting
  <2>b. UNCHANGED <<dir, root>>
    BY <2>a DEF Start, Begin, RecoverNothing, RecoverPrepared, RecoverCommitted, Scan, Settle,
                PlanNothing, Crash, Classify, vars
  <2>1. CASE journal \in {None, Foreign}
    <3>1. pc \in Rest
      BY <1>2, <2>1 DEF GivenUp, Real
    <3>2. pc' \in Rest
      BY <2>1, <2>a, <3>1 DEF Start, Begin, RecoverNothing, RecoverPrepared, RecoverCommitted,
                              Scan, Settle, PlanNothing, Crash, Classify, vars, Goto, Exit, Gone
    <3> QED BY <2>1, <2>b, <3>2 DEF GivenUp, journal
  <2>2. CASE journal \notin {None, Foreign}
    <3>1. /\ Stuck(journal)
          /\ pc \in {"idle", "recover", "classify"}
          /\ At("classify") =>
               /\ held = journal /\ candidates = Docs
               /\ \A d \in Batch(held) : Foreigner(held, d) => d \in todo \cup unresolved
      BY <1>2, <2>2 DEF GivenUp
    <3>2. Stuck(journal)' /\ Real(journal)' /\ journal' = journal
      BY <1>s, <2>2, <2>b, <3>1 DEF Real, journal
    <3>3. CASE RecoverPrepared
      <4>1. held' = journal /\ candidates' = Docs /\ todo' = Batch(held') /\ pc' = "classify"
        BY <3>3 DEF RecoverPrepared, StartRollback
      <4> QED BY <3>2, <4>1 DEF GivenUp
    <3>4. CASE \E d \in Docs : Classify(d)
      <4>1. PICK e \in Docs : Classify(e)
        BY <3>4
      <4>2. /\ pc = "classify" /\ e \in todo /\ UNCHANGED <<held, candidates>>
            /\ unresolved \subseteq unresolved' /\ todo \ {e} \subseteq todo'
        BY <4>1 DEF Classify, Last
      <4>3. e \in Batch(held) /\ held = journal /\ candidates = Docs
        BY <3>1, <4>2 DEF OnBatch
      <4>4. Now(e).dest # Image(held, <<e, "after">>)
        BY <3>1, <4>3 DEF Stuck, Image
      <4>5. pc' = pc /\ (Foreigner(held, e) => e \in unresolved')
        BY <4>1, <4>3, <4>4 DEF Classify, Foreigner
      <4>6. \A d \in Batch(held) : Foreigner(held, d) => d \in todo' \cup unresolved'
        BY <3>1, <4>2, <4>5
      <4>7. \A d \in Batch(held') : Foreigner(held, d)' => d \in todo' \cup unresolved'
        BY <4>2, <4>6, <2>b DEF Foreigner, Now
      <4> QED BY <3>2, <4>2, <4>3, <4>5, <4>7 DEF GivenUp
    <3>5. CASE Settle
      <4>1. pc = "classify" /\ todo = {}
        BY <3>5 DEF Settle
      <4>2. PICK d \in Batch(held) : Foreigner(held, d)
        BY <3>1, <4>1 DEF Stuck
      <4>3. unresolved # {}
        BY <3>1, <4>1, <4>2
      <4>4. pc' = "idle"
        BY <3>5, <4>3 DEF Settle, Exit, Gone
      <4> QED BY <3>2, <4>4 DEF GivenUp
    <3>6. CASE UNCHANGED vars
      <4>1. UNCHANGED <<pc, held, candidates, todo, unresolved>>
        BY <3>6 DEF vars
      <4>2. \A d : Foreigner(held, d)' <=> Foreigner(held, d)
        BY <2>b, <4>1 DEF Foreigner, Now
      <4> QED BY <3>1, <3>2, <4>1, <4>2 DEF GivenUp
    <3>7. CASE Start \/ PlanNothing \/ Crash
      <4>1. pc' \in {"idle", "recover"}
        BY <3>7 DEF Start, Begin, PlanNothing, Crash, Exit, Gone
      <4> QED BY <3>2, <4>1 DEF GivenUp
    <3>8. ~RecoverNothing /\ ~Scan
      BY <2>2, <3>1 DEF RecoverNothing, Scan
    <3>9. ~RecoverCommitted
      BY <3>1 DEF RecoverCommitted, Stuck
    <3> QED BY <2>a, <3>3, <3>4, <3>5, <3>6, <3>7, <3>8, <3>9
  <2> QED BY <2>1, <2>2
<1> QED BY <1>1, <1>2

\* Where recoveries get stuck, in every behaviour.
THEOREM ImpasseInvariant == Spec => []Impasse
<1>1. Init => Impasse
  <2> SUFFICES ASSUME Init PROVE Impasse
    OBVIOUS
  <2>1. TypeOK /\ OnBatch /\ Trust
    BY InitTypes, InitTrust
  <2>2. /\ pc = "idle" /\ report = "none" /\ unresolved = {}
        /\ held.img = [d \in Docs |-> None]
        /\ root = Durable([journal |-> None, helpers |-> 0])
    BY DEF Init
  <2>3. Known = {held} /\ Batch(held) = {}
    BY <2>2 DEF Known, Durable, Batch
  <2>4. Planned
    BY <2>3 DEF Planned
  <2> QED BY <2>1, <2>2, <2>4 DEF Impasse, Recovering, Cleared, GivenUp, Rolling, At
<1>2. Impasse /\ [Next]_vars => Impasse'
  <2> SUFFICES ASSUME Impasse, [Next]_vars PROVE Impasse'
    OBVIOUS
  <2>1. TypeOK' /\ OnBatch' /\ Trust'
    BY TypeStep, TrustStep DEF Impasse
  <2>2. Planned' /\ Recovering' /\ Cleared' /\ GivenUp'
    BY PlannedStep, RecoveringStep, ClearedStep, GivenUpStep DEF Impasse
  <2> QED BY <2>1, <2>2 DEF Impasse
<1> QED BY <1>1, <1>2, PTL DEF Spec

\* Recovery is idempotent while a destination is unresolved: after an incomplete
\* recovery no run, and no crash of one, changes a file until somebody else does.
THEOREM IncompleteIsFinal == Spec => IncompleteIsIdempotent
<1>1. Impasse /\ [Next]_vars =>
        [report = "incomplete" /\ ByProcess => UNCHANGED <<dir, root>>]_vars
  <2> SUFFICES ASSUME Impasse, [Next]_vars, report = "incomplete", ByProcess
               PROVE  UNCHANGED <<dir, root>>
    OBVIOUS
  <2>1. pc \in Waiting
    BY DEF Impasse, GivenUp, Rest, Waiting
  <2> QED BY <2>1, WaitingIsIdle DEF Impasse
<1> QED BY <1>1, ImpasseInvariant, PTL DEF Spec, IncompleteIsIdempotent

=============================================================================
