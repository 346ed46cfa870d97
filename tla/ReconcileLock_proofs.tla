-------------------------- MODULE ReconcileLock_proofs --------------------------
(***************************************************************************)
(* Proofs about sessions, for any number of processes, threads and          *)
(* directories and any number of moves, faults and kills: a lease is        *)
(* exclusive, a journal changes under its directory's lock, a plan is made   *)
(* from a recovered tree, and a success leaves nothing behind.               *)
(***************************************************************************)
EXTENDS ReconcileLock, TLAPS

Inside == InBody \cup {"deactivate"}
Opened == Inside \cup {"claim", "inspect"}
Over == {"leave", "deactivate", "unlock", "close", "report", "done"}

\* The types of TypeOK.
Types ==
  /\ root \in Dirs /\ strayed \subseteq Dirs /\ committed \subseteq Procs
  /\ holder \in [Dirs -> Procs \cup {None}]
  /\ journal \in [Dirs -> Procs \cup {None}]
  /\ mode \in [Procs -> Modes] /\ pc \in [Procs -> Phases]
  /\ fd \in [Procs -> Dirs \cup {None}]
  /\ cap \in [Procs -> Capability \cup {None}]
  /\ op \in [Procs -> [Callers -> {"none", "checked"} \cup Leased]]
  /\ failures \in [Procs -> SUBSET {"release", "close"}]
  /\ raised \in [Procs -> Errors] /\ error \in [Procs -> Errors]
  /\ moved \in [Procs -> [Callers -> BOOLEAN]]

\* From the claim to the end of the body the open descriptor holds the lock, and
\* the capability, while it is active, is of that directory.
Holds(p) ==
  /\ pc[p] = "claim" => fd[p] \in Dirs
  /\ pc[p] \in Inside \cup {"inspect"} => fd[p] \in Dirs /\ holder[fd[p]] = p
  /\ pc[p] \in Inside => cap[p] # None /\ cap[p].dir = fd[p]
  /\ pc[p] \in {"idle", "claim", "inspect", "gone"} => cap[p] = None
  /\ cap[p] # None => (cap[p].active <=> pc[p] \in Inside)

\* A lease is claimed from a capability that no other operation uses.
Claimed(p) ==
  \A c \in Callers :
    /\ op[p][c] # "none" => cap[p] # None
    /\ op[p][c] \in Leased =>
         /\ cap[p].in_use
         /\ \A b \in Callers \ {c} : op[p][b] \notin Leased
    /\ c # Main => op[p][c] \notin {"published", "marked"}

\* How far the session is while the main thread has an operation under way.
Stage(p) ==
  /\ op[p][Main] \in {"checked", "leased"} => pc[p] \in {"recover", "commit"}
  /\ op[p][Main] \in {"published", "marked"} => pc[p] = "commit"
  /\ op[p][Main] = "returning" => pc[p] \in {"load", "leave", "deactivate"}

\* As long as the path did not move, it names the directory that is open.
Stays(p) ==
  pc[p] \in Opened => \A c \in Callers : ~moved[p][c] => fd[p] = root

\* What PlansWithoutJournal says of one process.
Plans(p) ==
  (/\ pc[p] \in {"load", "plan"} \/ (pc[p] = "commit" /\ Idle(p, Main))
   /\ ~moved[p][Main] /\ root \notin strayed)
  => journal[root] = None

\* A journal of a running session is in the directory it has locked, unless it
\* was written to another one after a move.
Owns(p) ==
  /\ pc[p] \in {"idle", "claim", "inspect"} => \A d \in Dirs : journal[d] # p
  /\ pc[p] \in Inside => \A d \in Dirs : journal[d] = p /\ d \notin strayed => d = fd[p]

\* What is left behind by a session that ends.
Ends(p) ==
  /\ pc[p] \in {"report", "done"} /\ failures[p] = {} =>
       fd[p] = None /\ \A d \in Dirs : holder[d] # p
  /\ pc[p] = "done" => error[p] = IF raised[p] = "none" /\ failures[p] # {}
                                   THEN "cleanup" ELSE raised[p]
  /\ p \in committed =>
       /\ pc[p] \in Over /\ cap[p] # None
       /\ strayed = {} => journal[cap[p].dir] # p

LockInv ==
  /\ Types
  /\ \A p \in Procs : Holds(p) /\ Claimed(p) /\ Stage(p) /\ Stays(p)
  /\ \A p \in Procs : Plans(p) /\ Owns(p) /\ Ends(p)

Steps(p) == Session(p) \/ Kill(p)

(***************************************************************************)
(* Operations.                                                              *)
(***************************************************************************)
\* An operation's step changes the operation of one caller.
LEMMA SetOpFacts ==
  ASSUME Types, NEW p \in Procs, NEW c \in Callers, NEW s \in {"none", "checked"} \cup Leased,
         SetOp(p, c, s)
  PROVE  /\ op' \in [Procs -> [Callers -> {"none", "checked"} \cup Leased]]
         /\ op'[p][c] = s
         /\ \A b \in Callers \ {c} : op'[p][b] = op[p][b]
         /\ \A q \in Procs \ {p} : op'[q] = op[q]
<1>1. op \in [Procs -> [Callers -> {"none", "checked"} \cup Leased]]
  BY DEF Types
<1>2. op' = [op EXCEPT ![p] = [op[p] EXCEPT ![c] = s]]
  BY DEF SetOp
<1>3. op[p] \in [Callers -> {"none", "checked"} \cup Leased]
  BY <1>1
<1>4. [op[p] EXCEPT ![c] = s] \in [Callers -> {"none", "checked"} \cup Leased]
  BY <1>3
<1> QED BY <1>1, <1>2, <1>3, <1>4

\* Writing to the directory the path names keeps the types.
LEMMA TouchTypes ==
  ASSUME Types, NEW p \in Procs, NEW c \in Callers, NEW j \in Procs \cup {None},
         Touch(p, c, j)
  PROVE  /\ root' \in Dirs /\ strayed' \subseteq Dirs
         /\ holder' \in [Dirs -> Procs \cup {None}]
         /\ journal' \in [Dirs -> Procs \cup {None}]
  BY DEF Types, Touch

LEMMA FreedTypes ==
  ASSUME Types, NEW p \in Procs
  PROVE  Freed(p) \in [Dirs -> Procs \cup {None}]
  BY DEF Types, Freed

\* An exception keeps the types.
LEMMA RaiseTypes ==
  ASSUME Types, NEW p \in Procs, NEW e \in Errors, Raise(p, e)
  PROVE  /\ pc' \in [Procs -> Phases] /\ failures' = failures
         /\ raised' \in [Procs -> Errors] /\ error' \in [Procs -> Errors]
  BY DEF Types, Raise, Phases

Local(p) == Holds(p) /\ Claimed(p) /\ Stage(p) /\ Stays(p) /\ Plans(p) /\ Owns(p) /\ Ends(p)

LEMMA OpenStep ==
  ASSUME LockInv, NEW p \in Procs, NEW m \in Modes, Open(p, m)
  PROVE  Types' /\ Local(p)'
<1>0. Types /\ Holds(p) /\ Claimed(p) /\ Stage(p) /\ Stays(p) /\ Plans(p) /\ Owns(p) /\ Ends(p)
  BY DEF LockInv
<1> USE LockAssumption DEF Types, Phases, InBody, Inside, Opened, Over, Errors, Leased, Modes, Idle,
        world, counts, ending, Open
<1>1. Types'
  BY <1>0 DEF Holds, Capability
<1>2. Holds(p)'
  BY <1>0 DEF Holds, Capability
<1>3. Claimed(p)'
  BY <1>0 DEF Claimed, Stage, Holds
<1>4. Stage(p)'
  BY <1>0 DEF Stage, Claimed, Holds
<1>5. Stays(p)'
  BY <1>0 DEF Stays, Holds
<1>6. Plans(p)'
  BY <1>0 DEF Plans, Stage
<1>7. Owns(p)'
  BY <1>0 DEF Owns, Holds
<1>8. Ends(p)'
  BY <1>0 DEF Ends, Holds
<1> QED BY <1>1, <1>2, <1>3, <1>4, <1>5, <1>6, <1>7, <1>8 DEF Local

LEMMA ClaimStep ==
  ASSUME LockInv, NEW p \in Procs, Claim(p)
  PROVE  Types' /\ Local(p)'
<1>0. Types /\ Holds(p) /\ Claimed(p) /\ Stage(p) /\ Stays(p) /\ Plans(p) /\ Owns(p) /\ Ends(p)
  BY DEF LockInv
<1> USE LockAssumption DEF Types, Phases, InBody, Inside, Opened, Over, Errors, Leased, Modes, Idle,
        world, counts, ending, Claim
<1>1. Types'
  BY <1>0 DEF Holds, Capability
<1>2. Holds(p)'
  BY <1>0 DEF Holds, Capability
<1>3. Claimed(p)'
  BY <1>0 DEF Claimed, Stage, Holds
<1>4. Stage(p)'
  BY <1>0 DEF Stage, Claimed, Holds
<1>5. Stays(p)'
  BY <1>0 DEF Stays, Holds
<1>6. Plans(p)'
  BY <1>0 DEF Plans, Stage
<1>7. Owns(p)'
  BY <1>0 DEF Owns, Holds
<1>8. Ends(p)'
  BY <1>0 DEF Ends, Holds
<1> QED BY <1>1, <1>2, <1>3, <1>4, <1>5, <1>6, <1>7, <1>8 DEF Local

LEMMA BusyStep ==
  ASSUME LockInv, NEW p \in Procs, Busy(p)
  PROVE  Types' /\ Local(p)'
<1>0. Types /\ Holds(p) /\ Claimed(p) /\ Stage(p) /\ Stays(p) /\ Plans(p) /\ Owns(p) /\ Ends(p)
  BY DEF LockInv
<1> USE LockAssumption DEF Types, Phases, InBody, Inside, Opened, Over, Errors, Leased, Modes, Idle,
        world, counts, ending, Busy
<1>1. Types'
  BY <1>0 DEF Holds, Capability
<1>2. Holds(p)'
  BY <1>0 DEF Holds, Capability
<1>3. Claimed(p)'
  BY <1>0 DEF Claimed, Stage, Holds
<1>4. Stage(p)'
  BY <1>0 DEF Stage, Claimed, Holds
<1>5. Stays(p)'
  BY <1>0 DEF Stays, Holds
<1>6. Plans(p)'
  BY <1>0 DEF Plans, Stage
<1>7. Owns(p)'
  BY <1>0 DEF Owns, Holds
<1>8. Ends(p)'
  BY <1>0 DEF Ends, Holds
<1> QED BY <1>1, <1>2, <1>3, <1>4, <1>5, <1>6, <1>7, <1>8 DEF Local

LEMMA InspectStep ==
  ASSUME LockInv, NEW p \in Procs, Inspect(p)
  PROVE  Types' /\ Local(p)'
<1>0. Types /\ Holds(p) /\ Claimed(p) /\ Stage(p) /\ Stays(p) /\ Plans(p) /\ Owns(p) /\ Ends(p)
  BY DEF LockInv
<1> USE LockAssumption DEF Types, Phases, InBody, Inside, Opened, Over, Errors, Leased, Modes, Idle,
        world, counts, ending, Inspect
<1>a. [dir |-> fd[p], path |-> Resolved[root], active |-> TRUE, in_use |-> FALSE] \in Capability
  BY <1>0 DEF Holds, Capability
<1>b. cap'[p] # None /\ cap'[p].dir = fd[p]
  BY <1>0, <1>a
<1>1. Types'
  BY <1>0, <1>a
<1>2. Holds(p)'
  BY <1>0, <1>b DEF Holds
<1>3. Claimed(p)'
  BY <1>0 DEF Claimed, Stage, Holds
<1>4. Stage(p)'
  BY <1>0 DEF Stage, Claimed, Holds
<1>5. Stays(p)'
  BY <1>0 DEF Stays, Holds
<1>6. Plans(p)'
  BY <1>0 DEF Plans, Stage
<1>7. Owns(p)'
  BY <1>0 DEF Owns, Holds
<1>8. Ends(p)'
  BY <1>0 DEF Ends, Holds
<1> QED BY <1>1, <1>2, <1>3, <1>4, <1>5, <1>6, <1>7, <1>8 DEF Local

LEMMA SetupFailsStep ==
  ASSUME LockInv, NEW p \in Procs, SetupFails(p)
  PROVE  Types' /\ Local(p)'
<1>0. Types /\ Holds(p) /\ Claimed(p) /\ Stage(p) /\ Stays(p) /\ Plans(p) /\ Owns(p) /\ Ends(p)
  BY DEF LockInv
<1> USE LockAssumption DEF Types, Phases, InBody, Inside, Opened, Over, Errors, Leased, Modes, Idle,
        world, counts, ending, SetupFails, Fault
<1>1. Types'
  <2>1. pc' \in [Procs -> Phases]
    BY <1>0
  <2> QED BY <1>0, <2>1
<1>2. Holds(p)'
  BY <1>0 DEF Holds, Capability
<1>3. Claimed(p)'
  BY <1>0 DEF Claimed, Stage, Holds
<1>4. Stage(p)'
  BY <1>0 DEF Stage, Claimed, Holds
<1>5. Stays(p)'
  BY <1>0 DEF Stays, Holds
<1>6. Plans(p)'
  BY <1>0 DEF Plans, Stage
<1>7. Owns(p)'
  BY <1>0 DEF Owns, Holds
<1>8. Ends(p)'
  BY <1>0 DEF Ends, Holds
<1> QED BY <1>1, <1>2, <1>3, <1>4, <1>5, <1>6, <1>7, <1>8 DEF Local

LEMMA EnsureDryRunSafeStep ==
  ASSUME LockInv, NEW p \in Procs, EnsureDryRunSafe(p)
  PROVE  Types' /\ Local(p)'
<1>0. Types /\ Holds(p) /\ Claimed(p) /\ Stage(p) /\ Stays(p) /\ Plans(p) /\ Owns(p) /\ Ends(p)
  BY DEF LockInv
<1> USE LockAssumption DEF Types, Phases, InBody, Inside, Opened, Over, Errors, Leased, Modes, Idle,
        world, counts, ending, EnsureDryRunSafe, Raise
<1>1. Types'
  <2>1. CASE journal[root] = None
    BY <1>0, <2>1
  <2>2. CASE journal[root] # None
    BY <1>0, <2>2
  <2> QED BY <2>1, <2>2
<1>2. Holds(p)'
  BY <1>0 DEF Holds, Capability
<1>3. Claimed(p)'
  BY <1>0 DEF Claimed, Stage, Holds
<1>4. Stage(p)'
  BY <1>0 DEF Stage, Claimed, Holds
<1>5. Stays(p)'
  BY <1>0 DEF Stays, Holds
<1>6. Plans(p)'
  BY <1>0 DEF Plans, Stage
<1>7. Owns(p)'
  BY <1>0 DEF Owns, Holds
<1>8. Ends(p)'
  BY <1>0 DEF Ends, Holds
<1> QED BY <1>1, <1>2, <1>3, <1>4, <1>5, <1>6, <1>7, <1>8 DEF Local

LEMMA LoadStep ==
  ASSUME LockInv, NEW p \in Procs, Load(p)
  PROVE  Types' /\ Local(p)'
<1>0. Types /\ Holds(p) /\ Claimed(p) /\ Stage(p) /\ Stays(p) /\ Plans(p) /\ Owns(p) /\ Ends(p)
  BY DEF LockInv
<1> USE LockAssumption DEF Types, Phases, InBody, Inside, Opened, Over, Errors, Leased, Modes, Idle,
        world, counts, ending, Load
<1>1. Types'
  BY <1>0 DEF Holds, Capability
<1>2. Holds(p)'
  BY <1>0 DEF Holds, Capability
<1>3. Claimed(p)'
  BY <1>0 DEF Claimed, Stage, Holds
<1>4. Stage(p)'
  BY <1>0 DEF Stage, Claimed, Holds
<1>5. Stays(p)'
  BY <1>0 DEF Stays, Holds
<1>6. Plans(p)'
  BY <1>0 DEF Plans, Stage
<1>7. Owns(p)'
  BY <1>0 DEF Owns, Holds
<1>8. Ends(p)'
  BY <1>0 DEF Ends, Holds
<1> QED BY <1>1, <1>2, <1>3, <1>4, <1>5, <1>6, <1>7, <1>8 DEF Local

LEMMA PlanStep ==
  ASSUME LockInv, NEW p \in Procs, Plan(p)
  PROVE  Types' /\ Local(p)'
<1>0. Types /\ Holds(p) /\ Claimed(p) /\ Stage(p) /\ Stays(p) /\ Plans(p) /\ Owns(p) /\ Ends(p)
  BY DEF LockInv
<1> USE LockAssumption DEF Types, Phases, InBody, Inside, Opened, Over, Errors, Leased, Modes, Idle,
        world, counts, ending, Plan
<1>1. Types'
  BY <1>0 DEF Holds, Capability
<1>2. Holds(p)'
  BY <1>0 DEF Holds, Capability
<1>3. Claimed(p)'
  BY <1>0 DEF Claimed, Stage, Holds
<1>4. Stage(p)'
  BY <1>0 DEF Stage, Claimed, Holds
<1>5. Stays(p)'
  BY <1>0 DEF Stays, Holds
<1>6. Plans(p)'
  BY <1>0 DEF Plans, Stage
<1>7. Owns(p)'
  BY <1>0 DEF Owns, Holds
<1>8. Ends(p)'
  BY <1>0 DEF Ends, Holds
<1> QED BY <1>1, <1>2, <1>3, <1>4, <1>5, <1>6, <1>7, <1>8 DEF Local

LEMMA BodyFailsStep ==
  ASSUME LockInv, NEW p \in Procs, BodyFails(p)
  PROVE  Types' /\ Local(p)'
<1>0. Types /\ Holds(p) /\ Claimed(p) /\ Stage(p) /\ Stays(p) /\ Plans(p) /\ Owns(p) /\ Ends(p)
  BY DEF LockInv
<1> USE LockAssumption DEF Types, Phases, InBody, Inside, Opened, Over, Errors, Leased, Modes, Idle,
        world, counts, ending, BodyFails, Fault, Raise
<1>1. Types'
  BY <1>0 DEF Holds, Capability
<1>2. Holds(p)'
  BY <1>0 DEF Holds, Capability
<1>3. Claimed(p)'
  BY <1>0 DEF Claimed, Stage, Holds
<1>4. Stage(p)'
  BY <1>0 DEF Stage, Claimed, Holds
<1>5. Stays(p)'
  BY <1>0 DEF Stays, Holds
<1>6. Plans(p)'
  BY <1>0 DEF Plans, Stage
<1>7. Owns(p)'
  BY <1>0 DEF Owns, Holds
<1>8. Ends(p)'
  BY <1>0 DEF Ends, Holds
<1> QED BY <1>1, <1>2, <1>3, <1>4, <1>5, <1>6, <1>7, <1>8 DEF Local

LEMMA DeactivateStep ==
  ASSUME LockInv, NEW p \in Procs, Deactivate(p)
  PROVE  Types' /\ Local(p)'
<1>0. Types /\ Holds(p) /\ Claimed(p) /\ Stage(p) /\ Stays(p) /\ Plans(p) /\ Owns(p) /\ Ends(p)
  BY DEF LockInv
<1> USE LockAssumption DEF Types, Phases, InBody, Inside, Opened, Over, Errors, Leased, Modes, Idle,
        world, counts, ending, Deactivate
<1>a. cap[p] # None /\ cap[p] \in Capability /\ cap[p].dir = fd[p]
  BY <1>0 DEF Holds
<1>b. /\ cap'[p] = [cap[p] EXCEPT !.active = FALSE]
      /\ cap'[p] \in Capability /\ cap'[p].dir = cap[p].dir /\ ~cap'[p].active
      /\ cap'[p].in_use = cap[p].in_use
  BY <1>0, <1>a DEF Capability
<1>1. Types'
  BY <1>0, <1>b
<1>2. Holds(p)'
  BY <1>0, <1>a, <1>b DEF Holds
<1>3. Claimed(p)'
  BY <1>0, <1>a, <1>b DEF Claimed
<1>4. Stage(p)'
  BY <1>0 DEF Stage, Claimed, Holds
<1>5. Stays(p)'
  BY <1>0 DEF Stays, Holds
<1>6. Plans(p)'
  BY <1>0 DEF Plans, Stage
<1>7. Owns(p)'
  BY <1>0 DEF Owns, Holds
<1>8. Ends(p)'
  BY <1>0, <1>a, <1>b DEF Ends
<1> QED BY <1>1, <1>2, <1>3, <1>4, <1>5, <1>6, <1>7, <1>8 DEF Local

LEMMA UnlockStep ==
  ASSUME LockInv, NEW p \in Procs, Unlock(p)
  PROVE  Types' /\ Local(p)'
<1>0. Types /\ Holds(p) /\ Claimed(p) /\ Stage(p) /\ Stays(p) /\ Plans(p) /\ Owns(p) /\ Ends(p)
  BY DEF LockInv
<1> USE LockAssumption DEF Types, Phases, InBody, Inside, Opened, Over, Errors, Leased, Modes, Idle,
        world, counts, ending, Unlock, Freed, Fault
<1>f. \/ failures' = failures
      \/ /\ failures' = [failures EXCEPT ![p] = failures[p] \cup {"release"}]
         /\ failures'[p] = failures[p] \cup {"release"}
         /\ failures[p] \cup {"release"} \in SUBSET {"release", "close"}
  <2>1. failures \in [Procs -> SUBSET {"release", "close"}]
    BY <1>0 DEF Types
  <2> QED BY <2>1
<1>1. Types'
  <2>1. holder' \in [Dirs -> Procs \cup {None}]
    BY <1>0
  <2>2. failures' \in [Procs -> SUBSET {"release", "close"}]
    BY <1>0, <1>f
  <2> QED BY <1>0, <2>1, <2>2
<1>2. Holds(p)'
  BY <1>0 DEF Holds, Capability
<1>3. Claimed(p)'
  BY <1>0 DEF Claimed, Stage, Holds
<1>4. Stage(p)'
  BY <1>0 DEF Stage, Claimed, Holds
<1>5. Stays(p)'
  BY <1>0 DEF Stays, Holds
<1>6. Plans(p)'
  BY <1>0 DEF Plans, Stage
<1>7. Owns(p)'
  BY <1>0 DEF Owns, Holds
<1>8. Ends(p)'
  BY <1>0 DEF Ends, Holds
<1> QED BY <1>1, <1>2, <1>3, <1>4, <1>5, <1>6, <1>7, <1>8 DEF Local

LEMMA CloseStep ==
  ASSUME LockInv, NEW p \in Procs, Close(p)
  PROVE  Types' /\ Local(p)'
<1>0. Types /\ Holds(p) /\ Claimed(p) /\ Stage(p) /\ Stays(p) /\ Plans(p) /\ Owns(p) /\ Ends(p)
  BY DEF LockInv
<1>g. holder' \in [Dirs -> Procs \cup {None}] /\ fd' \in [Procs -> Dirs \cup {None}]
  <2>1. /\ fd' = fd \/ fd' = [fd EXCEPT ![p] = None]
        /\ holder' = holder \/ holder' = Freed(p)
    BY DEF Close
  <2>2. holder \in [Dirs -> Procs \cup {None}] /\ fd \in [Procs -> Dirs \cup {None}]
    BY <1>0 DEF Types
  <2> QED BY <2>1, <2>2 DEF Freed
<1> USE LockAssumption DEF Types, Phases, InBody, Inside, Opened, Over, Errors, Leased, Modes, Idle,
        world, counts, ending, Close, Freed, Fault
<1>f. \/ failures' = failures
      \/ /\ failures' = [failures EXCEPT ![p] = failures[p] \cup {"close"}]
         /\ failures'[p] = failures[p] \cup {"close"}
         /\ failures[p] \cup {"close"} \in SUBSET {"release", "close"}
  <2>1. failures \in [Procs -> SUBSET {"release", "close"}]
    BY <1>0 DEF Types
  <2> QED BY <2>1
<1>a. /\ fd'[p] = None /\ (\A d \in Dirs : holder'[d] # p) /\ failures' = failures
      \/ failures'[p] # {}
  <2>1. CASE fd' = [fd EXCEPT ![p] = None] /\ holder' = Freed(p) /\ failures' = failures
    BY <1>0, <2>1
  <2>2. CASE failures' = [failures EXCEPT ![p] = @ \cup {"close"}]
    <3>1. failures'[p] = failures[p] \cup {"close"}
      BY <1>0, <2>2
    <3> QED BY <3>1
  <2> QED BY <2>1, <2>2
<1>1. Types'
  <2>1. failures' \in [Procs -> SUBSET {"release", "close"}]
    BY <1>0, <1>f
  <2> QED BY <1>0, <1>g, <2>1
<1>2. Holds(p)'
  BY <1>0 DEF Holds, Capability
<1>3. Claimed(p)'
  BY <1>0 DEF Claimed, Stage, Holds
<1>4. Stage(p)'
  BY <1>0 DEF Stage, Claimed, Holds
<1>5. Stays(p)'
  BY <1>0 DEF Stays, Holds
<1>6. Plans(p)'
  BY <1>0 DEF Plans, Stage
<1>7. Owns(p)'
  BY <1>0 DEF Owns, Holds
<1>8. Ends(p)'
  BY <1>0, <1>a DEF Ends
<1> QED BY <1>1, <1>2, <1>3, <1>4, <1>5, <1>6, <1>7, <1>8 DEF Local

LEMMA SettleStep ==
  ASSUME LockInv, NEW p \in Procs, Settle(p)
  PROVE  Types' /\ Local(p)'
<1>0. Types /\ Holds(p) /\ Claimed(p) /\ Stage(p) /\ Stays(p) /\ Plans(p) /\ Owns(p) /\ Ends(p)
  BY DEF LockInv
<1> USE LockAssumption DEF Types, Phases, InBody, Inside, Opened, Over, Errors, Leased, Modes, Idle,
        world, counts, ending, Settle
<1>1. Types'
  BY <1>0 DEF Holds, Capability
<1>2. Holds(p)'
  BY <1>0 DEF Holds, Capability
<1>3. Claimed(p)'
  BY <1>0 DEF Claimed, Stage, Holds
<1>4. Stage(p)'
  BY <1>0 DEF Stage, Claimed, Holds
<1>5. Stays(p)'
  BY <1>0 DEF Stays, Holds
<1>6. Plans(p)'
  BY <1>0 DEF Plans, Stage
<1>7. Owns(p)'
  BY <1>0 DEF Owns, Holds
<1>8. Ends(p)'
  BY <1>0 DEF Ends, Holds
<1> QED BY <1>1, <1>2, <1>3, <1>4, <1>5, <1>6, <1>7, <1>8 DEF Local

LEMMA GoneStep ==
  ASSUME LockInv, NEW p \in Procs, Gone(p)
  PROVE  Types' /\ Local(p)'
<1>0. Types /\ Holds(p) /\ Claimed(p) /\ Stage(p) /\ Stays(p) /\ Plans(p) /\ Owns(p) /\ Ends(p)
  BY DEF LockInv
<1> USE LockAssumption DEF Types, Phases, InBody, Inside, Opened, Over, Errors, Leased, Modes, Idle,
        world, counts, ending, Gone, Freed
<1>1. Types'
  BY <1>0 DEF Holds, Capability
<1>2. Holds(p)'
  BY <1>0 DEF Holds, Capability
<1>3. Claimed(p)'
  BY <1>0 DEF Claimed, Stage, Holds
<1>4. Stage(p)'
  BY <1>0 DEF Stage, Claimed, Holds
<1>5. Stays(p)'
  BY <1>0 DEF Stays, Holds
<1>6. Plans(p)'
  BY <1>0 DEF Plans, Stage
<1>7. Owns(p)'
  BY <1>0 DEF Owns, Holds
<1>8. Ends(p)'
  BY <1>0 DEF Ends, Holds
<1> QED BY <1>1, <1>2, <1>3, <1>4, <1>5, <1>6, <1>7, <1>8 DEF Local

\* A caller that has the lease keeps the others from theirs, whatever its step.
LEMMA ClaimedKept ==
  ASSUME NEW p \in Procs, NEW c \in Callers, Claimed(p), op[p][c] \in Leased, cap' = cap,
         c # Main => op'[p][c] \notin {"published", "marked"},
         \A b \in Callers \ {c} : op'[p][b] = op[p][b]
  PROVE  Claimed(p)'
<1> SUFFICES ASSUME NEW a \in Callers
             PROVE  /\ op'[p][a] # "none" => cap[p] # None
                    /\ op'[p][a] \in Leased =>
                         /\ cap[p].in_use
                         /\ \A b \in Callers \ {a} : op'[p][b] \notin Leased
                    /\ a # Main => op'[p][a] \notin {"published", "marked"}
  BY DEF Claimed, Leased
<1>1. /\ cap[p] # None /\ cap[p].in_use
      /\ \A b \in Callers \ {c} : op[p][b] \notin Leased
  BY DEF Claimed, Leased
<1>2. CASE a = c
  BY <1>1, <1>2
<1>3. CASE a # c
  BY <1>1, <1>3 DEF Claimed
<1> QED BY <1>2, <1>3

LEMMA RequireStep ==
  ASSUME LockInv, NEW p \in Procs, NEW c \in Callers, Require(p, c)
  PROVE  Types' /\ Local(p)'
<1>0. Types /\ Holds(p) /\ Claimed(p) /\ Stage(p) /\ Stays(p) /\ Plans(p) /\ Owns(p) /\ Ends(p)
  BY DEF LockInv
<1>o. /\ op' \in [Procs -> [Callers -> {"none", "checked"} \cup Leased]]
      /\ op'[p][c] = "checked"
      /\ \A b \in Callers \ {c} : op'[p][b] = op[p][b]
  <2>1. SetOp(p, c, "checked") /\ c \in Callers
    BY LockAssumption DEF Require
  <2> QED BY <1>0, <2>1, SetOpFacts DEF Leased
<1> USE LockAssumption DEF Types, Phases, InBody, Inside, Opened, Over, Errors, Leased, Modes, Idle,
        world, counts, ending, Require, Protects, Wants
<1>a. cap[p] # None
  BY <1>0 DEF Holds
<1>1. Types'
  BY <1>0, <1>o DEF Holds, Capability
<1>2. Holds(p)'
  BY <1>0, <1>o DEF Holds, Capability
<1>3. Claimed(p)'
  BY <1>0, <1>a, <1>o DEF Claimed
<1>4. Stage(p)'
  BY <1>0, <1>o DEF Stage, Claimed, Holds
<1>5. Stays(p)'
  BY <1>0, <1>o DEF Stays, Holds
<1>6. Plans(p)'
  BY <1>0, <1>o DEF Plans, Stage
<1>7. Owns(p)'
  BY <1>0, <1>o DEF Owns, Holds, Claimed, Stays
<1>8. Ends(p)'
  BY <1>0, <1>o DEF Ends, Holds, Claimed, Stays
<1> QED BY <1>1, <1>2, <1>3, <1>4, <1>5, <1>6, <1>7, <1>8 DEF Local

LEMMA LeaseStep ==
  ASSUME LockInv, NEW p \in Procs, NEW c \in Callers, Lease(p, c)
  PROVE  Types' /\ Local(p)'
<1>0. Types /\ Holds(p) /\ Claimed(p) /\ Stage(p) /\ Stays(p) /\ Plans(p) /\ Owns(p) /\ Ends(p)
  BY DEF LockInv
<1>o. /\ op' \in [Procs -> [Callers -> {"none", "checked"} \cup Leased]]
      /\ op'[p][c] = "leased"
      /\ \A b \in Callers \ {c} : op'[p][b] = op[p][b]
  <2>1. SetOp(p, c, "leased") /\ c \in Callers
    BY LockAssumption DEF Lease
  <2> QED BY <1>0, <2>1, SetOpFacts DEF Leased
<1> USE LockAssumption DEF Types, Phases, InBody, Inside, Opened, Over, Errors, Leased, Modes, Idle,
        world, counts, ending, Lease, Available
<1>a. cap[p] # None /\ cap[p] \in Capability
  BY <1>0 DEF Claimed
<1>b. /\ cap'[p] = [cap[p] EXCEPT !.in_use = TRUE]
      /\ cap'[p] \in Capability /\ cap'[p].dir = cap[p].dir
      /\ cap'[p].active = cap[p].active /\ cap'[p].in_use = TRUE
  BY <1>0, <1>a DEF Capability
<1>1. Types'
  BY <1>0, <1>b, <1>o
<1>2. Holds(p)'
  BY <1>0, <1>a, <1>b DEF Holds
<1>3. Claimed(p)'
  BY <1>0, <1>a, <1>b, <1>o DEF Claimed
<1>4. Stage(p)'
  BY <1>0, <1>o DEF Stage, Claimed, Holds
<1>5. Stays(p)'
  BY <1>0, <1>o DEF Stays, Holds
<1>6. Plans(p)'
  BY <1>0, <1>o DEF Plans, Stage
<1>7. Owns(p)'
  BY <1>0, <1>o DEF Owns, Holds, Claimed, Stays
<1>8. Ends(p)'
  BY <1>0, <1>a, <1>b, <1>o DEF Ends
<1> QED BY <1>1, <1>2, <1>3, <1>4, <1>5, <1>6, <1>7, <1>8 DEF Local

LEMMA RefusedStep ==
  ASSUME LockInv, NEW p \in Procs, NEW c \in Callers, Refused(p, c)
  PROVE  Types' /\ Local(p)'
<1>0. Types /\ Holds(p) /\ Claimed(p) /\ Stage(p) /\ Stays(p) /\ Plans(p) /\ Owns(p) /\ Ends(p)
  BY DEF LockInv
<1>o. /\ op' \in [Procs -> [Callers -> {"none", "checked"} \cup Leased]]
      /\ op'[p][c] = "none"
      /\ \A b \in Callers \ {c} : op'[p][b] = op[p][b]
  <2>1. SetOp(p, c, "none") /\ c \in Callers
    BY LockAssumption DEF Refused
  <2> QED BY <1>0, <2>1, SetOpFacts DEF Leased
<1> USE LockAssumption DEF Types, Phases, InBody, Inside, Opened, Over, Errors, Leased, Modes, Idle,
        world, counts, ending, Refused, Available, Wants, Raise
<1>a. IF c = Main THEN pc[p] \in InBody /\ Raise(p, "lease")
                   ELSE UNCHANGED <<pc, ending>>
  BY <1>0 DEF Stage
<1>b. pc'[p] = pc[p] \/ (pc[p] \in InBody /\ pc'[p] = "deactivate")
  BY <1>0, <1>a
<1>1. Types'
  <2>1. CASE c = Main
    BY <1>0, <1>o, <2>1
  <2>2. CASE c # Main
    BY <1>0, <1>o, <2>2
  <2> QED BY <2>1, <2>2
<1>2. Holds(p)'
  BY <1>0, <1>b DEF Holds
<1>3. Claimed(p)'
  BY <1>0, <1>o DEF Claimed
<1>4. Stage(p)'
  BY <1>0, <1>o DEF Stage, Claimed, Holds
<1>5. Stays(p)'
  BY <1>0, <1>b DEF Stays
<1>6. Plans(p)'
  BY <1>0, <1>o DEF Plans, Stage
<1>7. Owns(p)'
  BY <1>0, <1>b DEF Owns
<1>8. Ends(p)'
  BY <1>0, <1>o DEF Ends, Holds, Claimed, Stays
<1> QED BY <1>1, <1>2, <1>3, <1>4, <1>5, <1>6, <1>7, <1>8 DEF Local

LEMMA ReturnStep ==
  ASSUME LockInv, NEW p \in Procs, NEW c \in Callers, Return(p, c)
  PROVE  Types' /\ Local(p)'
<1>0. Types /\ Holds(p) /\ Claimed(p) /\ Stage(p) /\ Stays(p) /\ Plans(p) /\ Owns(p) /\ Ends(p)
  BY DEF LockInv
<1>o. /\ op' \in [Procs -> [Callers -> {"none", "checked"} \cup Leased]]
      /\ op'[p][c] = "none"
      /\ \A b \in Callers \ {c} : op'[p][b] = op[p][b]
  <2>1. SetOp(p, c, "none") /\ c \in Callers
    BY LockAssumption DEF Return
  <2> QED BY <1>0, <2>1, SetOpFacts DEF Leased
<1> USE LockAssumption DEF Types, Phases, InBody, Inside, Opened, Over, Errors, Leased, Modes, Idle,
        world, counts, ending, Return
<1>a. cap[p] # None /\ cap[p] \in Capability
  BY <1>0 DEF Claimed
<1>b. /\ cap'[p] = [cap[p] EXCEPT !.in_use = FALSE]
      /\ cap'[p] \in Capability /\ cap'[p].dir = cap[p].dir
      /\ cap'[p].active = cap[p].active /\ cap'[p].in_use = FALSE
  BY <1>0, <1>a DEF Capability
<1>1. Types'
  BY <1>0, <1>b, <1>o
<1>2. Holds(p)'
  BY <1>0, <1>a, <1>b DEF Holds
<1>3. Claimed(p)'
  BY <1>0, <1>a, <1>b, <1>o DEF Claimed
<1>4. Stage(p)'
  BY <1>0, <1>o DEF Stage, Claimed, Holds
<1>5. Stays(p)'
  BY <1>0, <1>o DEF Stays, Holds
<1>6. Plans(p)'
  BY <1>0, <1>o DEF Plans, Stage
<1>7. Owns(p)'
  BY <1>0, <1>o DEF Owns, Holds, Claimed, Stays
<1>8. Ends(p)'
  BY <1>0, <1>a, <1>b, <1>o DEF Ends
<1> QED BY <1>1, <1>2, <1>3, <1>4, <1>5, <1>6, <1>7, <1>8 DEF Local

LEMMA RecoverStep ==
  ASSUME LockInv, NEW p \in Procs, NEW c \in Callers, Recover(p, c)
  PROVE  Types' /\ Local(p)'
<1>0. Types /\ Holds(p) /\ Claimed(p) /\ Stage(p) /\ Stays(p) /\ Plans(p) /\ Owns(p) /\ Ends(p)
  BY DEF LockInv
<1>o. /\ op' \in [Procs -> [Callers -> {"none", "checked"} \cup Leased]]
      /\ op'[p][c] = "returning"
      /\ \A b \in Callers \ {c} : op'[p][b] = op[p][b]
  <2>1. SetOp(p, c, "returning") /\ c \in Callers
    BY LockAssumption DEF Recover
  <2> QED BY <1>0, <2>1, SetOpFacts DEF Leased
<1>3. Claimed(p)'
  <2>1. cap' = cap /\ op[p][c] \in Leased /\ c \in Callers
    BY LockAssumption DEF Recover, Recovering, Leased
  <2> QED BY <1>0, <1>o, <2>1, ClaimedKept
<1> USE LockAssumption DEF Types, Phases, InBody, Inside, Opened, Over, Errors, Leased, Modes, Idle,
        world, counts, ending, Recover, Recovering, Touch
<1>a. /\ journal' \in [Dirs -> Procs \cup {None}] /\ holder' \in [Dirs -> Procs \cup {None}]
      /\ root' \in Dirs /\ strayed' \subseteq Dirs
  <2>1. CASE UNCHANGED world
    BY <1>0, <2>1
  <2>2. CASE Touch(p, c, None)
    BY <1>0, <2>2, TouchTypes
  <2> QED BY <2>1, <2>2
<1>b. pc' \in [Procs -> Phases]
  <2>1. CASE c # Main
    BY <1>0, <2>1
  <2>2. CASE c = Main
    BY <1>0, <2>2
  <2> QED BY <2>1, <2>2
<1>1. Types'
  BY <1>0, <1>a, <1>b, <1>o
<1>2. Holds(p)'
  BY <1>0, <1>o DEF Holds, Capability
<1>4. Stage(p)'
  BY <1>0, <1>o DEF Stage, Claimed, Holds
<1>5. Stays(p)'
  BY <1>0, <1>o DEF Stays, Holds
<1>6. Plans(p)'
  BY <1>0, <1>o DEF Plans, Stage
<1>7. Owns(p)'
  BY <1>0, <1>o DEF Owns, Holds, Claimed, Stays
<1>8. Ends(p)'
  <2>1. strayed \subseteq strayed' /\ \A d \in Dirs : journal'[d] = p => journal[d] = p
    BY <1>0
  <2>2. pc'[p] = pc[p] \/ (pc[p] = "recover" /\ pc'[p] \in {"load", "leave"})
    BY <1>0
  <2>3. pc[p] # "recover" \/ p \notin committed
    BY <1>0 DEF Ends
  <2>4. p \in committed => cap[p] \in Capability /\ cap[p].dir \in Dirs
    BY <1>0 DEF Ends, Capability
  <2>5. UNCHANGED <<fd, holder, failures, raised, error, committed, cap>>
    BY <1>0
  <2> HIDE DEF Recover, Touch, Types
  <2> QED BY <1>0, <2>1, <2>2, <2>3, <2>4, <2>5 DEF Ends
<1> QED BY <1>1, <1>2, <1>3, <1>4, <1>5, <1>6, <1>7, <1>8 DEF Local

LEMMA RecoverIncompleteStep ==
  ASSUME LockInv, NEW p \in Procs, NEW c \in Callers, RecoverIncomplete(p, c)
  PROVE  Types' /\ Local(p)'
<1>0. Types /\ Holds(p) /\ Claimed(p) /\ Stage(p) /\ Stays(p) /\ Plans(p) /\ Owns(p) /\ Ends(p)
  BY DEF LockInv
<1>o. /\ op' \in [Procs -> [Callers -> {"none", "checked"} \cup Leased]]
      /\ op'[p][c] = "returning"
      /\ \A b \in Callers \ {c} : op'[p][b] = op[p][b]
  <2>1. SetOp(p, c, "returning") /\ c \in Callers
    BY LockAssumption DEF RecoverIncomplete
  <2> QED BY <1>0, <2>1, SetOpFacts DEF Leased
<1>3. Claimed(p)'
  <2>1. cap' = cap /\ op[p][c] \in Leased /\ c \in Callers
    BY LockAssumption DEF RecoverIncomplete, Recovering, Leased
  <2> QED BY <1>0, <1>o, <2>1, ClaimedKept
<1> USE LockAssumption DEF Types, Phases, InBody, Inside, Opened, Over, Errors, Leased, Modes, Idle,
        world, counts, ending, RecoverIncomplete, Recovering, Raise, Fault
<1>1. Types'
  <2>1. CASE c # Main
    BY <1>0, <1>o, <2>1
  <2>2. CASE c = Main /\ Raise(p, "incomplete")
    BY <1>0, <1>o, <2>2
  <2>3. CASE c = Main /\ pc' = [pc EXCEPT ![p] = "leave"] /\ UNCHANGED ending
    BY <1>0, <1>o, <2>3
  <2> QED BY <2>1, <2>2, <2>3
<1>2. Holds(p)'
  BY <1>0, <1>o DEF Holds, Capability
<1>4. Stage(p)'
  BY <1>0, <1>o DEF Stage, Claimed, Holds
<1>5. Stays(p)'
  BY <1>0, <1>o DEF Stays, Holds
<1>6. Plans(p)'
  BY <1>0, <1>o DEF Plans, Stage
<1>7. Owns(p)'
  BY <1>0, <1>o DEF Owns, Holds, Claimed, Stays
<1>8. Ends(p)'
  BY <1>0, <1>o DEF Ends, Holds, Claimed, Stays
<1> QED BY <1>1, <1>2, <1>3, <1>4, <1>5, <1>6, <1>7, <1>8 DEF Local

LEMMA PublishStep ==
  ASSUME LockInv, NEW p \in Procs, Publish(p)
  PROVE  Types' /\ Local(p)'
<1>0. Types /\ Holds(p) /\ Claimed(p) /\ Stage(p) /\ Stays(p) /\ Plans(p) /\ Owns(p) /\ Ends(p)
  BY DEF LockInv
<1>o. /\ op' \in [Procs -> [Callers -> {"none", "checked"} \cup Leased]]
      /\ op'[p][Main] = "published"
      /\ \A b \in Callers \ {Main} : op'[p][b] = op[p][b]
  <2>1. SetOp(p, Main, "published") /\ Main \in Callers
    BY LockAssumption DEF Publish
  <2> QED BY <1>0, <2>1, SetOpFacts DEF Leased
<1>3. Claimed(p)'
  <2>1. cap' = cap /\ op[p][Main] \in Leased /\ Main \in Callers
    BY LockAssumption DEF Publish, Leased
  <2> QED BY <1>0, <1>o, <2>1, ClaimedKept
<1> USE LockAssumption DEF Types, Phases, InBody, Inside, Opened, Over, Errors, Leased, Modes, Idle,
        world, counts, ending, Publish, Touch
<1>1. Types'
  BY <1>0, <1>o DEF Holds, Capability
<1>2. Holds(p)'
  BY <1>0, <1>o DEF Holds, Capability
<1>4. Stage(p)'
  BY <1>0, <1>o DEF Stage, Claimed, Holds
<1>5. Stays(p)'
  BY <1>0, <1>o DEF Stays, Holds
<1>6. Plans(p)'
  BY <1>0, <1>o DEF Plans, Stage
<1>7. Owns(p)'
  BY <1>0, <1>o DEF Owns, Holds, Claimed, Stays
<1>8. Ends(p)'
  BY <1>0, <1>o DEF Ends, Holds, Claimed, Stays
<1> QED BY <1>1, <1>2, <1>3, <1>4, <1>5, <1>6, <1>7, <1>8 DEF Local

LEMMA MarkStep ==
  ASSUME LockInv, NEW p \in Procs, Mark(p)
  PROVE  Types' /\ Local(p)'
<1>0. Types /\ Holds(p) /\ Claimed(p) /\ Stage(p) /\ Stays(p) /\ Plans(p) /\ Owns(p) /\ Ends(p)
  BY DEF LockInv
<1>o. /\ op' \in [Procs -> [Callers -> {"none", "checked"} \cup Leased]]
      /\ op'[p][Main] = "marked"
      /\ \A b \in Callers \ {Main} : op'[p][b] = op[p][b]
  <2>1. SetOp(p, Main, "marked") /\ Main \in Callers
    BY LockAssumption DEF Mark
  <2> QED BY <1>0, <2>1, SetOpFacts DEF Leased
<1>3. Claimed(p)'
  <2>1. cap' = cap /\ op[p][Main] \in Leased /\ Main \in Callers
    BY LockAssumption DEF Mark, Leased
  <2> QED BY <1>0, <1>o, <2>1, ClaimedKept
<1> USE LockAssumption DEF Types, Phases, InBody, Inside, Opened, Over, Errors, Leased, Modes, Idle,
        world, counts, ending, Mark, Touch
<1>1. Types'
  BY <1>0, <1>o DEF Holds, Capability
<1>2. Holds(p)'
  BY <1>0, <1>o DEF Holds, Capability
<1>4. Stage(p)'
  BY <1>0, <1>o DEF Stage, Claimed, Holds
<1>5. Stays(p)'
  BY <1>0, <1>o DEF Stays, Holds
<1>6. Plans(p)'
  BY <1>0, <1>o DEF Plans, Stage
<1>7. Owns(p)'
  BY <1>0, <1>o DEF Owns, Holds, Claimed, Stays
<1>8. Ends(p)'
  BY <1>0, <1>o DEF Ends, Stage
<1> QED BY <1>1, <1>2, <1>3, <1>4, <1>5, <1>6, <1>7, <1>8 DEF Local

LEMMA CleanStep ==
  ASSUME LockInv, NEW p \in Procs, Clean(p)
  PROVE  Types' /\ Local(p)'
<1>0. Types /\ Holds(p) /\ Claimed(p) /\ Stage(p) /\ Stays(p) /\ Plans(p) /\ Owns(p) /\ Ends(p)
  BY DEF LockInv
<1>o. /\ op' \in [Procs -> [Callers -> {"none", "checked"} \cup Leased]]
      /\ op'[p][Main] = "returning"
      /\ \A b \in Callers \ {Main} : op'[p][b] = op[p][b]
  <2>1. SetOp(p, Main, "returning") /\ Main \in Callers
    BY LockAssumption DEF Clean
  <2> QED BY <1>0, <2>1, SetOpFacts DEF Leased
<1>3. Claimed(p)'
  <2>1. cap' = cap /\ op[p][Main] \in Leased /\ Main \in Callers
    BY LockAssumption DEF Clean, Leased
  <2> QED BY <1>0, <1>o, <2>1, ClaimedKept
<1> USE LockAssumption DEF Types, Phases, InBody, Inside, Opened, Over, Errors, Leased, Modes, Idle,
        world, counts, ending, Clean, Touch
<1>a. pc[p] = "commit" /\ pc'[p] = "leave"
  BY <1>0 DEF Stage
<1>b. cap[p] # None /\ cap[p].active /\ cap[p].dir = fd[p]
  BY <1>0, <1>a DEF Holds
<1>c. strayed' = IF moved[p][Main] THEN strayed \cup {root} ELSE strayed
  BY <1>b
<1>1. Types'
  BY <1>0, <1>o DEF Holds, Capability
<1>2. Holds(p)'
  BY <1>0, <1>a DEF Holds
<1>4. Stage(p)'
  BY <1>0, <1>o DEF Stage, Claimed, Holds
<1>5. Stays(p)'
  BY <1>0, <1>a DEF Stays
<1>6. Plans(p)'
  BY <1>0, <1>o DEF Plans, Stage
<1>7. Owns(p)'
  BY <1>0, <1>a, <1>b, <1>c DEF Owns, Holds, Stays
<1>8. Ends(p)'
  BY <1>0, <1>a, <1>b, <1>c DEF Ends, Owns, Holds, Stays
<1> QED BY <1>1, <1>2, <1>3, <1>4, <1>5, <1>6, <1>7, <1>8 DEF Local

LEMMA CommitFailsStep ==
  ASSUME LockInv, NEW p \in Procs, CommitFails(p)
  PROVE  Types' /\ Local(p)'
<1>0. Types /\ Holds(p) /\ Claimed(p) /\ Stage(p) /\ Stays(p) /\ Plans(p) /\ Owns(p) /\ Ends(p)
  BY DEF LockInv
<1>o. /\ op' \in [Procs -> [Callers -> {"none", "checked"} \cup Leased]]
      /\ op'[p][Main] = "returning"
      /\ \A b \in Callers \ {Main} : op'[p][b] = op[p][b]
  <2>1. SetOp(p, Main, "returning") /\ Main \in Callers
    BY LockAssumption DEF CommitFails
  <2> QED BY <1>0, <2>1, SetOpFacts DEF Leased
<1>3. Claimed(p)'
  <2>1. cap' = cap /\ op[p][Main] \in Leased /\ Main \in Callers
    BY LockAssumption DEF CommitFails, Leased
  <2> QED BY <1>0, <1>o, <2>1, ClaimedKept
<1> USE LockAssumption DEF Types, Phases, InBody, Inside, Opened, Over, Errors, Leased, Modes, Idle,
        world, counts, ending, CommitFails, Touch, Raise, Fault
<1>1. Types'
  BY <1>0, <1>o DEF Holds, Capability
<1>2. Holds(p)'
  BY <1>0, <1>o DEF Holds, Capability
<1>4. Stage(p)'
  BY <1>0, <1>o DEF Stage, Claimed, Holds
<1>5. Stays(p)'
  BY <1>0, <1>o DEF Stays, Holds
<1>6. Plans(p)'
  BY <1>0, <1>o DEF Plans, Stage
<1>7. Owns(p)'
  BY <1>0, <1>o DEF Owns, Holds, Claimed, Stays
<1>8. Ends(p)'
  BY <1>0, <1>o DEF Ends, Holds, Claimed, Stays
<1> QED BY <1>1, <1>2, <1>3, <1>4, <1>5, <1>6, <1>7, <1>8 DEF Local

(***************************************************************************)
(* What a step of p does to another process q.                              *)
(***************************************************************************)
Untouched(q) ==
  /\ root' = root /\ mode'[q] = mode[q] /\ pc'[q] = pc[q] /\ fd'[q] = fd[q]
  /\ cap'[q] = cap[q] /\ op'[q] = op[q] /\ moved'[q] = moved[q]
  /\ failures'[q] = failures[q] /\ raised'[q] = raised[q] /\ error'[q] = error[q]
  /\ q \in committed' <=> q \in committed
  /\ \A d \in Dirs : holder'[d] = q <=> holder[d] = q

LEMMA Footprint ==
  ASSUME Types, NEW p \in Procs, Steps(p), NEW q \in Procs \ {p}
  PROVE  Untouched(q)
<1> USE LockAssumption DEF Untouched, Types, world, counts, ending
<1>1. CASE \E m \in Modes : Open(p, m)
  BY <1>1 DEF Open
<1>2. CASE Claim(p)
  BY <1>2 DEF Claim
<1>3. CASE Busy(p)
  BY <1>3 DEF Busy
<1>4. CASE Inspect(p)
  BY <1>4 DEF Inspect
<1>5. CASE SetupFails(p)
  BY <1>5 DEF SetupFails, Fault
<1>6. CASE \E c \in Callers : Require(p, c)
  BY <1>6 DEF Require, SetOp
<1>7. CASE \E c \in Callers : Lease(p, c)
  BY <1>7 DEF Lease, SetOp
<1>8. CASE \E c \in Callers : Refused(p, c)
  BY <1>8 DEF Refused, SetOp, Raise
<1>9. CASE \E c \in Callers : Return(p, c)
  BY <1>9 DEF Return, SetOp
<1>10. CASE \E c \in Callers : Recover(p, c)
  BY <1>10 DEF Recover, SetOp, Touch
<1>11. CASE \E c \in Callers : RecoverIncomplete(p, c)
  BY <1>11 DEF RecoverIncomplete, SetOp, Raise, Fault
<1>12. CASE Publish(p)
  BY <1>12 DEF Publish, SetOp, Touch
<1>13. CASE Mark(p)
  BY <1>13 DEF Mark, SetOp, Touch
<1>14. CASE Clean(p)
  BY <1>14 DEF Clean, SetOp, Touch
<1>15. CASE CommitFails(p)
  BY <1>15 DEF CommitFails, SetOp, Touch, Raise, Fault
<1>16. CASE EnsureDryRunSafe(p)
  BY <1>16 DEF EnsureDryRunSafe, Raise
<1>17. CASE Load(p)
  BY <1>17 DEF Load
<1>18. CASE Plan(p)
  BY <1>18 DEF Plan
<1>19. CASE BodyFails(p)
  BY <1>19 DEF BodyFails, Raise, Fault
<1>20. CASE Deactivate(p)
  BY <1>20 DEF Deactivate
<1>21. CASE Unlock(p)
  BY <1>21 DEF Unlock, Freed, Fault
<1>22. CASE Close(p)
  BY <1>22 DEF Close, Freed, Fault
<1>23. CASE Settle(p)
  BY <1>23 DEF Settle
<1>24. CASE Gone(p)
  BY <1>24 DEF Gone, Freed
<1> QED BY <1>1, <1>2, <1>3, <1>4, <1>5, <1>6, <1>7, <1>8, <1>9, <1>10, <1>11, <1>12, <1>13, <1>14, <1>15, <1>16, <1>17, <1>18, <1>19, <1>20, <1>21, <1>22, <1>23, <1>24 DEF Steps, Session, Operate, Exit, Kill

\* A journal changes under a lease, in the directory that the path names, and
\* strayed tells when that is not the directory the lease was validated for, or
\* when the session has ended meanwhile.
Written(p) ==
  /\ strayed \subseteq strayed'
  /\ \A d \in Dirs : journal'[d] # journal[d] =>
       /\ d = root /\ journal'[d] \in {p, None}
       /\ \E c \in Callers : op[p][c] \in Leased /\ op'[p][c] # op[p][c]
       /\ d \notin strayed' => fd[p] = d /\ holder[d] = p

LEMMA WrittenByTouch ==
  ASSUME LockInv, NEW p \in Procs, NEW c \in Callers, op[p][c] \in Leased, op'[p][c] # op[p][c],
         NEW j \in {p, None}, Touch(p, c, j)
  PROVE  Written(p)
<1>0. Types /\ Holds(p) /\ Claimed(p) /\ Stays(p)
  BY DEF LockInv
<1>1. cap[p].active => pc[p] \in Inside /\ holder[fd[p]] = p
  <2>1. op[p][c] # "none"
    BY DEF Leased
  <2>2. cap[p] # None
    BY <1>0, <2>1 DEF Claimed
  <2> QED BY <1>0, <2>2 DEF Holds
<1>2. cap[p].active /\ ~moved[p][c] => fd[p] = root
  BY <1>0, <1>1 DEF Stays, Opened
<1>3. /\ journal' = [journal EXCEPT ![root] = j]
      /\ strayed' = IF moved[p][c] \/ ~cap[p].active THEN strayed \cup {root} ELSE strayed
  BY DEF Touch
<1>4. journal \in [Dirs -> Procs \cup {None}]
  BY <1>0 DEF Types
<1> QED BY <1>1, <1>2, <1>3, <1>4 DEF Written

LEMMA Writes ==
  ASSUME LockInv, NEW p \in Procs, Steps(p)
  PROVE  Written(p)
<1>0. Types /\ Stage(p)
  BY DEF LockInv
<1> USE LockAssumption DEF world, counts, ending
<1>1. CASE UNCHANGED <<journal, strayed>>
  BY <1>1 DEF Written
<1>2. ASSUME NEW c \in Callers, Recover(p, c) PROVE Written(p)
  <2>1. op[p][c] = "leased" /\ op'[p][c] = "returning"
    BY <1>0, <1>2, SetOpFacts DEF Recover, Recovering, Leased
  <2>2. UNCHANGED <<journal, strayed>> \/ Touch(p, c, None)
    BY <1>2 DEF Recover
  <2> QED BY <1>1, <2>1, <2>2, WrittenByTouch DEF Leased
<1>3. CASE Publish(p)
  <2>1. op[p][Main] = "leased" /\ op'[p][Main] = "published" /\ Touch(p, Main, p)
    BY <1>0, <1>3, SetOpFacts DEF Publish, Leased
  <2> QED BY <2>1, WrittenByTouch DEF Leased
<1>4. CASE Mark(p)
  <2>1. op[p][Main] = "published" /\ op'[p][Main] = "marked" /\ Touch(p, Main, p)
    BY <1>0, <1>4, SetOpFacts DEF Mark, Leased
  <2> QED BY <2>1, WrittenByTouch DEF Leased
<1>5. CASE Clean(p)
  <2>1. op[p][Main] = "marked" /\ op'[p][Main] = "returning" /\ Touch(p, Main, None)
    BY <1>0, <1>5, SetOpFacts DEF Clean, Leased
  <2> QED BY <2>1, WrittenByTouch DEF Leased
<1>6. CASE CommitFails(p)
  <2>1. op[p][Main] \in {"leased", "published", "marked"} /\ op'[p][Main] = "returning"
    BY <1>0, <1>6, SetOpFacts DEF CommitFails, Leased
  <2>2. UNCHANGED <<journal, strayed>> \/ Touch(p, Main, None)
    BY <1>6 DEF CommitFails
  <2> QED BY <1>1, <2>1, <2>2, WrittenByTouch DEF Leased
<1>7. CASE (\E m \in Modes : Open(p, m)) \/ Claim(p) \/ Busy(p) \/ Inspect(p) \/ SetupFails(p)
  BY <1>1, <1>7 DEF Open, Claim, Busy, Inspect, SetupFails
<1>8. CASE \E c \in Callers : Require(p, c) \/ Lease(p, c) \/ Refused(p, c) \/ Return(p, c) \/ RecoverIncomplete(p, c)
  BY <1>1, <1>8 DEF Require, Lease, Refused, Return, RecoverIncomplete
<1>9. CASE EnsureDryRunSafe(p) \/ Load(p) \/ Plan(p) \/ BodyFails(p) \/ Deactivate(p)
  BY <1>1, <1>9 DEF EnsureDryRunSafe, Load, Plan, BodyFails, Deactivate
<1>10. CASE Unlock(p) \/ Close(p) \/ Settle(p) \/ Gone(p)
  BY <1>1, <1>10 DEF Unlock, Close, Settle, Gone
<1> QED BY <1>2, <1>3, <1>4, <1>5, <1>6, <1>7, <1>8, <1>9, <1>10 DEF Steps, Session, Operate, Exit, Kill

LEMMA OthersStep ==
  ASSUME LockInv, NEW p \in Procs, Steps(p), NEW q \in Procs \ {p}
  PROVE  Local(q)'
<1>0. Types /\ Holds(q) /\ Claimed(q) /\ Stage(q) /\ Stays(q) /\ Plans(q) /\ Owns(q) /\ Ends(q)
  BY DEF LockInv
<1>1. Untouched(q)
  BY <1>0, Footprint
<1>2. Written(p)
  BY Writes
<1>3. pc[q] \in Inside => fd[q] \in Dirs /\ holder[fd[q]] = q
  BY <1>0 DEF Holds
<1> USE LockAssumption DEF Untouched
<1>4. Holds(q)' /\ Claimed(q)' /\ Stage(q)' /\ Stays(q)'
  <2>1. Holds(q)'
    BY <1>0, <1>1 DEF Holds
  <2>2. Claimed(q)' /\ Stage(q)'
    BY <1>0, <1>1 DEF Claimed, Stage
  <2>3. Stays(q)'
    BY <1>0, <1>1 DEF Stays
  <2> QED BY <2>1, <2>2, <2>3
<1>5. Plans(q)'
  <2> SUFFICES ASSUME pc[q] \in {"load", "plan"} \/ (pc[q] = "commit" /\ Idle(q, Main)),
                      ~moved[q][Main], root \notin strayed'
               PROVE  journal'[root] = None
    BY <1>1 DEF Plans, Idle
  <2>1. root \notin strayed /\ root \in Dirs
    BY <1>0, <1>2 DEF Written, Types
  <2>2. journal[root] = None
    BY <1>0, <2>1 DEF Plans
  <2>3. fd[q] = root /\ holder[root] = q
    BY <1>0, <1>3 DEF Stays, Opened, Inside, InBody
  <2> QED BY <1>2, <2>1, <2>2, <2>3 DEF Written
<1>6. Owns(q)'
  <2>1. \A d \in Dirs : journal'[d] = q => journal[d] = q
    BY <1>2 DEF Written
  <2>2. strayed \subseteq strayed'
    BY <1>2 DEF Written
  <2> QED BY <1>0, <1>1, <2>1, <2>2 DEF Owns
<1>7. Ends(q)'
  <2>1. ASSUME q \in committed, strayed' = {} PROVE journal'[cap[q].dir] # q
    <3>1. strayed = {} /\ journal[cap[q].dir] # q /\ cap[q].dir \in Dirs
      BY <1>0, <1>2, <2>1 DEF Ends, Written, Types, Capability
    <3> QED BY <1>2, <3>1 DEF Written
  <2> QED BY <1>0, <1>1, <2>1 DEF Ends
<1> QED BY <1>4, <1>5, <1>6, <1>7 DEF Local

\* A move takes the path away from every session; none writes anything.
LEMMA MoveStep ==
  ASSUME LockInv, Move
  PROVE  LockInv'
<1>0. Types
  BY DEF LockInv
<1>1. Types'
  <2>1. moved' \in [Procs -> [Callers -> BOOLEAN]]
    <3>1. \A p \in Procs : Alive(p) \in BOOLEAN
      BY DEF Alive
    <3> QED BY <3>1 DEF Move
  <2> QED BY <1>0, <2>1 DEF Types, Move, ending
<1>2. ASSUME NEW p \in Procs PROVE Local(p)'
  <2>0. Holds(p) /\ Claimed(p) /\ Stage(p) /\ Owns(p) /\ Ends(p)
    BY DEF LockInv
  <2>1. Holds(p)' /\ Claimed(p)' /\ Stage(p)'
    BY <2>0 DEF Holds, Claimed, Stage, Move, ending
  <2>2. \A c \in Callers : pc[p] \in Opened => moved'[p][c]
    BY DEF Move, Alive, Opened, Inside, InBody
  <2>3. Stays(p)'
    BY <2>2 DEF Stays, Move
  <2>4. Plans(p)'
    BY <2>2, LockAssumption DEF Plans, Idle, Move, Opened, Inside, InBody
  <2>5. Owns(p)' /\ Ends(p)'
    BY <2>0 DEF Owns, Ends, Move, ending
  <2> QED BY <2>1, <2>3, <2>4, <2>5 DEF Local
<1> QED BY <1>1, <1>2 DEF LockInv, Local

LEMMA ActingStep ==
  ASSUME LockInv, NEW p \in Procs, Steps(p)
  PROVE  Types' /\ Local(p)'
  BY OpenStep, ClaimStep, BusyStep, InspectStep, SetupFailsStep, RequireStep, LeaseStep,
     RefusedStep, ReturnStep, RecoverStep, RecoverIncompleteStep, PublishStep, MarkStep,
     CleanStep, CommitFailsStep, EnsureDryRunSafeStep, LoadStep, PlanStep, BodyFailsStep,
     DeactivateStep, UnlockStep, CloseStep, SettleStep, GoneStep
     DEF Steps, Session, Operate, Exit, Kill

LEMMA LockInvStep ==
  ASSUME LockInv, [Next]_vars
  PROVE  LockInv'
<1>1. ASSUME NEW p \in Procs, Steps(p) PROVE LockInv'
  <2>1. Types' /\ Local(p)'
    BY <1>1, ActingStep
  <2>2. \A q \in Procs \ {p} : Local(q)'
    BY <1>1, OthersStep
  <2> QED BY <2>1, <2>2 DEF LockInv, Local
<1>2. CASE Move
  BY <1>2, MoveStep
<1>3. CASE UNCHANGED vars
  BY <1>3 DEF LockInv, Types, Holds, Claimed, Stage, Stays, Plans, Owns, Ends, Idle, vars
<1> QED BY <1>1, <1>2, <1>3 DEF Next, Steps

LEMMA LockInvInit == Init => LockInv
<1> SUFFICES ASSUME Init PROVE LockInv
  OBVIOUS
<1>1. Types
  BY DEF Init, Types, Modes, Phases, Errors
<1>2. ASSUME NEW p \in Procs PROVE Local(p)
  BY LockAssumption DEF Init, Local, Holds, Claimed, Stage, Stays, Plans, Owns, Ends,
     Inside, InBody, Opened, Over, Leased
<1> QED BY <1>1, <1>2 DEF LockInv, Local

\* The inductive invariant of sessions: who holds which lock, and for what.
THEOREM SessionsInvariant == Spec => []LockInv
<1>1. LockInv /\ [Next]_vars => LockInv'
  BY LockInvStep
<1> QED BY LockInvInit, <1>1, PTL DEF Spec

\* Whatever order threads ask in and the block is left in, and however many
\* processes compete, one operation at a time works under a capability, and one of
\* the main thread only while its process holds the lock (reconcile_lock,
\* _reconcile_operation_lease).
THEOREM OneLeaseAtATime == Spec => []LeaseIsExclusive
<1>1. LockInv => LeaseIsExclusive
  <2> SUFFICES ASSUME LockInv PROVE LeaseIsExclusive
    OBVIOUS
  <2>1. TypeOK
    BY DEF LockInv, TypeOK, Types, Holds, Inside
  <2>2. ASSUME NEW p \in Procs, NEW c \in Callers, op[p][c] \in Leased
        PROVE  /\ cap[p].in_use
               /\ \A b \in Callers \ {c} : op[p][b] \notin Leased
               /\ c = Main => cap[p].active /\ holder[cap[p].dir] = p
    <3>1. Holds(p) /\ Claimed(p) /\ Stage(p)
      BY DEF LockInv
    <3>2. op[p][c] # "none"
      BY <2>2 DEF Leased
    <3>3. cap[p] # None /\ cap[p].in_use /\ \A b \in Callers \ {c} : op[p][b] \notin Leased
      BY <2>2, <3>1, <3>2 DEF Claimed
    <3>4. c = Main => pc[p] \in Inside
      BY <2>2, <3>1 DEF Stage, Leased, Inside, InBody
    <3> QED BY <3>1, <3>3, <3>4 DEF Holds
  <2> QED BY <2>1, <2>2 DEF LeaseIsExclusive
<1> QED BY SessionsInvariant, <1>1, PTL

\* Only the claim of a lease starts an operation.
LEMMA OthersStartNothing ==
  ASSUME Types, NEW p \in Procs, Steps(p), ~\E c \in Callers : Lease(p, c),
         NEW c \in Callers, op[p][c] \notin Leased
  PROVE  op'[p][c] \notin Leased
<1>0. op \in [Procs -> [Callers -> {"none", "checked"} \cup Leased]]
  BY DEF Types
<1> USE LockAssumption
<1>1. CASE \E b \in Callers : Require(p, b) \/ Refused(p, b)
  <2>1. PICK b \in Callers, s \in {"none", "checked"} : SetOp(p, b, s)
    BY <1>1 DEF Require, Refused
  <2>2. op'[p][b] = s /\ \A a \in Callers \ {b} : op'[p][a] = op[p][a]
    BY <2>1, SetOpFacts
  <2> QED BY <2>2 DEF Leased
<1>2. CASE \E b \in Callers : Return(p, b)
  <2>1. PICK b \in Callers : SetOp(p, b, "none")
    BY <1>2 DEF Return
  <2>2. op'[p][b] = "none" /\ \A a \in Callers \ {b} : op'[p][a] = op[p][a]
    BY <2>1, SetOpFacts
  <2> QED BY <2>2 DEF Leased
<1>3. ASSUME NEW b \in Callers, op[p][b] \in Leased, NEW s \in Leased, SetOp(p, b, s)
      PROVE  op'[p][c] \notin Leased
  <2>1. \A a \in Callers \ {b} : op'[p][a] = op[p][a]
    BY <1>3, SetOpFacts
  <2> QED BY <1>3, <2>1
<1>4. CASE \E b \in Callers : Recover(p, b) \/ RecoverIncomplete(p, b)
  <2>1. PICK b \in Callers : Recovering(p, b) /\ SetOp(p, b, "returning")
    BY <1>4 DEF Recover, RecoverIncomplete
  <2> QED BY <1>3, <2>1 DEF Recovering, Leased
<1>5. CASE Publish(p) \/ Mark(p) \/ Clean(p) \/ CommitFails(p)
  <2>1. op[p][Main] \in Leased /\ \E s \in Leased : SetOp(p, Main, s)
    BY <1>5 DEF Publish, Mark, Clean, CommitFails, Leased
  <2> QED BY <1>3, <2>1
<1>6. CASE Gone(p)
  BY <1>0, <1>6 DEF Gone, Leased
<1>7. CASE op' = op
  BY <1>7
<1>8. CASE (\E m \in Modes : Open(p, m)) \/ Claim(p) \/ Busy(p) \/ Inspect(p) \/ SetupFails(p)
  BY <1>7, <1>8 DEF Open, Claim, Busy, Inspect, SetupFails
<1>9. CASE EnsureDryRunSafe(p) \/ Load(p) \/ Plan(p) \/ BodyFails(p) \/ Deactivate(p)
  BY <1>7, <1>9 DEF EnsureDryRunSafe, Load, Plan, BodyFails, Deactivate
<1>10. CASE Unlock(p) \/ Close(p) \/ Settle(p)
  BY <1>7, <1>10 DEF Unlock, Close, Settle
<1> QED BY <1>1, <1>2, <1>4, <1>5, <1>6, <1>8, <1>9, <1>10 DEF Steps, Session, Operate, Exit, Kill

\* An operation of any caller begins while the capability is active and the lock
\* of its directory held: _claim_operation looks again at what
\* _require_reconcile_lock saw, and _deactivate comes before the release.
THEOREM LeasesStartUnderLock == Spec => LeasesBeginLocked
<1> DEFINE Start(p, c) ==
      op[p][c] \notin Leased /\ op'[p][c] \in Leased => cap[p].active /\ holder[cap[p].dir] = p
<1>1. LockInv /\ [Next]_vars => [\A p \in Procs, c \in Callers : Start(p, c)]_vars
  <2> SUFFICES ASSUME LockInv, [Next]_vars, NEW p \in Procs, NEW c \in Callers,
                      op[p][c] \notin Leased, op'[p][c] \in Leased
               PROVE  cap[p].active /\ holder[cap[p].dir] = p
    OBVIOUS
  <2>0. Types /\ Holds(p) /\ Claimed(p)
    BY DEF LockInv
  <2>1. Steps(p)
    <3>1. \A q \in Procs \ {p} : Steps(q) => op'[p] = op[p]
      BY <2>0, Footprint DEF Untouched
    <3>2. Move \/ UNCHANGED vars => op' = op
      BY DEF Move, vars
    <3> QED BY <3>1, <3>2 DEF Next, Steps
  <2>2. PICK b \in Callers : Lease(p, b)
    BY <2>0, <2>1, OthersStartNothing
  <2>3. op[p][b] = "checked" /\ cap[p].active
    BY <2>2 DEF Lease, Available
  <2>4. cap[p] # None
    BY <2>0, <2>3 DEF Claimed
  <2> QED BY <2>0, <2>3, <2>4 DEF Holds
<1> QED BY SessionsInvariant, <1>1, PTL DEF Spec, LeasesBeginLocked

\* A session plans only from a tree without a journal (recovery before the plan,
\* the refusal of a dry run), as long as the path stayed where it was.
THEOREM PlansFromRecoveredTree == Spec => []PlansWithoutJournal
<1>1. LockInv => PlansWithoutJournal
  BY DEF LockInv, PlansWithoutJournal, Plans
<1> QED BY SessionsInvariant, <1>1, PTL

\* No failure to release or close the lock hides an error or reports a success,
\* and a success leaves no lock, descriptor, lease of its own or journal behind.
THEOREM EndsAreHonest == Spec => []OutcomesAreHonest
<1>1. LockInv => OutcomesAreHonest
  <2> SUFFICES ASSUME LockInv, NEW p \in Procs, pc[p] = "done"
               PROVE  /\ raised[p] # "none" => error[p] = raised[p]
                      /\ failures[p] # {} => error[p] # "none"
                      /\ error[p] = "none" =>
                           /\ fd[p] = None /\ \A d \in Dirs : holder[d] # p
                           /\ op[p][Main] \notin Leased
                           /\ p \in committed /\ strayed = {} => journal[cap[p].dir] # p
    BY DEF OutcomesAreHonest
  <2>1. Stage(p) /\ Ends(p)
    BY DEF LockInv
  <2>2. op[p][Main] \notin Leased
    BY <2>1 DEF Stage, Leased
  <2> QED BY <2>1, <2>2 DEF Ends
<1> QED BY SessionsInvariant, <1>1, PTL

\* No journal changes but under the lock of its directory, and none is taken from
\* a transaction that runs in another process, unless the path came to name
\* another directory after the validation of the lease, or the operation outlived
\* the block of its session.
THEOREM JournalsKeptUnderLock == Spec => JournalsAreProtected
<1> DEFINE Kept == \A d \in Dirs \ strayed' : UnderTheLock(d) /\ \A p \in Procs : Outlives(d, p)
<1>1. LockInv /\ [Next]_vars => [Kept]_vars
  <2> SUFFICES ASSUME LockInv, [Next]_vars, NEW d \in Dirs \ strayed'
               PROVE  UnderTheLock(d) /\ \A p \in Procs : Outlives(d, p)
    OBVIOUS
  <2>1. ASSUME NEW q \in Procs, Steps(q) PROVE UnderTheLock(d) /\ \A p \in Procs : Outlives(d, p)
    <3>1. Written(q)
      BY <2>1, Writes
    <3>2. UnderTheLock(d)
      BY <3>1 DEF Written, UnderTheLock
    <3>3. ASSUME NEW p \in Procs, op[p][Main] \in {"published", "marked"}, op'[p] = op[p],
                 journal[d] = p, journal'[d] # p
          PROVE  FALSE
      <4>1. fd[q] = d /\ holder[d] = q /\ p # q
        BY <3>1, <3>3 DEF Written
      <4>2. pc[p] = "commit" /\ d \notin strayed
        BY <3>1, <3>3 DEF LockInv, Stage, Written
      <4>3. d = fd[p] /\ holder[d] = p
        BY <3>3, <4>2 DEF LockInv, Owns, Holds, Inside, InBody
      <4> QED BY <4>1, <4>3
    <3> QED BY <3>2, <3>3 DEF Outlives
  <2>2. CASE Move \/ UNCHANGED vars
    BY <2>2 DEF Move, vars, UnderTheLock, Outlives
  <2> QED BY <2>1, <2>2 DEF Next, Steps
<1> QED BY SessionsInvariant, <1>1, PTL DEF Spec, JournalsAreProtected
=================================================================================
