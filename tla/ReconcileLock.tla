------------------------------ MODULE ReconcileLock ------------------------------
(* Sessions of `reconcile`: the advisory lock on the project root's directory,  *)
(* the capability that stands for it, the leases of single operations, and how  *)
(* a session ends.  The transaction itself is ReconcileTransaction; here it is  *)
(* only the journal that an operation publishes, marks and removes by path.     *)
EXTENDS Naturals, FiniteSets

CONSTANTS
  Procs,        \* processes, each of which runs the command once
  Callers,      \* threads of a process that use the session's capability
  Main,         \* the thread that entered the `with` block
  Dirs,         \* directories that the project root's path may come to name
  Resolved,     \* Resolved[d]: the canonical path while the path names d
  None,
  MaxMoves, MaxFaults, MaxKills

\* A session's ReconcileLock: the directory whose descriptor is locked, its path
\* when it was opened, whether it still stands and whether an operation uses it.
Capability == [dir : Dirs, path : {Resolved[d] : d \in Dirs},
               active : BOOLEAN, in_use : BOOLEAN]

ASSUME LockAssumption ==
  /\ Main \in Callers
  /\ DOMAIN Resolved = Dirs
  /\ None \notin Procs \cup Dirs \cup Capability

VARIABLES
  root,         \* the directory that the project root's path names
  holder,       \* holder[d]: the process whose descriptor holds the flock of d
  journal,      \* journal[d]: the process that wrote the journal in d, or None
  mode, pc,     \* mode[p], pc[p]: the command and how far its session is
  fd,           \* fd[p]: the directory that p has open, or None
  cap,          \* cap[p]: the ReconcileLock of p's session, or None
  op,           \* op[p][c]: the operation that caller c has under way
  committed,    \* processes whose commit returned in this session
  failures,     \* failures[p]: the lock calls that failed as the session ended
  raised,       \* raised[p]: the first error of the session's body or setup
  error,        \* error[p]: the error the command ends with
  moved,        \* moved[p][c]: the path changed since c's lease was validated
  strayed,      \* directories an operation wrote to after the path had moved or
                \* the session's block had been left
  moves, faults, kills

world == <<root, holder, journal, strayed>>
counts == <<moves, faults, kills>>
ending == <<failures, raised, error>>
vars == <<root, holder, journal, strayed, mode, pc, fd, cap, op, committed,
          failures, raised, error, moved, moves, faults, kills>>

Modes == {"run", "dry", "recover"}
InBody == {"recover", "safe", "load", "plan", "commit", "leave"}
Phases == {"idle", "claim", "inspect", "deactivate", "unlock", "close",
           "report", "done", "gone"} \cup InBody
Leased == {"leased", "published", "marked", "returning"}
Errors == {"none", "setup", "busy", "lease", "journal", "incomplete", "load",
           "plan", "commit", "cleanup"}

Alive(p) == pc[p] \notin {"idle", "gone"}

Fault == /\ faults < MaxFaults
         /\ faults' = faults + 1
         /\ UNCHANGED <<moves, kills>>

-----------------------------------------------------------------------------
(* Entering: open the directory, flock it, inspect the descriptor.           *)

Open(p, m) ==
  /\ pc[p] = "idle"
  /\ mode' = [mode EXCEPT ![p] = m]
  /\ pc' = [pc EXCEPT ![p] = "claim"]
  /\ fd' = [fd EXCEPT ![p] = root]
  /\ moved' = [moved EXCEPT ![p] = [c \in Callers |-> FALSE]]
  /\ UNCHANGED <<world, cap, op, committed, ending, counts>>

Claim(p) ==
  /\ pc[p] = "claim" /\ holder[fd[p]] = None
  /\ holder' = [holder EXCEPT ![fd[p]] = p]
  /\ pc' = [pc EXCEPT ![p] = "inspect"]
  /\ UNCHANGED <<root, journal, strayed, mode, fd, cap, op, committed, ending,
                 moved, counts>>

\* The lock is never waited for; without it there is only a descriptor to close.
Busy(p) ==
  /\ pc[p] = "claim" /\ holder[fd[p]] # None
  /\ pc' = [pc EXCEPT ![p] = "close"]
  /\ raised' = [raised EXCEPT ![p] = "busy"]
  /\ error' = [error EXCEPT ![p] = "busy"]
  /\ UNCHANGED <<world, mode, fd, cap, op, committed, failures, moved, counts>>

Inspect(p) ==
  /\ pc[p] = "inspect"
  /\ cap' = [cap EXCEPT ![p] = [dir |-> fd[p], path |-> Resolved[root],
                                active |-> TRUE, in_use |-> FALSE]]
  /\ pc' = [pc EXCEPT ![p] = IF mode[p] = "dry" THEN "safe" ELSE "recover"]
  /\ UNCHANGED <<world, mode, fd, op, committed, ending, moved, counts>>

SetupFails(p) ==
  /\ Fault
  /\ \/ pc[p] = "claim" /\ pc' = [pc EXCEPT ![p] = "close"]
     \/ pc[p] = "inspect" /\ pc' = [pc EXCEPT ![p] = "unlock"]
  /\ raised' = [raised EXCEPT ![p] = "setup"]
  /\ error' = [error EXCEPT ![p] = "setup"]
  /\ UNCHANGED <<world, mode, fd, cap, op, committed, failures, moved>>

-----------------------------------------------------------------------------
(* Leases: each commit or recovery validates the capability and claims it.   *)

Idle(p, c) == op[p][c] = "none"

Wants(p, c) == IF c = Main THEN pc[p] \in {"recover", "commit"} ELSE cap[p] # None

\* Where an exception of the body goes: the block is left.
Raise(p, e) ==
  /\ pc' = [pc EXCEPT ![p] = "deactivate"]
  /\ raised' = [raised EXCEPT ![p] = e]
  /\ error' = [error EXCEPT ![p] = e]
  /\ UNCHANGED failures

SetOp(p, c, s) == op' = [op EXCEPT ![p][c] = s]

\* (wrong: the path is compared and the directory it names is not)
ProtectsPath(p) == cap[p].active /\ cap[p].path = Resolved[root]

Protects(p) ==
  cap[p].active /\ cap[p].path = Resolved[root] /\ cap[p].dir = root

Require(p, c) ==
  /\ Idle(p, c) /\ Wants(p, c) /\ Protects(p)
  /\ SetOp(p, c, "checked")
  /\ moved' = [moved EXCEPT ![p][c] = FALSE]
  /\ UNCHANGED <<world, mode, pc, fd, cap, committed, ending, counts>>

\* (wrong: what was validated is taken to be active still)
AvailableLate(p) == ~cap[p].in_use

\* (wrong: a second operation is let in beside the first)
AvailableShared(p) == cap[p].active

Available(p) == cap[p].active /\ ~cap[p].in_use

Lease(p, c) ==
  /\ op[p][c] = "checked" /\ Available(p)
  /\ cap' = [cap EXCEPT ![p].in_use = TRUE]
  /\ SetOp(p, c, "leased")
  /\ UNCHANGED <<world, mode, pc, fd, committed, ending, moved, counts>>

Refused(p, c) ==
  /\ \/ Idle(p, c) /\ c = Main /\ Wants(p, c) /\ ~Protects(p)
     \/ op[p][c] = "checked" /\ ~Available(p)
  /\ SetOp(p, c, "none")
  /\ IF c = Main THEN Raise(p, "lease") ELSE UNCHANGED <<pc, ending>>
  /\ UNCHANGED <<world, mode, fd, cap, committed, moved, counts>>

\* The operation returns or raises; its lease is given back in either case.
Return(p, c) ==
  /\ op[p][c] = "returning"
  /\ cap' = [cap EXCEPT ![p].in_use = FALSE]
  /\ SetOp(p, c, "none")
  /\ UNCHANGED <<world, mode, pc, fd, committed, ending, moved, counts>>

-----------------------------------------------------------------------------
(* What an operation does.  Every path it uses starts at the project root's   *)
(* path, so it writes to the directory that this path names now; nothing stops *)
(* the operation of another caller once the block is left.                    *)

Touch(p, c, j) ==
  /\ journal' = [journal EXCEPT ![root] = j]
  /\ strayed' = IF moved[p][c] \/ ~cap[p].active THEN strayed \cup {root} ELSE strayed
  /\ UNCHANGED <<root, holder>>

Recovering(p, c) == op[p][c] = "leased" /\ (c = Main => pc[p] = "recover")

\* Recovery ends with no journal; a caller other than Main only ends its operation.
Recover(p, c) ==
  /\ Recovering(p, c)
  /\ IF journal[root] = None THEN UNCHANGED world ELSE Touch(p, c, None)
  /\ SetOp(p, c, "returning")
  /\ pc' = IF c # Main THEN pc
           ELSE [pc EXCEPT ![p] = IF mode[p] = "run" THEN "load" ELSE "leave"]
  /\ UNCHANGED <<mode, fd, cap, committed, ending, moved, counts>>

\* (wrong: the run plans over a recovery that left a journal)
RecoverIncompleteIgnored(p, c) ==
  /\ Recovering(p, c) /\ Fault
  /\ SetOp(p, c, "returning")
  /\ pc' = IF c = Main /\ mode[p] = "run" THEN [pc EXCEPT ![p] = "load"] ELSE pc
  /\ UNCHANGED <<world, mode, fd, cap, committed, ending, moved>>

\* A destination that cannot be restored, an orphan or an error: the run stops
\* before it plans.  Under --recover an incomplete recovery is an ordinary
\* result, which is reported once the lock is released.
RecoverIncomplete(p, c) ==
  /\ Recovering(p, c) /\ Fault
  /\ SetOp(p, c, "returning")
  /\ IF c = Main
       THEN \/ Raise(p, "incomplete")
            \/ /\ mode[p] = "recover"
               /\ pc' = [pc EXCEPT ![p] = "leave"]
               /\ UNCHANGED ending
       ELSE UNCHANGED <<pc, ending>>
  /\ UNCHANGED <<world, mode, fd, cap, committed, moved>>

\* A journal is created, never put over another one.
Publish(p) ==
  /\ op[p][Main] = "leased" /\ pc[p] = "commit" /\ journal[root] = None
  /\ Touch(p, Main, p)
  /\ SetOp(p, Main, "published")
  /\ UNCHANGED <<mode, pc, fd, cap, committed, ending, moved, counts>>

\* The committed marker replaces whatever journal the path names.
Mark(p) ==
  /\ op[p][Main] = "published"
  /\ Touch(p, Main, p)
  /\ SetOp(p, Main, "marked")
  /\ UNCHANGED <<mode, pc, fd, cap, committed, ending, moved, counts>>

\* Cleanup removes the journal only if it has the bytes that were written.
Clean(p) ==
  /\ op[p][Main] = "marked" /\ journal[root] = p
  /\ Touch(p, Main, None)
  /\ SetOp(p, Main, "returning")
  /\ committed' = committed \cup {p}
  /\ pc' = [pc EXCEPT ![p] = "leave"]
  /\ UNCHANGED <<mode, fd, cap, ending, moved, counts>>

\* A conflict, a refused call or another journal in the way: the batch is taken
\* back, or its journal stays for recovery.
CommitFails(p) ==
  /\ pc[p] = "commit"
  /\ \/ op[p][Main] = "leased" /\ journal[root] # None /\ UNCHANGED counts
     \/ op[p][Main] = "marked" /\ journal[root] # p /\ UNCHANGED counts
     \/ op[p][Main] \in {"leased", "published", "marked"} /\ Fault
  /\ \/ UNCHANGED world
     \/ op[p][Main] = "published" /\ journal[root] = p /\ Touch(p, Main, None)
  /\ SetOp(p, Main, "returning")
  /\ Raise(p, "commit")
  /\ UNCHANGED <<mode, fd, cap, committed, moved>>

-----------------------------------------------------------------------------
(* The rest of the body, which the thread that entered the block runs.       *)

\* A dry run never recovers: it refuses a journal.
EnsureDryRunSafe(p) ==
  /\ pc[p] = "safe"
  /\ IF journal[root] = None
       THEN pc' = [pc EXCEPT ![p] = "load"] /\ UNCHANGED ending
       ELSE Raise(p, "journal")
  /\ UNCHANGED <<world, mode, fd, cap, op, committed, moved, counts>>

Load(p) ==
  /\ pc[p] = "load" /\ Idle(p, Main)
  /\ pc' = [pc EXCEPT ![p] = "plan"]
  /\ UNCHANGED <<world, mode, fd, cap, op, committed, ending, moved, counts>>

\* Nothing to write, or a dry run: the block is left without a commit.
Plan(p) ==
  /\ pc[p] = "plan"
  /\ \/ mode[p] = "run" /\ pc' = [pc EXCEPT ![p] = "commit"]
     \/ pc' = [pc EXCEPT ![p] = "leave"]
  /\ UNCHANGED <<world, mode, fd, cap, op, committed, ending, moved, counts>>

BodyFails(p) ==
  /\ pc[p] \in {"load", "plan"} /\ Idle(p, Main) /\ Fault
  /\ Raise(p, pc[p])
  /\ UNCHANGED <<world, mode, fd, cap, op, committed, moved>>

-----------------------------------------------------------------------------
(* Leaving: the capability dies first, then the lock is released, then the    *)
(* descriptor is closed, whatever failed before.  The main thread's own lease  *)
(* has been returned by then; an operation of another caller is not waited    *)
(* for, and may go on without capability and lock.                            *)

Deactivate(p) ==
  /\ pc[p] \in {"leave", "deactivate"} /\ Idle(p, Main)
  /\ cap' = [cap EXCEPT ![p].active = FALSE]
  /\ pc' = [pc EXCEPT ![p] = "unlock"]
  /\ UNCHANGED <<world, mode, fd, op, committed, ending, moved, counts>>

Freed(p) == [d \in Dirs |-> IF holder[d] = p THEN None ELSE holder[d]]

Unlock(p) ==
  /\ pc[p] = "unlock"
  /\ \/ /\ holder' = Freed(p)
        /\ UNCHANGED <<failures, counts>>
     \/ /\ Fault
        /\ failures' = [failures EXCEPT ![p] = @ \cup {"release"}]
        /\ UNCHANGED holder
  /\ pc' = [pc EXCEPT ![p] = "close"]
  /\ UNCHANGED <<root, journal, strayed, mode, fd, cap, op, committed, raised,
                 error, moved>>

\* Closing the descriptor frees the lock; a close that raises may have closed it
\* or not.
Close(p) ==
  /\ pc[p] = "close"
  /\ \/ /\ fd' = [fd EXCEPT ![p] = None] /\ holder' = Freed(p)
        /\ UNCHANGED <<failures, counts>>
     \/ /\ Fault
        /\ failures' = [failures EXCEPT ![p] = @ \cup {"close"}]
        /\ \/ fd' = [fd EXCEPT ![p] = None] /\ holder' = Freed(p)
           \/ UNCHANGED <<fd, holder>>
  /\ pc' = [pc EXCEPT ![p] = "report"]
  /\ UNCHANGED <<root, journal, strayed, mode, cap, op, committed, raised, error,
                 moved>>

\* (wrong: a failure to release the lock replaces the error of the body)
SettleMasking(p) ==
  /\ pc[p] = "report"
  /\ error' = [error EXCEPT ![p] =
                 IF failures[p] # {} THEN "cleanup" ELSE raised[p]]
  /\ pc' = [pc EXCEPT ![p] = "done"]
  /\ UNCHANGED <<world, mode, fd, cap, op, committed, failures, raised, moved,
                 counts>>

\* An error of the body stands, with the failures as a note; without one a
\* failure is the error.  Only a command without error reports.
Settle(p) ==
  /\ pc[p] = "report"
  /\ error' = [error EXCEPT ![p] =
                 IF raised[p] = "none" /\ failures[p] # {} THEN "cleanup" ELSE raised[p]]
  /\ pc' = [pc EXCEPT ![p] = "done"]
  /\ UNCHANGED <<world, mode, fd, cap, op, committed, failures, raised, moved,
                 counts>>

\* The process is gone, and with it every descriptor and every thread.
Gone(p) ==
  /\ pc' = [pc EXCEPT ![p] = "gone"]
  /\ fd' = [fd EXCEPT ![p] = None]
  /\ holder' = Freed(p)
  /\ cap' = [cap EXCEPT ![p] = None]
  /\ op' = [op EXCEPT ![p] = [c \in Callers |-> "none"]]
  /\ mode' = [mode EXCEPT ![p] = "run"]
  /\ committed' = committed \ {p}
  /\ failures' = [failures EXCEPT ![p] = {}]
  /\ raised' = [raised EXCEPT ![p] = "none"]
  /\ error' = [error EXCEPT ![p] = "none"]
  /\ moved' = [moved EXCEPT ![p] = [c \in Callers |-> FALSE]]
  /\ UNCHANGED <<root, journal, strayed>>

Exit(p) ==
  /\ pc[p] = "done"
  /\ Gone(p)
  /\ UNCHANGED counts

Kill(p) ==
  /\ Alive(p) /\ kills < MaxKills
  /\ kills' = kills + 1
  /\ Gone(p)
  /\ UNCHANGED <<moves, faults>>

\* Somebody moves the project directory away and another one into its place, or
\* retargets a link on the way to it.
Move ==
  /\ moves < MaxMoves
  /\ moves' = moves + 1
  /\ \E d \in Dirs \ {root} : root' = d
  /\ moved' = [p \in Procs |-> [c \in Callers |-> Alive(p)]]
  /\ UNCHANGED <<holder, journal, strayed, mode, pc, fd, cap, op, committed,
                 ending, faults, kills>>

-----------------------------------------------------------------------------
Init ==
  /\ root \in Dirs
  /\ holder = [d \in Dirs |-> None]
  /\ journal = [d \in Dirs |-> None]
  /\ strayed = {} /\ committed = {}
  /\ mode = [p \in Procs |-> "run"]
  /\ pc = [p \in Procs |-> "idle"]
  /\ fd = [p \in Procs |-> None]
  /\ cap = [p \in Procs |-> None]
  /\ op = [p \in Procs |-> [c \in Callers |-> "none"]]
  /\ failures = [p \in Procs |-> {}]
  /\ raised = [p \in Procs |-> "none"]
  /\ error = [p \in Procs |-> "none"]
  /\ moved = [p \in Procs |-> [c \in Callers |-> FALSE]]
  /\ moves = 0 /\ faults = 0 /\ kills = 0

Operate(p, c) == Require(p, c) \/ Lease(p, c) \/ Refused(p, c) \/ Return(p, c)
                 \/ Recover(p, c) \/ RecoverIncomplete(p, c)

Session(p) ==
  \/ \E m \in Modes : Open(p, m)
  \/ Claim(p) \/ Busy(p) \/ Inspect(p) \/ SetupFails(p)
  \/ \E c \in Callers : Operate(p, c)
  \/ Publish(p) \/ Mark(p) \/ Clean(p) \/ CommitFails(p)
  \/ EnsureDryRunSafe(p) \/ Load(p) \/ Plan(p) \/ BodyFails(p)
  \/ Deactivate(p) \/ Unlock(p) \/ Close(p) \/ Settle(p) \/ Exit(p)

Next == (\E p \in Procs : Session(p) \/ Kill(p)) \/ Move

Spec == Init /\ [][Next]_vars

-----------------------------------------------------------------------------
\* Types; a body, and an exception on its way out of it, has a capability of the
\* directory that is open.
TypeOK ==
  /\ root \in Dirs /\ strayed \subseteq Dirs /\ committed \subseteq Procs
  /\ holder \in [Dirs -> Procs \cup {None}]
  /\ journal \in [Dirs -> Procs \cup {None}]
  /\ mode \in [Procs -> Modes] /\ pc \in [Procs -> Phases]
  /\ fd \in [Procs -> Dirs \cup {None}]
  /\ cap \in [Procs -> Capability \cup {None}]
  /\ op \in [Procs -> [Callers -> {"none", "checked"} \cup Leased]]
  /\ failures \in [Procs -> SUBSET {"release", "close"}]
  /\ raised \in [Procs -> Errors] /\ error \in [Procs -> Errors]
  /\ moved \in [Procs -> [Callers -> BOOLEAN]]
  /\ \A p \in Procs : pc[p] \in InBody \cup {"deactivate"} =>
       cap[p] # None /\ cap[p].dir = fd[p]

\* Whatever the order in which threads ask for a lease and the block is left,
\* one operation at a time works under a capability, and one of the thread that
\* entered the block only while the lock of its directory is held.  (Another
\* caller's operation may outlive the block; JournalsAreProtected says what of.)
LeaseIsExclusive ==
  /\ TypeOK
  /\ \A p \in Procs, c \in Callers : op[p][c] \in Leased =>
       /\ cap[p].in_use
       /\ \A b \in Callers \ {c} : op[p][b] \notin Leased
       /\ c = Main => cap[p].active /\ holder[cap[p].dir] = p

\* Any caller's operation begins under an active capability, while its process
\* holds the directory's lock: the block may have been left, or the lock taken by
\* another process, since the validation, and the claim looks again.
LeasesBeginLocked ==
  [][\A p \in Procs, c \in Callers :
       op[p][c] \notin Leased /\ op'[p][c] \in Leased =>
         cap[p].active /\ holder[cap[p].dir] = p]_vars

\* From recovery (or the refusal of a dry run) until it asks for the lease of its
\* commit, a session sees no journal: it plans from a tree that is not half changed.
PlansWithoutJournal ==
  \A p \in Procs :
    (/\ pc[p] \in {"load", "plan"} \/ (pc[p] = "commit" /\ Idle(p, Main))
     /\ ~moved[p][Main] /\ root \notin strayed)
    => journal[root] = None

\* A journal changes under an operation of whoever holds its directory's lock.
UnderTheLock(d) ==
  journal'[d] # journal[d] =>
    \E p \in Procs, c \in Callers :
      op[p][c] \in Leased /\ op'[p][c] # op[p][c] /\ holder[d] = p

\* The journal of a transaction that is still running does not go.
Outlives(d, p) ==
  (op[p][Main] \in {"published", "marked"} /\ op'[p] = op[p] /\ journal[d] = p) => journal'[d] = p

\* The lock is on a directory and every write goes by path.  No journal changes
\* without the lock of its directory, and recovery takes none away from a
\* transaction that another process is running, but for two causes: the path came
\* to name another directory after the operation's validation, or the operation
\* is one of a second caller that its session's block did not wait for.
JournalsAreProtected ==
  [][\A d \in Dirs \ strayed' : UnderTheLock(d) /\ \A p \in Procs : Outlives(d, p)]_vars

\* Releasing or closing the lock may fail after anything: the error of the body
\* stands, and without one the failure is the command's error.  Success is reported
\* only when nothing of the session is left behind: no lock, no descriptor, no lease
\* of the thread that reports, and (nothing having strayed) no journal of its own.
OutcomesAreHonest ==
  \A p \in Procs : pc[p] = "done" =>
    /\ raised[p] # "none" => error[p] = raised[p]
    /\ failures[p] # {} => error[p] # "none"
    /\ error[p] = "none" =>
         /\ fd[p] = None /\ \A d \in Dirs : holder[d] # p
         /\ op[p][Main] \notin Leased
         /\ p \in committed /\ strayed = {} => journal[cap[p].dir] # p
=============================================================================
