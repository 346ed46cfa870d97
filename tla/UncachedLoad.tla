---------------------------- MODULE UncachedLoad ----------------------------
(***************************************************************************)
(* What a cached load promises (AD-12): the result of a command is the one  *)
(* an uncached run would compute.  A command reads each document it         *)
(* discovered, one after the other, while anybody edits them.  There is no  *)
(* cache here.  Two concessions are documented, both to commands that trust *)
(* stats: such a command may answer anything for a file that was rewritten  *)
(* under a stat it had before, and may answer for a file that it could not  *)
(* open.                                                                    *)
(***************************************************************************)
EXTENDS Naturals

CONSTANTS Processes, Roots, NumKeys, Files, Bytes, Facts, Parse, Malformed, None

VARIABLES
  bytes,     \* the content of each file
  path,      \* the file each document path of each checkout reaches
  denied,    \* files that cannot be opened
  reused,    \* files that were rewritten under a stat they had before
  phase,     \* where each command stands
  root,      \* the checkout each command runs in
  trusting,  \* does the command trust stats?
  todo,      \* documents still to load
  opened,    \* the file the command has open, or None
  result     \* the facts the command has so far

uvars == <<bytes, path, denied, reused, phase, root, trusting, todo, opened, result>>

Keys == 1..NumKeys
Current(f) == Parse[bytes[f]]

First(S) == CHOOSE k \in S : \A j \in S : k <= j

Idle == {"ready", "ok", "error", "killed"}

Start(p, r, t) ==
  /\ phase[p] \in Idle
  /\ root' = [root EXCEPT ![p] = r]
  /\ trusting' = [trusting EXCEPT ![p] = t]
  /\ todo' = [todo EXCEPT ![p] = {k \in Keys : path[r][k] # None}]
  /\ phase' = [phase EXCEPT ![p] = IF todo'[p] = {} THEN "build" ELSE "load"]
  /\ UNCHANGED <<bytes, path, denied, reused, opened, result>>

Open(p) ==
  /\ phase[p] = "load" /\ opened[p] = None
  /\ path[root[p]][First(todo[p])] \notin {None} \cup denied
  /\ opened' = [opened EXCEPT ![p] = path[root[p]][First(todo[p])]]
  /\ UNCHANGED <<bytes, path, denied, reused, phase, root, trusting, todo, result>>

\* The facts of the file that is open, or that the path reaches now.
Answer(p, x) ==
  LET f == IF opened[p] # None THEN opened[p] ELSE path[root[p]][First(todo[p])]
  IN  /\ phase[p] = "load"
      /\ f # None
      /\ opened[p] = None /\ f \in denied => trusting[p]
      /\ x = Current(f) \/ (trusting[p] /\ opened[p] = None /\ f \in reused)
      /\ result' = [result EXCEPT ![p][First(todo[p])] = x]
      /\ todo' = [todo EXCEPT ![p] = @ \ {First(todo[p])}]
      /\ phase' = [phase EXCEPT ![p] = IF todo'[p] = {} THEN "build" ELSE "load"]
      /\ opened' = [opened EXCEPT ![p] = None]
      /\ UNCHANGED <<bytes, path, denied, reused, root, trusting>>

\* The command reports, or fails, or is killed, and leaves nothing behind.
End(p, how) ==
  /\ phase' = [phase EXCEPT ![p] = how]
  /\ todo' = [todo EXCEPT ![p] = {}]
  /\ opened' = [opened EXCEPT ![p] = None]
  /\ result' = [result EXCEPT ![p] = [k \in Keys |-> None]]
  /\ root' = [root EXCEPT ![p] = None]
  /\ trusting' = [trusting EXCEPT ![p] = FALSE]
  /\ UNCHANGED <<bytes, path, denied, reused>>

\* A document is gone, cannot be opened or does not parse, or the lattice cannot be built.
Refuse(p) ==
  /\ \/ phase[p] = "build"
     \/ phase[p] = "load" /\ opened[p] = None /\ path[root[p]][First(todo[p])] \in {None} \cup denied
     \/ phase[p] = "load" /\ opened[p] # None /\ Current(opened[p]) = Malformed
  /\ End(p, "error")

Build(p) ==
  /\ phase[p] = "build"
  /\ phase' = [phase EXCEPT ![p] = "built"]
  /\ UNCHANGED <<bytes, path, denied, reused, root, trusting, todo, opened, result>>

\* Once the lattice is built, nothing can turn the command into a failure.
Finish(p) == phase[p] = "built" /\ End(p, "ok")

Kill(p) == phase[p] \notin Idle /\ End(p, "killed")

Write(f, b, again) ==
  /\ bytes' = [bytes EXCEPT ![f] = b]
  /\ reused' = IF again THEN reused \cup {f} ELSE reused
  /\ UNCHANGED <<path, denied, phase, root, trusting, todo, opened, result>>

Chmod(f) ==
  /\ denied' = IF f \in denied THEN denied \ {f} ELSE denied \cup {f}
  /\ UNCHANGED <<bytes, path, reused, phase, root, trusting, todo, opened, result>>

Link(r, k, f) ==
  /\ path' = [path EXCEPT ![r][k] = f]
  /\ UNCHANGED <<bytes, denied, reused, phase, root, trusting, todo, opened, result>>

UInit ==
  /\ bytes \in [Files -> Bytes]
  /\ path \in [Roots -> [Keys -> Files \cup {None}]]
  /\ denied = {} /\ reused = {}
  /\ phase = [p \in Processes |-> "ready"]
  /\ root = [p \in Processes |-> None]
  /\ trusting = [p \in Processes |-> FALSE]
  /\ todo = [p \in Processes |-> {}]
  /\ opened = [p \in Processes |-> None]
  /\ result = [p \in Processes |-> [k \in Keys |-> None]]

UNext ==
  \/ \E p \in Processes :
       \/ \E r \in Roots, t \in BOOLEAN : Start(p, r, t)
       \/ Open(p) \/ Refuse(p) \/ Build(p) \/ Finish(p) \/ Kill(p)
       \/ \E x \in Facts : Answer(p, x)
  \/ \E f \in Files, b \in Bytes, again \in BOOLEAN : Write(f, b, again)
  \/ \E f \in Files : Chmod(f)
  \/ \E r \in Roots, k \in Keys, f \in Files \cup {None} : Link(r, k, f)

USpec == UInit /\ [][UNext]_uvars
=============================================================================
