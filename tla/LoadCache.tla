----------------------------- MODULE LoadCache -----------------------------
(***************************************************************************)
(* The opt-in load cache (cache/, orchestrate._load_cached; AD-12): one     *)
(* cache file, the slot, shared by every checkout and every running         *)
(* command, without a lock.  An entry holds the facts derived from a        *)
(* document's bytes, the hash of those bytes, and for each checkout (root)  *)
(* that claims it the stat it last saw.  A command that trusts stats takes  *)
(* an entry whose stat matches without opening the file; otherwise it reads *)
(* the file and takes the entry if the hash matches.  It writes the slot    *)
(* back after the lattice is built, and the last writer wins.               *)
(*                                                                         *)
(* A stat is [id, stamp]: the device and inode that say which file it is,   *)
(* and its size with its mtime.  A rewrite gives a file a stamp it never    *)
(* had, or reuses one (a tool that restores the mtime, a clock that has not *)
(* ticked), which the history variable `reused` records.  Hashes are        *)
(* equality of bytes.                                                       *)
(***************************************************************************)
EXTENDS Naturals, Sequences, SequencesExt

CONSTANTS
  Processes,       \* running commands
  Roots,           \* checkouts that share the slot
  NumKeys,         \* documents 1..NumKeys of a checkout, in path order
  Files,           \* identities (device, inode) of files
  Bytes,           \* contents of files
  Facts,           \* what a parse derives from a document
  Parse,           \* [Bytes -> Facts \cup {Malformed}]
  Malformed,       \* the document does not parse
  None,
  InitialPath,     \* [Roots -> [Keys -> Files \cup {None}]]: the checkouts at first
  InitialBytes,    \* [Files -> Bytes]: their contents
  cache_trust_stat,\* the configuration's cache_trust_stat
  MAX_STAT_ROOTS,  \* the longest ledger of roots
  MaxCommands, MaxEvents  \* how many commands run, and how much else happens

Keys == 1..NumKeys

ASSUME CacheKeysAssumption == NumKeys \in Nat
ASSUME ParseAssumption == Parse \in [Bytes -> Facts \cup {Malformed}] /\ Malformed \notin Facts
ASSUME CheckoutAssumption == /\ InitialPath \in [Roots -> [Keys -> Files \cup {None}]]
                             /\ InitialBytes \in [Files -> Bytes]
                             /\ None \notin Files /\ None \notin Facts
ASSUME CacheBoundsAssumption == /\ cache_trust_stat \in BOOLEAN
                                /\ MAX_STAT_ROOTS \in Nat \ {0}
                                /\ MaxCommands \in Nat /\ MaxEvents \in Nat

VARIABLES
  file,      \* file[f]: the bytes and the stamp of a file
  path,      \* path[r][k]: the file a document path reaches, or None
  denied,    \* files that may be stat-ed and not opened
  slot,      \* the cache file, or None if there is none that loads
  phase,     \* where each command stands
  command,   \* what each command is: its root, its effective_trust, its persist_cache
  todo,      \* documents it discovered and has not loaded yet
  handle,    \* the fstat of the document it has open, or None
  baseline,  \* the snapshot it loaded
  entries,   \* RunState._entries
  result,    \* the facts it has; RunState._discovered is where there are some
  reused,    \* history: files rewritten under a stamp they had before
  ticks,     \* history: the newest stamp each file had
  spent      \* the bounded events that already happened

progress == <<todo, handle, baseline, entries, result>>
disk == <<file, path, denied, reused, ticks>>
vars == <<disk, slot, phase, command, progress, spent>>

(***************************************************************************)
(* Entries and the slot.                                                    *)
(***************************************************************************)
Stats == [id : Files, stamp : Nat]
Entries == [file_sha256 : Bytes, payload : Facts, stats : [Roots -> Stats \cup {None}]]
CacheFiles == [roots : Seq(Roots), entries : [Keys -> Entries \cup {None}]]

Commands == [root : Roots \cup {None}, trust : BOOLEAN, persist : BOOLEAN]
NoCommand == [root |-> None, trust |-> FALSE, persist |-> FALSE]
Idle == {"ready", "ok", "error", "killed"}
Phases == Idle \cup {"stat", "open", "read", "build", "save"}

ASSUME ValuesAssumption == None \notin Stats /\ None \notin Entries /\ None \notin CacheFiles

First(S) == CHOOSE k \in S : \A j \in S : k <= j

NoEntries == [k \in Keys |-> None]
Spend(k) == [spent EXCEPT ![k] = @ + 1]
stat_record(f) == [id |-> f, stamp |-> file[f].stamp]

Discovered(p) == {k \in Keys : result[p][k] # None}
doc(p) == First(todo[p])
Reached(p) == path[command[p].root][doc(p)]

\* schema.make_entry: a fresh entry is claimed by the current root alone.
make_entry(b, st, r) ==
  [file_sha256 |-> b, payload |-> Parse[b],
   stats |-> [q \in Roots |-> IF q = r THEN st ELSE None]]

\* RunState.claim with the stat learned while verifying.
claim(e, r, st) == [e EXCEPT !.stats = [@ EXCEPT ![r] = st]]

(***************************************************************************)
(* RunState.complete: what a finished run would write.                      *)
(***************************************************************************)
touch_current_root(roots, r) == Append(RemoveFirst(roots, r), r)

kept_roots(roots) ==
  IF Len(roots) <= MAX_STAT_ROOTS THEN roots
  ELSE SubSeq(roots, Len(roots) - MAX_STAT_ROOTS + 1, Len(roots))

\* (wrong: evicted roots keep their claims)
withdrawn_unscrubbed(k, r, discovered, evicted) == IF k \in discovered THEN {} ELSE {r}

\* Claims withdrawn from entry k: the current root's if it did not discover
\* the document, and those of the roots evicted from the ledger.
withdrawn(k, r, discovered, evicted) ==
  evicted \cup (IF k \in discovered THEN {} ELSE {r})

without_claims(e, gone) ==
  [e EXCEPT !.stats = [q \in Roots |-> IF q \in gone THEN None ELSE e.stats[q]]]

\* _drop_unclaimed_entries
drop_unclaimed(e) == IF \A q \in Roots : e.stats[q] = None THEN None ELSE e

complete(old, es, r, discovered) ==
  LET touched == touch_current_root(IF old = None THEN <<>> ELSE old.roots, r)
      roots   == kept_roots(touched)
      evicted == ToSet(touched) \ ToSet(roots)
  IN  [roots |-> roots,
       entries |-> [k \in Keys |->
         IF es[k] = None THEN None
         ELSE drop_unclaimed(without_claims(es[k], withdrawn(k, r, discovered, evicted)))]]

Final(p) == complete(baseline[p], entries[p], command[p].root, Discovered(p))

(***************************************************************************)
(* A command.                                                               *)
(***************************************************************************)
\* (wrong: the stat tier whatever the policy says)
FirstTierTrusting(p, es, k) ==
  IF es[k] # None /\ es[k].stats[command'[p].root] # None THEN "stat" ELSE "open"

\* lookup.resolve tries the stat tier when the policy trusts stats and the
\* entry holds a record for the current root.
FirstTier(p, es, k) ==
  IF /\ command'[p].trust
     /\ es[k] # None
     /\ es[k].stats[command'[p].root] # None
  THEN "stat" ELSE "open"

Proceed(p, rest, es) ==
  /\ todo' = [todo EXCEPT ![p] = rest]
  /\ phase' = [phase EXCEPT ![p] = IF rest = {} THEN "build" ELSE FirstTier(p, es, First(rest))]

\* load_lattice: reconcile requires verified reads, and its dry run does not
\* persist; every other command takes the configuration's word.  store.load,
\* RunState.begin and the discovery of the documents.
Begin(p, r, require_verified, persist) ==
  LET es == IF slot = None THEN NoEntries ELSE slot.entries
  IN  /\ phase[p] \in Idle
      /\ spent.commands < MaxCommands
      /\ persist \/ require_verified
      /\ command' = [command EXCEPT ![p] =
           [root |-> r, trust |-> cache_trust_stat /\ ~require_verified, persist |-> persist]]
      /\ baseline' = [baseline EXCEPT ![p] = slot]
      /\ entries' = [entries EXCEPT ![p] = es]
      /\ Proceed(p, {k \in Keys : path[r][k] # None}, es)
      /\ spent' = Spend("commands")
      /\ UNCHANGED <<disk, slot, handle, result>>

\* The command reports, or fails, or is killed.
End(p, how) ==
  /\ phase' = [phase EXCEPT ![p] = how]
  /\ todo' = [todo EXCEPT ![p] = {}]
  /\ handle' = [handle EXCEPT ![p] = None]
  /\ baseline' = [baseline EXCEPT ![p] = None]
  /\ entries' = [entries EXCEPT ![p] = NoEntries]
  /\ result' = [result EXCEPT ![p] = NoEntries]
  /\ command' = [command EXCEPT ![p] = NoCommand]
  /\ UNCHANGED disk

\* The facts of the document at hand, and what becomes of its entry.
Load(p, x, es) ==
  /\ result' = [result EXCEPT ![p][doc(p)] = x]
  /\ entries' = [entries EXCEPT ![p] = es]
  /\ handle' = [handle EXCEPT ![p] = None]
  /\ UNCHANGED <<disk, slot, command, baseline, spent>>
  /\ Proceed(p, todo[p] \ {doc(p)}, es)

\* lookup._stat_tier: a hit takes the entry and opens nothing, so that a document
\* nobody may open any more is a hit like another.
StatHit(p) ==
  /\ phase[p] = "stat"
  /\ Reached(p) # None
  /\ stat_record(Reached(p)) = entries[p][doc(p)].stats[command[p].root]
  /\ Load(p, entries[p][doc(p)].payload, entries[p])

StatMiss(p) ==
  /\ phase[p] = "stat"
  /\ Reached(p) # None
  /\ stat_record(Reached(p)) # entries[p][doc(p)].stats[command[p].root]
  /\ phase' = [phase EXCEPT ![p] = "open"]
  /\ UNCHANGED <<disk, slot, command, progress, spent>>

\* discovery.read_doc_bytes_and_stat: open and fstat, then read.
Open(p) ==
  /\ phase[p] = "open"
  /\ Reached(p) \notin {None} \cup denied
  /\ handle' = [handle EXCEPT ![p] = stat_record(Reached(p))]
  /\ phase' = [phase EXCEPT ![p] = "read"]
  /\ UNCHANGED <<disk, slot, command, todo, baseline, entries, result, spent>>

\* The document is gone and the stat or the open raises, or only the open does.
Unreadable(p) ==
  /\ \/ phase[p] \in {"stat", "open"} /\ Reached(p) = None
     \/ phase[p] = "open" /\ Reached(p) \in denied
  /\ End(p, "error")
  /\ UNCHANGED <<slot, spent>>

Verified(p) == /\ entries[p][doc(p)] # None
               /\ entries[p][doc(p)].file_sha256 = file[handle[p].id].bytes

\* (wrong: a verified entry is made anew)
VerifiedHitReplacing(p) ==
  /\ phase[p] = "read"
  /\ Verified(p)
  /\ Load(p, entries[p][doc(p)].payload,
            [entries[p] EXCEPT ![doc(p)] =
               make_entry(file[handle[p].id].bytes, handle[p], command[p].root)])

VerifiedHit(p) ==
  /\ phase[p] = "read"
  /\ Verified(p)
  /\ Load(p, entries[p][doc(p)].payload,
            [entries[p] EXCEPT ![doc(p)] = claim(@, command[p].root, handle[p])])

\* (wrong: the other roots keep their claims on the new entry)
MissKeepingClaims(p) ==
  LET b == file[handle[p].id].bytes
      fresh == make_entry(b, handle[p], command[p].root)
  IN  /\ phase[p] = "read"
      /\ ~Verified(p)
      /\ Parse[b] # Malformed
      /\ Load(p, Parse[b],
                [entries[p] EXCEPT ![doc(p)] =
                   IF @ = None THEN fresh
                   ELSE claim([fresh EXCEPT !.stats = entries[p][doc(p)].stats],
                              command[p].root, handle[p])])

\* A miss parses the bytes and replaces the entry.
Miss(p) ==
  LET b == file[handle[p].id].bytes
  IN  /\ phase[p] = "read"
      /\ ~Verified(p)
      /\ Parse[b] # Malformed
      /\ Load(p, Parse[b],
                [entries[p] EXCEPT ![doc(p)] = make_entry(b, handle[p], command[p].root)])

ParseFails(p) ==
  /\ phase[p] = "read"
  /\ ~Verified(p)
  /\ Parse[file[handle[p].id].bytes] = Malformed
  /\ End(p, "error")
  /\ UNCHANGED <<slot, spent>>

\* _assemble's end: build_lattice and enforce_coverage accept the documents
\* or raise.  A registration conflict, which raises between two documents,
\* counts as raised here: either way nothing is saved.
Build(p) ==
  /\ phase[p] = "build"
  /\ phase' = [phase EXCEPT ![p] = "save"]
  /\ UNCHANGED <<disk, slot, command, progress, spent>>

BuildFails(p) ==
  /\ phase[p] = "build"
  /\ End(p, "error")
  /\ UNCHANGED <<slot, spent>>

\* store.save_if_changed: one atomic replace, or none; a write that fails is
\* reported and swallowed, before or after it took effect.
Save(p) ==
  /\ phase[p] = "save"
  /\ slot' \in {slot} \cup (IF command[p].persist /\ Final(p) # baseline[p] THEN {Final(p)} ELSE {})
  /\ End(p, "ok")
  /\ UNCHANGED spent

Kill(p) ==
  /\ phase[p] \notin Idle
  /\ spent.events < MaxEvents
  /\ End(p, "killed")
  /\ spent' = Spend("events")
  /\ UNCHANGED slot

(***************************************************************************)
(* Everybody else.                                                          *)
(***************************************************************************)
\* A rewrite in place, under a new stamp or one the file had before.
Write(f, b, t) ==
  /\ <<b, t>> # <<file[f].bytes, file[f].stamp>>
  /\ spent.events < MaxEvents
  /\ file' = [file EXCEPT ![f] = [bytes |-> b, stamp |-> t]]
  /\ reused' = IF t <= ticks[f] THEN reused \cup {f} ELSE reused
  /\ ticks' = [ticks EXCEPT ![f] = IF t <= ticks[f] THEN @ ELSE t]
  /\ spent' = Spend("events")
  /\ UNCHANGED <<path, denied, slot, phase, command, progress>>

\* The mode of a file forbids to read it, or allows it again; its stat stays.
Chmod(f) ==
  /\ spent.events < MaxEvents
  /\ denied' = IF f \in denied THEN denied \ {f} ELSE denied \cup {f}
  /\ spent' = Spend("events")
  /\ UNCHANGED <<file, path, reused, ticks, slot, phase, command, progress>>

\* A document appears, goes, or its path comes to reach another file (a
\* rename over it, a retargeted symlink).
Link(r, k, f) ==
  /\ f # path[r][k]
  /\ spent.events < MaxEvents
  /\ path' = [path EXCEPT ![r][k] = f]
  /\ spent' = Spend("events")
  /\ UNCHANGED <<file, denied, reused, ticks, slot, phase, command, progress>>

\* The cache is deleted, damaged, or of another version: store.load sees none.
Discard ==
  /\ slot # None
  /\ spent.events < MaxEvents
  /\ slot' = None
  /\ spent' = Spend("events")
  /\ UNCHANGED <<disk, phase, command, progress>>

Init ==
  /\ file = [f \in Files |-> [bytes |-> InitialBytes[f], stamp |-> 0]]
  /\ path = InitialPath
  /\ denied = {}
  /\ slot = None
  /\ phase = [p \in Processes |-> "ready"]
  /\ command = [p \in Processes |-> NoCommand]
  /\ todo = [p \in Processes |-> {}]
  /\ handle = [p \in Processes |-> None]
  /\ baseline = [p \in Processes |-> None]
  /\ entries = [p \in Processes |-> NoEntries]
  /\ result = [p \in Processes |-> NoEntries]
  /\ reused = {}
  /\ ticks = [f \in Files |-> 0]
  /\ spent = [commands |-> 0, events |-> 0]

Step(p) == \/ \E r \in Roots, v \in BOOLEAN, s \in BOOLEAN : Begin(p, r, v, s)
           \/ StatHit(p) \/ StatMiss(p) \/ Open(p) \/ Unreadable(p)
           \/ VerifiedHit(p) \/ Miss(p) \/ ParseFails(p)
           \/ Build(p) \/ BuildFails(p) \/ Save(p)

Environment == \/ \E p \in Processes : Kill(p)
               \/ \E f \in Files : \E b \in Bytes, t \in 0..(ticks[f] + 1) : Write(f, b, t)
               \/ \E f \in Files : Chmod(f)
               \/ \E r \in Roots, k \in Keys, f \in Files \cup {None} : Link(r, k, f)
               \/ Discard

Next == (\E p \in Processes : Step(p)) \/ Environment

Spec == Init /\ [][Next]_vars

(***************************************************************************)
(* Properties.                                                              *)
(***************************************************************************)
TypeOK ==
  /\ file \in [Files -> [bytes : Bytes, stamp : Nat]]
  /\ path \in [Roots -> [Keys -> Files \cup {None}]]
  /\ slot \in CacheFiles \cup {None}
  /\ phase \in [Processes -> Phases]
  /\ command \in [Processes -> Commands]
  /\ todo \in [Processes -> SUBSET Keys]
  /\ handle \in [Processes -> Stats \cup {None}]
  /\ baseline \in [Processes -> CacheFiles \cup {None}]
  /\ entries \in [Processes -> [Keys -> Entries \cup {None}]]
  /\ result \in [Processes -> [Keys -> Facts \cup {None}]]
  /\ denied \in SUBSET Files
  /\ reused \in SUBSET Files
  /\ ticks \in [Files -> Nat]

\* No claim of an entry mistakes a file for another, or old bytes for new
\* ones: a file that still has the claimed stat has the facts of the entry,
\* unless it was rewritten under a stamp it had before.  (lookup._stat_tier,
\* read_doc_bytes_and_stat, make_entry)
Sound(e) ==
  /\ Parse[e.file_sha256] = e.payload
  /\ \A r \in Roots : e.stats[r] # None =>
       LET st == e.stats[r]
       IN  /\ st.stamp <= ticks[st.id]
           /\ \/ st.id \in reused
              \/ file[st.id].stamp = st.stamp => Parse[file[st.id].bytes] = e.payload

Sources == {slot} \cup {baseline[p] : p \in Processes}

ClaimsAreSound ==
  /\ \A c \in Sources \ {None} : \A k \in Keys : c.entries[k] # None => Sound(c.entries[k])
  /\ \A p \in Processes, k \in Keys : entries[p][k] # None => Sound(entries[p][k])

\* The slot stays small and consistent whatever interleaving of commands
\* wrote it: at most MAX_STAT_ROOTS roots, none twice, no claim of a root
\* that left the ledger, no entry that nobody claims.  (RunState.complete)
SlotIsTidy ==
  /\ TypeOK
  /\ slot # None =>
       /\ Len(slot.roots) \in 1..MAX_STAT_ROOTS
       /\ IsInjective(slot.roots)
       /\ \A k \in Keys : slot.entries[k] # None =>
            LET claimants == {r \in Roots : slot.entries[k].stats[r] # None}
            IN  claimants # {} /\ claimants \subseteq ToSet(slot.roots)

Saves(p) == phase[p] = "save" /\ phase'[p] = "ok" /\ slot' # slot

\* A command of one checkout leaves the claims of the others as it found
\* them, except on documents whose bytes differ in its own checkout and for
\* roots that leave the ledger.  (RunState.complete; README, load cache:
\* checkouts share one warm cache)
OthersKeepTheirClaims(p) ==
  \A k \in Keys, q \in Roots \ {command[p].root} :
    LET old == baseline[p].entries[k]
        new == slot'.entries[k]
    IN  (baseline[p] # None /\ old # None /\ old.stats[q] # None /\ q \in ToSet(slot'.roots)) =>
          /\ new # None
          /\ \/ new.stats[q] = old.stats[q]
             \/ k \in Discovered(p) /\ new.file_sha256 # old.file_sha256

\* A command that writes the slot claims there exactly the documents it
\* discovered, with the facts it answered, and its checkout is the last that
\* eviction will reach: its next run starts warm, and a document that is gone
\* keeps no claim.  (RunState.claim, replace, complete)
WriterIsWarm(p) ==
  LET r == command[p].root
      claimed == {k \in Keys : slot'.entries[k] # None /\ slot'.entries[k].stats[r] # None}
  IN  /\ claimed = Discovered(p)
      /\ \A k \in claimed : slot'.entries[k].payload = result[p][k]
      /\ slot'.roots[Len(slot'.roots)] = r

\* Commands of several checkouts that save into one slot, without a lock, keep it
\* warm for their own checkout and do not spoil it for the others.
SavesKeepTheSlotWarm ==
  [][\A p \in Processes : Saves(p) => OthersKeepTheirClaims(p) /\ WriterIsWarm(p)]_vars

\* What an uncached load would call the state of a command and of its file.
UncachedPhase(v) == CASE v \in {"stat", "open", "read"} -> "load"
                      [] v = "save" -> "built"
                      [] OTHER -> v
OpenFile(h) == IF h = None THEN None ELSE h.id

Uncached == INSTANCE UncachedLoad WITH
  bytes    <- [f \in Files |-> file[f].bytes],
  phase    <- [p \in Processes |-> UncachedPhase(phase[p])],
  root     <- [p \in Processes |-> command[p].root],
  trusting <- [p \in Processes |-> command[p].trust],
  opened   <- [p \in Processes |-> OpenFile(handle[p])]

\* AD-12: with the cache, a command answers, fails and succeeds as it would
\* without, except for the stale content and the masked unreadability that
\* trusting stats accepts.
ImplementsUncachedLoad == Uncached!USpec
=============================================================================
