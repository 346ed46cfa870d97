# A TLA+ model of doc-lattice

doc-lattice keeps a repository's documents in a *lattice*: documents declare
references to sections of other documents together with a hash of what they were
written against, and `check`, `lint`, `impact` and `reconcile` report or
acknowledge drift. This directory holds TLA+ modules that model the program,
TLC configurations that check them on small instances, and proofs that TLAPS
checks for every value of the constants. Paths below are relative to
`src/doc_lattice/` in the repository unless they name a document.

## 1. The system

| component | source | state it keeps | operations | properties that make it correct |
| --- | --- | --- | --- | --- |
| reconcile transaction | `reconcile_transaction.py`, `persistence.py` | journal and helper stages in the project root, before and after stages beside each destination, the destinations | prepare, publish, commit, mark, abort, reset, roll back, clean up, recover, scan orphans | an interrupted batch can always be rolled back or completed; nothing half done is reported done; other people's edits survive |
| reconcile command | `cli/commands/reconcile.py` | the lock lease of a session | lock, recover, plan, commit, report; `--recover`, `--dry-run` | recovery precedes planning; no report claims more than happened |
| reconcile planning | `reconcile.py`, `manifest_reconcile.py`, `sidecar_rewrite.py` | none (pure, over a fresh read) | select edges, group rewrites per document, apply to fresh bytes | only selected references change, and what merges them, whatever moved since the load; an undisturbed run settles, but for merges; a report is of what was written |
| load cache | `cache/` | one cache file per slot: verified entries and per-root stat claims | load, look up in the stat or verified tier, complete a run, save | a hit equals the uncached result (AD-12); claims stay within the ledger of roots; failures only cost time |
| lattice construction | `orchestrate.py`, `loader.py`, `sections.py`, `markdown_compat.py` | the lattice | register documents, derive sections, resolve edges, find collisions | spans partition the body; ambiguous anchors are found transitively; duplicates keep first position and last hash |
| lattice queries | `check.py`, `lint.py`, `impact.py`, `stale_shipped.py` | none | classify edges, rank, walk dependants, grade tickets | OK means that a reader finds what was accepted; impact foresees drift; a clean ladder holds along paths |
| discovery and selection | `discovery.py`, `path_selection.py`, `link_selectors.py` | none | walk, prune, match | walk and matcher mean the same by a selector; what stays while the walk goes on is found |
| link checking | `link_check.py` | none (a memo of targets for one run) | select sources, resolve links against the tree and the headings of their targets | a link that passes leads somewhere, a reported one does not, no source is missed |
| sidecar manifests | `sidecar_manifest.py`, `sidecar_coverage.py` | none | register, capture, demand coverage | each document is owned once; nothing that coverage demands is left out |
| frontmatter | `frontmatter_parser.py`, `yaml_boundary.py` | none | disposition of a document's head | a document that means to be a node is one, or is warned of |
| Linear client | `linear_client.py`, `linear_fetch.py`, `linear_query.py` | none | request with retries, batches | an audit ends; a report has every ticket, and a failed query fails it whole |
| configuration, runtime, scaffolding, rendering, release tooling | the rest | none of interest | validation, exit codes, text | sequential |

**Interaction.** A command loads the configuration, discovers documents, builds
the lattice (through the cache unless told otherwise) and computes its report.
Only `reconcile` writes documents. It takes the advisory lock of the project
root, recovers an outstanding transaction, loads the lattice with verified
reads, plans rewrites from a fresh read of each document, and hands the batch to
the transaction. Processes share nothing but the file system: the lock excludes
other `reconcile` processes, and nothing excludes editors, checkouts or other
tools.

**What is hard.** A crash between any two system calls; a call that raises after
it took effect (a rename whose directory fsync failed); a power loss that keeps
some names and loses others; edits at any moment; recovery that is itself
interrupted and rerun over what earlier runs consumed; a marker, a reset and an
unlink each of which may half happen. Elsewhere: stale cache claims, two
commands that replace one cache file, a plan applied to documents that moved
meanwhile, and boundary cases of section spans and anchor collisions.
`PROJECT.json` lists these hazards at their lines, with the properties that
cover them.

## 2. Plan

Done, in this order: the transaction with its abstract batch, its repair and its
proofs (`ReconcileTransaction`); the cache with the load it promises and its
proofs (`LoadCache`); sessions, lock and leases (`ReconcileLock`); the rewrite of
one document's frontmatter (`FrontmatterRewrite`) and the plan of a whole run
(`ReconcilePlan`); the lattice, the questions asked of it and the audit of
tickets (`Outline`, `Lattice`, `LatticeSession`, `LinearAudit`); enrollment of
documents and the link gate over a changing tree (`ProjectTree` to
`ProjectCommands`).

Proofs followed the models, in the same order: the transaction with its
refinement, the cache with its own, sessions, plans, the audit's report, the load
and the link gate, what a rollback does about edits, the questions asked of the
lattice, and last the rewrite of a document's frontmatter. What is left to TLC,
and why, is at the end of section 6.

## 3. Modules

| module | content |
| --- | --- |
| `ReconcileTransaction` | the transaction, its process and its environment; the properties; the wrong variants used to test them |
| `AtomicBatch` | what the operator is promised: a batch of documents changes in one step or not at all |
| `ReconcileRepair` | the operator's manual repair after a partial rollback |
| `ReconcileInvariant` | the inductive invariants of the transaction: `IInv`, `Provenance`, `DInv`, `Sealing`, and what its refinement needs |
| `ReconcileTransaction_proofs` | types; `IInv` and `Provenance` are inductive: rollback authority, visible and durable; success is durable, the journal goes last; `DInv` and `Sealing` are inductive: a marker stands over a whole batch, nothing marked for good is undone; what reconcile writes and overwrites; a batch is atomic; `Doubts` and `Impasse` are inductive: evidence is kept, an incomplete recovery stays as it is |
| `LoadCache` | the cache file, the commands that share it, and the files they read |
| `UncachedLoad` | what a cached load promises: the load without a cache |
| `LoadCache_proofs` | `CacheInv` and `TidyInv` are inductive; claims never mislead, the cached load implements the uncached one, the slot stays tidy and warm |
| `ReconcileLock` | sessions of several processes: lock, capability, leases, and how a session ends |
| `ReconcileLock_proofs` | `LockInv` is inductive; leases, plans, ends and journals of sessions |
| `FrontmatterRewrite` | the rewrite of the `seen` values of one document with anchors, aliases and merge keys |
| `FrontmatterRewrite_proofs` | the planner's edits load as what was meant; a rewrite is exact and settles |
| `ReconcilePlan` | a run from load to commit over files that others edit |
| `ReconcilePlan_proofs` | `PlanInv` and `QuietInv` are inductive; only selected edges change, quiet runs settle |
| `Outline` | the headings of one body: ids, collisions, spans, headings above |
| `Lattice` | the lattice and check, lint, impact and the audit triggers as functions of it |
| `LatticeSession` | an upstream document edited and reconciled over time |
| `LinearAudit` | the audit of tickets: batches, retries, grading; composed with the session |
| `LinearAudit_proofs` | `AuditInv` is inductive; a report is complete; the queries of the lattice are right of whole paths |
| `ProjectTree` | files, directories and links; containment |
| `PathSelection` | selectors, the lexical matcher and the walk |
| `Frontmatter` | what the head of a document says it is |
| `Enrollment` | configuration, registration, discovery, assembly and coverage of one load |
| `LinkGate` | sources, targets and verdicts of one run of the link gate |
| `ProjectCommands` | both commands over a tree that changes under them, with their properties |
| `ProjectCommands_proofs` | the matcher, the walk, what a load and a report of the link gate mean |
| `Iteration`, `Iteration_proofs` | sequences as a loop builds them; the recursions and inductions that the proofs cite |
| `MCReconcileTransaction`, `MCReconcileRepair`, `MCLoadCache`, `MCReconcileLock`, `MCFrontmatterRewrite`, `MCReconcilePlan`, `MCLinearAudit`, `MCProjectCommands` | constants for TLC |

**How they compose.** `LoadCache` is the acquisition phase that `Enrollment`
takes as one read per document, and `Enrollment` decides which documents
`Lattice` is built from. `ReconcileLock` is the session around `ReconcilePlan`;
`ReconcilePlan` takes the rewrite of one document, which `FrontmatterRewrite`
details, as one function and the commit, which `ReconcileTransaction` details, as
one step. What each takes for granted of the next is a property checked there: a
commit is all or nothing (`ImplementsAtomicBatch`), a rewrite sets exactly what was
selected (`RewriteIsExact`), a session plans without an outstanding journal
(`PlansWithoutJournal`), a cached load answers what an uncached one would
(`ImplementsUncachedLoad`). `LinearAudit` extends `LatticeSession`, which extends
`Lattice` and `Outline`; `ProjectCommands` extends `LinkGate`, `Enrollment`,
`PathSelection`, `Frontmatter` and `ProjectTree`.

### The state of `ReconcileTransaction`

*Directories.* `dir[d]` is the directory of destination `d`: `now` is what its
names show (`dest`, the staged `before` and `after` images) and `disk` the set
of images a power loss may leave. A rename or unlink adds an image; a
successful fsync (`persistence.sync_directory`) leaves only the one shown.
Every destination has a directory of its own, the weakest assumption: an fsync
for one destination never happens to cover another. `root` is the project root
with the journal and the count of helper stages (`.tmp` files of
`atomic_create_bytes` and `atomic_replace_bytes`). File *contents* are fsynced
by `stage_bytes` before any rename, so a name that survives has its bytes.

*Primitives.* `Primitive(D, img)` gives the outcomes of one durable rename or
unlink: done and synchronized; refused; or done with a failed fsync, where the
caller sees an error. `AtomicCreate` and `AtomicReplace` add the helper stage
and its cleanup, which may fail on their own.

*Process.* `pc` is the phase of the one process that holds the lock. `todo` is
what the loops over entries have left, in entry order (`First`) for commit and
in reverse (`Last`) for rollback; `left` is what the loops over stages have
left. `candidates` and `unresolved` are the sets of the same name in the code.
`held` is the journal record in memory, the `_PreparedTransaction`.

*History.* `decided` are the transactions past the point of no return: the
marker's write returned, or recovery found the marker and began cleanup. `by`
in a directory image names the transaction that wrote the destination (0 for
bytes from before or restored bytes, `User` for an edit). `dirty` are the
destinations edited since reconcile last read them, `overlaid` those edited over
an undecided after image. `sealed` are the transactions whose own process saw the
write of the marker return, `tainted` the destinations one of whose stages was
damaged or removed between its authentication and its rename, and `revived` says
whether a power loss ever brought back a journal other than the one shown. `report`
is how the last command ended, and returns to
`"none"` when something makes an "incomplete" report out of date.

### Actions and code

| actions | code |
| --- | --- |
| `Begin`, `RecoverNothing`, `RecoverRefused`, `RecoverPrepared`, `RecoverCommitted`, `Scan` | the session of `cli/commands/reconcile.py`; `_recover_transaction_locked`, `_load_journal`, `_authenticate_transaction_artifacts`, `_scan_orphan_artifacts` |
| `Plan`, `PlanNothing` | `_plan_writes`: the fresh read; any selection of the documents that need a rewrite |
| `Stage`, `Publish`, `Unpublish`, `Unstage`, `Unstaged`, `Load` | `_prepare_transaction`, `stage_bytes`, `_cleanup_failed_journal_publication`, `_cleanup_unpublished_stages` |
| `Fingerprint`, `Authenticate`, `Replace`, `ReplaceRefused` | the loop of `_commit_rewrites_locked`: read, authenticate and rename are three calls |
| `Mark`, `Reset` | the committed marker; `_abort_failed_marker` and `_reset_prepared_journal` |
| `Abort`, `Classify`, `AuthenticateBefore`, `Restore`, `RestoreRefused`, `Settle` | `_abort_prepared`, `_rollback_prepared`, `_classify_destination`, `_restore_destination` |
| `CleanStage`, `CleanStageRefused`, `UnlinkJournal`, `RestoreJournal` | `_cleanup_staged_artifact`, `_cleanup_journal`, `_restore_journal`, `_resync_after_unlink` |
| `ReadFault` | an `OSError` of a read that ends the command where it stands |
| `Crash`, `PowerLoss`, `Edit`, `TamperStage`, `TamperJournal`, `SetAside` | the environment: the process is killed, power is lost, somebody edits a destination, a stage or the journal is damaged or removed, the operator moves the evidence aside as RECONCILE.md describes |

A crash *inside* a primitive is a primitive that took one of its outcomes and
then a crash before the next step, so it needs no action of its own: a kill between a
rename and its fsync is the outcome "done with a failed fsync" and then `Crash`.

The code has two windows, and the model has both. A destination is read by one call
and renamed over by a later one: `WindowEdits` says whether an edit may land in
between. A stage is authenticated by one call and renamed by a later one: damage in
between reaches the destination, and `tainted` records it; a stage that was removed
there makes the rename fail.

What is abstracted: bytes are three values, a rewrite is a function
`Reconciled` on them that is idempotent; digests are equality of bytes; names of
stages are unique, as `mkstemp` makes them (transaction number); directory and
file modes, journal field validation (an invalid journal is `Foreign`) and the
text of errors are left out. A competing process is refused by `flock` and does
nothing, so one process is modelled at a time; the lock is `ReconcileLock`.

### `LoadCache`

*Files.* `path[r][k]` is the file that document `k` of checkout `r` reaches,
`file[f]` its bytes and stamp. A `StatRecord` is `[id, stamp]`: device and inode
say which file it is; size and mtime are the stamp. A rewrite (`Write`) takes a
new stamp or one the file had before; the history variable `reused` records the
latter, which is the staleness that `cache_trust_stat` accepts. `ticks` is the
newest stamp of each file. A rename over a document, its removal and a
retargeted link are `Link`; `denied` are the files whose mode forbids to open them
(`Chmod`), which leaves their stat as it is.

*Slot.* `slot` is the cache file, or `None` when `store.load` sees none (absent,
damaged, of another version). `roots` is the ledger, least recent first; an
entry has the hash (equality of bytes), the derived facts (`Parse`, any
function) and a stat for each checkout that claims it.

*Commands.* `phase[p]` follows one load: `"stat"` and `"open"` are the two tiers
of `lookup.resolve` for the next document, `"read"` lies between the `fstat` and
the `read` of one open handle, `"build"` and `"save"` follow the last document.
`entries`, `baseline` and `result` are the command's memory: `RunState._entries`,
the snapshot, the facts it has.

| actions | code |
| --- | --- |
| `Begin` | `load_lattice`, `store.load`, `RunState.begin`, discovery |
| `StatHit`, `StatMiss` | `lookup._stat_tier` |
| `Open`, `VerifiedHit`, `Miss`, `ParseFails`, `Unreadable` | `read_doc_bytes_and_stat`, `resolve`, `acquire_facts` |
| `Build`, `BuildFails` | the end of `_assemble` |
| `Save` | `RunState.complete`, `store.save_if_changed` |
| `Write`, `Chmod`, `Link`, `Discard`, `Kill` | the environment |

What is abstracted: the slot is read and the documents are discovered in one
step, since neither depends on the other; a registration conflict, which raises
between two documents, counts as raised at the end, since nothing is saved either
way; a read of an open document does not fail; a `stat` and the
comparison with the record are one step.

The docstring of `read_doc_bytes_and_stat` says that the stat is consistent with
the bytes read. A write between the two calls leaves an older stat with newer
bytes. `ClaimsAreSound` says why that does no harm: the file no longer has that
stat, and only if the stat comes back could the record be trusted.

### `ReconcileLock`

The lock is a `flock` on an open descriptor of the project root's directory, and
every write goes by path. `root` is the directory that the path names now;
`holder[d]`, `fd[p]` and `cap[p]` are the lock, the descriptor and the
`ReconcileLock` object of the code with its `active` and `in_use` flags. A process
runs one command and is gone. Each
process has two callers, the thread that entered the `with` block and another
that uses the same capability: `op[p][c]` is the operation of a caller between
its validation (`Require`), its claim (`Lease`) and its return.
`journal[d]` is the process whose journal lies in `d`.

| actions | code |
| --- | --- |
| `Open`, `Claim`, `Busy`, `Inspect`, `SetupFails` | `_open_reconcile_lock_directory`, `_claim_reconcile_lock`, `_new_reconcile_lock` |
| `Require`, `Lease`, `Refused`, `Return` | `_require_reconcile_lock`, `ReconcileLock._claim_operation`, `_release_operation` |
| `Recover`, `RecoverIncomplete`, `EnsureDryRunSafe`, `Load`, `Plan`, `BodyFails` | the body of `cli/commands/reconcile.py` |
| `Publish`, `Mark`, `Clean`, `CommitFails` | what a commit does to the journal |
| `Deactivate`, `Unlock`, `Close`, `Settle`, `Exit` | the `finally` blocks of `reconcile_lock` |
| `Kill`, `Move` | a killed process; the path comes to name another directory |

The path may change between a validation and the write that relies on it; nothing
in the code can see that. The block of `reconcile_lock` does not wait for the second
caller either: `_deactivate` and the `finally` clear a flag and release the lock, so
a recovery that this caller has under way goes on without capability and lock
(`Deactivate`). `strayed` and `moved` record both, and `JournalsAreProtected` says
that no other cause leads to a write without the lock. The command itself has one
thread; the second stands for other users of the module. The lock is not waited for. Network file systems whose `flock` does not exclude are outside the model.

### `ReconcilePlan`

`disk` has Markdown files (`doc`), manifests (`man`) and the files that each path
and each manifest's spelling reach (`link`, `mlink`). A run goes through `pc`:
load, select, capture the manifests, read one inline destination after the other,
commit or preview. `lat`, `plan`, `fresh`, `todo` and `writes` are what it has in
memory. Somebody else's `Edit` may change a body, drop or acknowledge entries,
reverse, drop, repeat or repoint records, swap two files, break a file, mix a
manifest's line endings or retarget a link, between any two steps.

| actions | code |
| --- | --- |
| `Load`, `LoadFails`, `Select`, `SelectFails` | `load_lattice`; `reconcile`, `group_reconcile_updates` |
| `Capture`, `CaptureRefuses` | `manifest_capture_requests`, `capture_manifest` and its comparison with the load |
| `PlanManifests`, `PlanManifestsRefuses` | `manifest_reconcile.py`, `sidecar_rewrite.py`; inline destinations that meet |
| `ReadInline`, `ReadRefuses`, `ReadFails` | the fresh read and `apply_reconcile` |
| `commit_rewrites`, `CommitConflicts`, `Preview` | the commit (fingerprints compared, all or nothing) and `--dry-run` |

`apply_reconcile` is `FrontmatterRewrite` in brief: it sets the entries of selected
references, an entry that merges one of them follows, and a document with something else
that a rewrite must not change (`fragile`) is refused. An inline node is not looked for by
its id: its edges are written to what its path leads to when the document is read again
(`apply_reconcile` has no such check, and RECONCILE.md promises none), so two inline
documents that trade places are acknowledged for each other. `OnlySelectedEdges` says
so; for a record of a manifest it says more.

A hash is the content it is of. A load's lattice resolves a reference by the table
`TargetOf`; `Ambiguous` references are those whose heading shares its id.

### `FrontmatterRewrite`

A document is a sequence of mappings (templates, then entries of `derives_from`)
and one member after the list. The loader half (`Loaded`, `LoadedRef`,
`LoadedSeen`) is what YAML makes of anchors, aliases and merge keys; the planner
half (`Selected`, `Displaced`, `Heir`, `Moved`, `Edited`) is what `reconcile.py`
does to the source; `Expected` and `Verified` are the comparison before anything
is written. `Shaped` is what a source tree always is: aliases and merge keys lead to
mappings that stand before them. An anchor name may be used again, which rebinds it. One action per
outcome: `Rewrite`, `Refuse`, `Skip`, repeated until nothing changes. The layout of
an edit (indentation, quoting, comments) is left out, except that a hash may be
one whose plain spelling has `--` and is therefore written escaped.

### `Outline`, `Lattice`, `LatticeSession`, `LinearAudit`

A body is a sequence of lines; a heading has a level, words and perhaps a marker,
and is shown and addressable (`atx`), shown only (setext, indented, nested:
`other`) or addressable only (inside a comment: `hidden`). Ids come from two
inventories, over the headings that are shown and those that can be addressed.
`collision_components` groups ids that could pass to each other's headings;
`section_spans` and `ancestor_chains` are the spans and the headings above.
`Lattice` assembles documents into nodes, an index and edges. Content hashes
stand for the content.

`LatticeSession` commits edits of one or two lines (retitle, relevel, mark, insert,
remove a line, touch text) to an upstream document and reconciles between commits.
`accepted` is what a reader saw where an edge led when it was reconciled; `uid`
follows a heading through edits and is not seen by the code. `Reading` is the
reference definition: it is stated with levels only, without the inventories and
stacks of the code. A heading that is followed at once by its first subheading
reads like that one, since then both sections have the same text and the same
headings above.

`LinearAudit` starts an audit over the lattice as it stands (`Start`, which is
`build_audit_trigger`, `partition_identifiers` and `chunk_numbers`), then answers,
retries or gives up one query after the other (`Answered`, `Retry`, `GiveUp`) and
grades (`Report`). The service answers in pages, in any order, or fails in any of
the ways the client distinguishes. The lattice is fixed while an audit runs, as it
is in the program, which loads it once.

### `ProjectTree` to `ProjectCommands`

A place is a sequence of names, a path is one that may pass through links; links
lead to places and never to links. `tree` is the project now and `trees` all that
it has been since the command began, so that properties can say "throughout" and
"at some moment". A name segment of a selector is the set of names it matches; the
grammar of a segment is left out. The walk keeps the code's stack of frames and
hands listings and visited states on (`_scan`, `_recursive_frames`, `Expand`);
`selector_matches_path` is the lexical matcher of `link_selectors.py`.

| steps | code |
| --- | --- |
| `load_config`, `Valid` | the validators of `config.py`; roots that must be contained directories |
| `build_registration_index` | `sidecar_manifest.py`: spelling, containment, regular file, one owner |
| `Discover` | `discovery.py`: ignored paths, containment, aliases of one file |
| `Acquire`, `AcquireRefused` | `_assemble` of `orchestrate.py` with `parse_document` of `frontmatter_parser.py`: claims, conflicts, duplicate ids, warnings |
| `Expand`, `Judge`, `Inspect`, `enforce_coverage` | `path_selection.py`, `sidecar_coverage.py` |
| `select_legacy_marker_sources`, `select_link_sources` | the link gate's selections |
| `check_links`, `ReadSource` | `check_links` of `link_check.py`: a source is resolved, then read |
| `_link_message`, `_stat_mode`, `AskTarget`, `Report` | `_link_message`, `_stat_mode`, `_target_headings`: a link is resolved, its target inspected, then read unless the memo has it; each is a step of its own |
| `Edit` | a file, link or directory changes between any two steps |

A head is the line it opens with, whether its envelope is closed, what its YAML
holds, and what is further down. A text is its headings, markers and links. Each
manifest, each identity and each selected path is one step; a source takes two, a link
up to three. A file that is gone when the gate comes to read it ends the run; refusals for
permissions, `git check-ignore`, raw HTML anchors (one flag) and the difference between
an omitted and a null YAML key are left out. One thing that the model shows and the
properties therefore leave open: a link that is retargeted between discovery and
the read of the document may drop that document from a load, or read it under two
paths, until the next load.

## 4. Checking

All `txn` runs use two destinations, three byte values ("a" needs a rewrite, "A" is
its rewrite, "u" needs none) and absence. Two destinations are the least for
which a batch can be half done; each bound below makes every phase of the
transaction meet at least one event of each kind the run is about. Bounds, in this order:
`MaxTxns` batches, `MaxFaults` failing I/O calls, `MaxCrashes`, `MaxOutages`
(power losses), `MaxEdits`, `MaxTampers`, `MaxRepairs` (evidence set aside). No `txn` run
disables the deadlock check: `reconcile` can always be started again.

| run | bounds | states | shows |
| --- | --- | --- | --- |
| `txn_edits` | 1, 1, 1, 0, 2, 0, 0, with the operator's repairs | 910,568 | `EditsArePreserved` if no edit lands between a fingerprint and its rename; `EvidenceOutlivesDoubt`: evidence is kept while a replaced destination is unaccounted for; `RepairFromBeforeFinishes`: a repair to the before images always lets recovery finish |
| `txn_power` | 1, 1, 1, 2, 1, 0, 0 | 604,870 | the inductive invariant `IInv`; `DurableAuthority`, `SuccessIsDurable`, `JournalGoesLast`, `PointOfNoReturn`: what survives a power loss |
| `txn_tamper` | 1, 1, 1, 0, 1, 1, 1, edits in the window too | 1,053,804 | `NoTornDestination`: only a stage damaged in its window reaches a destination; `LostEditsAreInTheWindow` |
| `txn_live` | 2, 2, 1, 0, 1, 0, 0 | 649,054 | `MarkerIsWhole`: a committed marker stands over a whole batch; `IncompleteIsIdempotent`: a second recovery finds what the first reported; `JournalIsRecovered`; the transaction implements `AtomicBatch` |
| `txn_marker_whole` | 1, 2, 0, 1, 0, 0, 0 | violation | section 5 |
| `repair_after_image` | 1, 0, 1, 0, 2, 0, 0 | violation | section 5 |
| `cache_shared` | 2 commands at a time, 3 in all, 1 event | 451,748 | see below |
| `lock_sessions` | 2 processes with 2 threads, each running once, 3 directories; 1 move, 1 fault, 1 kill | 2,122,151 | see below |
| `frontmatter_rewrite` | 1 template and 3 entries, 1 anchor name | 159,895 | see below |
| `plan_edits` | 432 projects, 6 selections, 1 run, 1 edit | 972,384 | see below |
| `lattice_audit` | 9 outlines, 512 chains, 4 audited projects; 2 edits | 91,085 | see below |
| `project_commands` | 2481 projects, 2 changes | 1,278,390 | see below |

`PointOfNoReturn` has two halves. A batch is `sealed` when the write of its marker
returned, and then no step undoes it, whatever happens. A marker whose rename landed
and whose fsync did not (it failed, or the process was killed between the two) is
visible but not durable, and recovery believes what it sees: such a batch counts as
decided, and stays so only until a power loss brings back the prepared journal
(section 5).

`cache_shared` has three checkouts and a ledger of two roots, so that the third
command evicts one. Two checkouts reach one file, the other has a second version
of it under the same key: the least with which claims are shared, replaced and
withdrawn. Three commands, two of them at once, give a warm slot and a writer
that loses. The single event is a rewrite (fresh or under an old stamp), a change of mode, a link,
a kill or the loss of the slot, at any point. Both policies occur, since each
command draws `require_verified` and `persist_cache`. It checks `ClaimsAreSound`
(no claim vouches for bytes the file does not hold), `SlotIsTidy` (the slot stays
bounded and consistent under lost updates), `SavesKeepTheSlotWarm`
(a writer helps its own checkout and does not spoil the others),
and that `LoadCache` implements `UncachedLoad`. The processes are declared
symmetric, and so are the second and the third checkout, which start alike: every
property of the run is a safety property and treats them alike.
The run may stop, after its last command, so deadlock is not checked. No
fairness is assumed and no liveness claimed for the cache: a load has no wait.

`lock_sessions` lets two sessions run at once, or one after a killed one, whatever
their commands: the least with which a live transaction, an abandoned journal and a
competing process occur. Two directories can take each other's place under one
resolved path and a third is behind a link, which are the two ways the validation
can see a move. It checks `LeaseIsExclusive` and `LeasesBeginLocked` (operations exclude
each other, and any of them begins under an active capability and its lock),
`PlansWithoutJournal` (a session
sees no journal from its recovery, or the refusal of its dry run, until it asks for
the lease of its commit), `JournalsAreProtected` (a journal is changed
under the lock of its directory, and not while its transaction runs elsewhere, but
for the two causes above) and
`OutcomesAreHonest` (no failure to release the lock hides an error or reports a
success). Processes are symmetric, and so are the two directories that replace each
other; all properties are safety properties. It
ends after its last session, so deadlock is not checked.

`frontmatter_rewrite` enumerates documents: every way to spell `seen` in the first
two entries and the ways to depend on them in the third, with one anchor name that
may be defined again. Two references and two selections suffice to have selected
and unselected entries that share a value. `RewriteIsExact` says what a rewrite
changes, and that a second application finds nothing to do but for one case that
the code has: an entry that had its value already and lost it to the entry it
inherits it from. `RefusalsAreExplained` says that planner and loader agree, except
about a member outside the list that merges an entry. A document that settled stays
as it is, so deadlock is not checked.

`plan_edits` has two inline and two external documents, a manifest and a copy of it,
references that are repeated, ambiguous or dangling, and one edit between any two
steps; a second edit meets a run that has already diverged. A third of the projects have
an entry that merges another. It checks `OnlySelectedEdges`, `ReportIsTrue`, and
`QuietRunsSettle`: an undisturbed run leaves nothing to reconcile in its selection, but
for an edge that had its hash and lost it to the entry it merges, and is refused only for
what its project holds. The run ends after one command.

`lattice_audit` composes three families of projects. In the first a document with
two or three headings (repeated, nested, setext, hidden or marked, in nine
outlines) is edited by up to two lines, in one commit or two, and reconciled
between; four others derive from its sections and from each other. Two lines are
what it takes to hand an id on within one commit. In the second, chains of four
documents have every assignment of authorities, with and without a cycle. In the
third the audit runs, over stale and ambiguous edges, tickets shared between nodes,
malformed ones and ones the service does not have, in batches of two and three
attempts. `NoSilentRebinding` is about edits of one line that change, add or remove one heading or
one line of text, and about ids that no marker of the document spells, before or after.
Both limits are the code's: an author's marker may take the id that another heading had
by its words (`## {#notes}` above `## Notes`, one of the outlines, passes `notes` on when
it goes), and a line of a fence hides and shows several headings at once. `OkMeansSameReading`
has no such limit. The two, `DriftIsForeseen` and
`QueriesReachAlongPaths` compare the code's incremental definitions with ones
stated over the page or over whole paths; `ReportsAreComplete` and `AuditEnds` are
about the audit.

`project_commands` has five families: a document with every head there is; two
documents and what may claim them; directories that coverage selects, excludes and
exempts; documents that link to each other; and projects with next to nothing in
them (a file as a root, no selector at all). Up to two files, links or directories
change under a command at any step; two changes are the least that can hide a file
and bring it back. The properties say what an outcome means of a tree that did not
stand still: what was so *throughout* must be in it, and what is in it was so *at some
moment*. `WalkFindsWhatIsThere` compares the walk with the lexical matcher;
`CoverageIsWhole` and `OneOwner` are about a load that coverage lets pass, and about
exemptions that are called stale; `IntentIsNeverSilent` about documents that declare
themselves; `VerdictsAreTrue` and `EverySourceIsChecked` about the link gate. The code
resolves, inspects and reads a target by three calls, so `VerdictsAreTrue` asks three
things of a link that passes, each of some moment; a target that leads outside, is
retargeted or appears between the calls may pass although it was never all three at once.
`EverySourceIsChecked`
asks that no link leads to a document or a directory above it, unless nothing changed:
over a tree that changes, the code may judge a document under a path that is gone when
it is read. `Order` is the order in which a directory is listed and holds each path
once. Commands end, so deadlock is not checked; no fairness is assumed.

The type invariant of `ReconcilePlan` is proved (`PlanTyped`). Those of `LoadCache`,
`ReconcileLock`, `FrontmatterRewrite`, `LinearAudit` and `ProjectCommands` are
conjuncts of an invariant of the run, that of `ReconcileTransaction` of `IInv`.

**Fairness.** `FairSpec` of the transaction is weak fairness of the process as a whole: a started
command takes its steps and somebody, sometime, starts `reconcile` again. Nothing
is assumed of the environment. `JournalIsRecovered` says that a journal goes
away unless a destination is edited: over an edited destination recovery stays
incomplete until a person repairs it, as RECONCILE.md says. Liveness is checked
without power losses, which can leave a journal whose stages are gone when an
fsync failed before (`txn_marker_whole`). `LinearAudit` assumes weak fairness of
`AuditStep`: a request returns with an answer or a failure, a timeout being one
(`linear_client.py` sets one on every request).

**Refinement.** In `AtomicBatch` a batch of documents is acknowledged in one
step. The mapping (`docsA`, `batchA`, `editedA`) sees a destination that
holds an undecided after image as the before image that recovery would restore; it changes when the transaction is
decided. Steps that stage, replace, restore or clean up are then stutters,
failures and crashes are invisible, and `Mark` (or `RecoverCommitted` over a
marker whose write raised) is the abstract commit.

In `UncachedLoad` there is no slot. The mapping forgets `slot`, `baseline` and
`entries`; a hit and a miss are the same `Answer`, whose facts are those of the
file that is open or that the path reaches now. There are two concessions, both
documented (AD-12) and both to a command that trusts stats: it may answer anything
for a file in `reused` (stale content), and it may answer for one in `denied`
(masked unreadability). `reconcile` never trusts, so for it there is none.

**Wrong variants.** The modules also hold operators marked
"(wrong: ...)", each the code with one plausible mistake: a missing fsync, a
skipped reset, a candidate recorded after the rename, a stage that is not
authenticated, a claim kept on a replaced entry, a stat trusted against the
policy. They are not part of the specification. `PROJECT.json` names,
for every property, a variant that must violate it.

## 5. Where code and documents disagree

* `txn_marker_whole`. Recovery acts on the journal it sees and never
  synchronizes the root first (`reconcile_transaction.py:2069`). The marker's
  rename lands and its fsync fails; the reset (line 1666) renames the prepared
  journal back and its fsync fails too. Recovery believes the visible prepared
  journal and restores destinations; a power loss then brings the committed
  marker back over them, of which RECONCILE.md:314-316 says that every
  destination holds its after image. The same
  trust the other way round: a process is killed between the marker's rename
  (`persistence.py:189`) and its fsync (line 190), recovery finds the marker and begins
  cleanup (`reconcile_transaction.py:2086`), a power loss brings the prepared journal
  back, and the next recovery restores the before images, although "the transaction is
  durable" and, ARCHITECTURE.md:196, the marker "records that PONR has passed and makes
  recovery cleanup-only". Without the condition `~revived'` on what recovery decided,
  `PointOfNoReturn` fails in this way. One `sync_directory` of the root before recovery
  acts on a journal would close both.
* `repair_after_image`. RECONCILE.md:288-290 lets the operator put back the
  recorded before *or after* image. If the before stage of the destination is
  gone, a destination put back to its after image makes recovery refuse.
  `RepairFromBeforeFinishes` says that the before image always works.

Not a disagreement, but a limit that the documents state and the model confirms: an
edit between the fingerprint of a destination and its rename is overwritten.
`LostEditsAreInTheWindow` (checked and proved) says that no other is.

## 6. Proofs

The theorems hold for any number of destinations, processes, documents, manifests
and commands, any contents and any bounds, and rest on named assumptions only.
`ReconcileTransaction`: the rewrite maps contents to contents and is idempotent, and
the special values are distinct. `LoadCache`: `Parse` is a function of the bytes, the
checkouts are well formed. `ReconcileLock`: one caller is the main thread, every
directory has a path it resolves to, `None` is none of them. `ReconcilePlan`: paths are
numbers, the special values are distinct, and a project is typed
(`ProjectAssumption`). `FrontmatterRewrite`: the special values
are distinct, updates map references to hashes, and the documents to start with are
`Shaped` (`RewriteAssumption`). `LinearAudit`: batches and attempts are
positive, a well formed reference is known by its team and number, the service has
well formed ones only (`AuditAssumption`); documents are finitely many, of lines and
entries, and so is what edits write; authorities are those of the ladder or none
(`SessionAssumption`). `ProjectCommands`: a project is a tree with a
configuration, whose names do not say "the directory above" (its `ProjectAssumption`).

* `TypeCorrect`: `Spec => []TypeOK`, together with `OnBatch` (a process works on
  the batch it holds), without which the bytes taken from a journal could be
  `None`. One step per action.
* `Invariance`: `Spec => []IInv`. `RollbackAuthority` is not inductive: after a
  power loss it speaks of images that were on disk before. `IInv` therefore
  quantifies over every image. `WayBack`: an undecided image of a destination is
  of the batch in memory, holds its after bytes, has its before image beside it,
  and every image of the root has the journal. The other conjuncts say how each
  phase keeps this: staging finds no undecided image (`Untouched`), replacing
  starts from a journal and before images that are durable (`Armed`), rollback
  leaves no visible after image behind, and cleanup makes that durable before
  the journal goes (`Settled`). These hold as long as
  nobody tampers with stages or journal, and `Untampered` never comes back. `Trust`
  holds always: what is about to be renamed is as it was authenticated, or was damaged
  or removed since, and then its destination is `tainted`.
* `RollbackAlwaysPossible` and `RollbackSurvivesPowerLoss` follow from `IInv`:
  `RollbackAuthority` and `DurableAuthority`, which include power losses and
  any number of faults.
* `DestinationsIntact` (`NoTornDestination`), also under tampering, from `Trust`: damaged
  bytes reach a destination only if the damage fell between authentication and rename.
* `OnlyWindowEditsAreLost` and `EditsKept`: the action properties
  `LostEditsAreInTheWindow` and, if no edit lands in the window,
  `EditsArePreserved`, from the invariant `Recognised`: in the window the
  destination holds the image that was just read, or is dirty.

* `JournalLast` and `SuccessDurable` (`JournalGoesLast`, `SuccessIsDurable`) are
  statements about every image a power loss may leave, after a cleanup that may have
  been interrupted in any batch before. The invariant `Provenance` says where each
  stage on disk comes from: a batch has one journal, a stage belongs to the batch its
  name was made for (`Lineage`), what cleanup has passed is gone from every image
  (`Cleaning`), and since a batch starts from a tree without stages and synchronizes
  each directory it stages into, no stage of an earlier batch comes back (`Tidy`).
  `Written` and `Succeeded` do the same for the destinations' writers. Nothing in it
  depends on nobody tampering, except what is said of the journal after a success.
* `MarkerWhole` (`MarkerIsWhole`) from `DInv`. Its parts `Branded`, `Numbered` and
  `Rewritten` hold always: an after image carries the batch that wrote it and what it
  wrote, or damaged bytes of a tainted destination, and what the commit loop has passed
  was replaced in every image. `Decision` holds while the run is `Faithful`, that is,
  until a power loss brings back a journal other than the one shown: what recovery sees
  is what the process saw (`Shown`), a batch starts over documents no earlier one has
  written since (`Fresh`), and what is marked was replaced in every image (`Whole`). The
  condition cannot be dropped: the first item of section 5 has a counterexample for each
  of the two properties. `MarkerWhole` is stated with it.
* `NoReturn` (`PointOfNoReturn`). While the run is `Faithful` nothing decided is undone,
  by `DInv`. What is sealed is never undone, with no condition, by `SealingInvariant`: no
  prepared journal in any image of the root is of a sealed batch, or names a document
  one of whose images a sealed batch wrote, so no rollback is ever armed against it; and
  a document that shows what a sealed batch wrote has no restored image a power loss
  could bring back. A new batch is planned over documents that need a rewrite, which is
  never what a batch wrote (`Branded`).
* `BatchIsAtomic`: `Undisturbed /\ Spec => ImplementsAtomicBatch`, the refinement,
  with one lemma for each kind of step. It needs `IInv` and `Recognised` (rollback
  finds before images), `DInv` (a marker stands over a whole batch, so the commit step
  acknowledges all of it), `Bounded` and `Distinct` (only the batch puts its after
  images in place). Each part of `Undisturbed` is needed: power loss takes back edits
  that the abstract batch has seen, a repair by hand accepts part of a batch, and an
  edit in the window, or one that writes the very bytes of a rewrite, is taken for
  reconcile's own. Failing calls and crashes are not restricted. The run `txn_live`
  satisfies `Undisturbed`.
* `OneLeaseAtATime`, `LeasesStartUnderLock`, `PlansFromRecoveredTree`, `EndsAreHonest`
  and `JournalsKeptUnderLock` (the five properties of `lock_sessions`) from `LockInv`. For
  each process it says which lock its descriptor holds and which directory its
  capability is for, active as long as the block lasts (`Holds`), that an operation in use is the capability's and no
  other's (`Claimed`), how far the operation has come (`Stage`, `Stays`), that a
  recovered tree has no journal unless the path moved (`Plans`), whose journal lies in
  a directory that is locked (`Owns`), and what is left when the session ends (`Ends`).
* `PlanTyped` and `SelectedEdgesOnly` (`TypeOK` and `OnlySelectedEdges` of
  `ReconcilePlan`) from `PlanInv`, which speaks of memory only, since others may edit
  every file between any two steps: the plan is chosen from the loaded lattice
  (`Chosen`), each captured manifest has each wanted record once (`Capturing`), and each
  planned write fits a file and differs from what was read by acknowledged hashes, and
  by what follows them (`Sound`, `OwnChanges`). A commit then needs only that each
  destination still has what was read, and that inline nodes whose files meet are refused
  before (`Alone`). That
  the last of several positions exists is `HasLatest`, from the well-founded order of
  the numbers.
* `QuietRunsDoSettle` (`QuietRunsSettle`) from `QuietInv`: while nobody edits, lattice,
  plan, captured manifests and planned writes are what the files say, and every write
  that the plan asks for is there or would change nothing (`Planning`). `Settles` is
  what the commit makes of the project; `SettledNodes` shows that it keeps every node
  but for the hashes, and `SettledPlan` that no edge of the selection is left but those
  that follow another entry.
  Refusals are excluded one by one: an undisturbed run finds each record and each path
  where the lattice found it (`RecordOfNode`, `PathOfNode`, `OnePath`).

* `ClaimsNeverMislead`: `Spec => []ClaimsAreSound` of the cache. The strengthening
  `CacheInv` speaks of the files too: no file has a stamp newer than `ticks`, an
  open handle has a stat of the file it opened (`Timely`), and every entry in the
  slot, in a snapshot or in a command's memory is `Good` (`AllGood`). `Good` is a
  predicate on an entry and on the files, so that what `claim`, `make_entry` and
  `complete` keep of it, and that a rewrite of a file breaks nothing, are lemmas
  of their own.
* `CachedIsUncached`: the refinement of `UncachedLoad`. `StatHit` is an `Answer`
  because the entry is sound, `VerifiedHit` because the hash is of the bytes read
  and the facts are of the hash, `Miss` because it parses them. One lemma per
  abstract action restates it over the mapped state.
* `SlotStaysTidy` and `SavesDoKeepTheSlotWarm` (`SlotIsTidy` and
  `SavesKeepTheSlotWarm`) from `TidyInv`. Between its load and its save a command is
  alone with its memory, so the slot it replaces may be any other; what makes the
  last writer harmless is what it remembers of the slot it loaded (`Known`): a
  document it has not loaded yet has the entry of the snapshot, one it has loaded has
  its own claim with the facts it answers, nobody claims who is not in the snapshot's
  ledger, and as long as the bytes are the same nobody's claim is lost (`Succeeds`).
  `LedgerFacts` and `CompleteFacts` say what `RunState.complete` makes of a ledger
  and of an entry; `FinishFacts` puts them together.

* `DoubtKeepsEvidence` (`EvidenceOutlivesDoubt`) from `Doubts`. Nothing in the
  program's memory names an edited destination, so the invariant follows it: until a
  rename is tried the destination is without an after image, and from then on it is a
  candidate (`Suspected`); a destination that was edited over its after image and that
  the rollback has passed holds its before image or is unresolved, and cleanup of a
  prepared batch starts only when none is (`Accounted`).
* `IncompleteIsFinal` (`IncompleteIsIdempotent`) from `Impasse`. Recovery counts every
  destination as a candidate and leaves no after image behind (`Recovering`), so when
  it gives up, either there is no journal to act on or every later run is stuck with the
  same foreign bytes (`Stuck`, `GivenUp`), until somebody edits. It needs that a batch
  changes each of its documents (`Planned`), since otherwise the two images of a
  destination are one; it does not need `Untampered`.
* `ReportCompleteness` (`ReportsAreComplete`) from `AuditInv`: what is wanted and exists
  was answered or is in a query that is left (`FetchInv`), batches hold what they divide
  and ask for nothing else (`ChunkFacts`, `PlanInv`), and a report grades all of it
  (`ReportInv`).
* `QueriesAreRight` (`QueriesReachAlongPaths`). `Coherent` is what the queries use of a
  built lattice: an edge resolves iff its target is in the index, and the targets in a
  document's file are the whole of it and its anchors. `impact` and `Below` are both
  recursions over the number of nodes; `ImpactIsBelow` relates them level by level (a hop
  hands on the nodes that are new, and what has an edge into the others is there already),
  and `GrowsFull` shows by counting that the last level but one is complete. The session
  keeps the lattice that of its documents (`CurrentInv`).
* `OkIsSameReading` (`OkMeansSameReading`). What is hashed of a section is what
  a reader sees of it (`SectionReads`). `section_spans` and `ancestor_chains` keep a
  stack; after each heading it holds those that all later ones are deeper than, in their
  order (`StackHolds`), so the end of a span is the last line its heading covers
  (`SpanCovers`, from `PassEnds`), and what stands above a heading is what is above it on
  the page (`HigherIsAbove`); two increasing sequences of line numbers are the same if
  their members are (`SameNumbers`). What is read of two contents is the same only if
  they are (`SpelledSame`). The session remembers for each accepted edge that the last
  entry for it has seen the content of that reading (`RememberedInv`), which edits
  do not touch and a reconcile renews.
* `DriftForeseen` (`DriftIsForeseen`). An edit of a line of text leaves the kinds, levels
  and headings of a page alone (`RetouchedIsAlike`), and with them ids, spans, chains and
  sections (`SameSections`), so the lattice of the edited documents is the old one but for
  that body (`BuiltAgain`). A content changes iff the line is in it: what comes before
  and after the line is spelled as before and can be taken away on both sides
  (`ConcatCancel`, `ContentTouched`). The stack of `_record_ancestors`
  passes over the sections in the order of their starts and keeps those that last at
  least as long (`EnclosureHolds`, `AncestorsLast`), so the sections with the line in them
  are the innermost one and its ancestors (`AroundLine`), which together with the
  whole file is what `expand_targets` gives (`ExpansionHolds`), and an edge into that is in
  the forward audit (`AuditedForward`).
* `RefusalsExplained` (`RefusalsAreExplained`) and `RewritesExact` (`RewriteIsExact`).
  `RewriteInv` keeps documents `Shaped` and loading; the rest is about one rewrite, along
  the positions of its mappings (`FromBelow`).
  - An alias still reads what it read (`NewBinding`): the last definition before it is
    kept, or passes to the first reader that is not edited, and no definition of that name
    comes between (`NewDefinitions`). So each mapping spells what is meant (`NewOwn`).
  - `_inherited_seen_origin` (`From`) leads to the source whose value the loader will
    merge: an edited one, one whose value stays, or none (`Meant`, `AllMeant`). `Expected`
    sets objects in the order of the entries, and the entries of one object agree
    (`ExpectedIs`). Hence the edited source loads as expected, value by value and reference
    by reference (`SeensAsExpected`, `RefsKept`), and the verification can object only
    to a member after the list that merges an entry (`PlannedIsVerified`).
  - What differs after a rewrite had its value before and follows an edited entry
    (`StillSelected`). Its edit in a second rewrite changes nobody who has a value to
    keep: the trail of such an entry leads through it to the same edited entry of the first
    rewrite, which would have given both the same value (`Trails`, `SettlingAfter`).
    So the second rewrite leaves nothing to do (`SettledAfter`).
* The six properties of `project_commands` are theorems of `ProjectCommands_proofs`, all
  over `TypeInv` (`Typed`). `MatcherIsRight`: the code's reachable positions
  accept a path iff its names can be laid along the selector's segments (`LaysOut`).
  - `WalkIsRight`: a path that stays selectable and is not found yet has a frame on the
    stack from which a layout goes on, of which no later state is visited
    (`WholeInv`, with `ReadInv` for listings that were read before a change); `SoundInv`
    is the converse.
  - `CoverageHolds`: a selector that is done has found all it spells or a refusal excuses
    it (`ScopeInv`); what is matched is still to be inspected, told or a problem
    (`JudgeInv`); `StaleInv` is about exemptions.
  - `Ownership` and `Intent` from `IdentityInv` and `NodeInv`: each identity that was
    assembled was read at a moment when it could be (`Enrolled`), and ids and targets
    are of one node each.
  - `LinkVerdicts` from `VerdictInv`: a memo of headings is what some file had in it at
    some moment of the run (`MemoInv`), a verdict is of a link of the text that is held, and
    a link that is half looked at had each of its first parts at some moment (`AskedInv`).
  - `Sources` from `GateInv`: a document that is steady is still to be taken, a source,
    or spoken of (`SourceInv`).

Only model-checked:

* `RepairFromBeforeFinishes`, which speaks of what the operator may still do (the
  outcome of a recovery that could be started), and holds of runs without tampering.
* `ReportIsTrue` of `ReconcilePlan`, which speaks of where an inline node's change may
  lie by all the files that its path led to.
* `NoSilentRebinding` of `LatticeSession`. It compares two runs of the allocation of ids,
  before and after an edit, where the id of a heading depends on all the headings before
  it; a proof needs an exchange argument about two runs whose tables of slugs differ.
* Liveness: `JournalIsRecovered` and `AuditEnds`.

## 7. Not modelled

* The validation of a journal's fields: an invalid journal is `Foreign`, whatever
  is wrong with it.
* The grammars of YAML, Markdown and Unicode slugs (`yaml_boundary.py`,
  `markdown_compat.py`'s scan, the generated slug tables) and of one selector
  segment: they are data, and the models begin with what they return.
* `cli/git_repository.py`: questions to `git`, whose answers are an external
  program's.
* The command line runtime (options, exit codes of each error, pipes): each command
  is one sequence of calls, and the order of the calls is in the modules above.
  `links` and `linear` exit codes are modelled with their reports.
* Scaffolding (`init`): it searches parent directories for a configuration and
  creates one file if it is absent; the rest is generated text.
* Rendering of reports and errors, and the release scripts, which are not part of
  the program.
* Configuration keys that are checked one by one and decide nothing else (formats,
  cache keys, binding layers).
