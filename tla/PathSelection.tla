------------------------------ MODULE PathSelection ------------------------------
(* Selectors, what they match, and the walk that expands them over directories     *)
(* which may change while it is under way.                                         *)
EXTENDS ProjectTree, FiniteSets

\* A segment matches the names of a set, or (`**`) any number of directories.
Name(names) == [deep |-> FALSE, names |-> names]
Deep == [deep |-> TRUE, names |-> {}]

Selectors == Seq([deep : BOOLEAN, names : SUBSET STRING])

-----------------------------------------------------------------------------
(* What a selector matches.                                                  *)

validate_link_selector(segments) == segments # <<>>

segment_matches(name, segment) == name \in segment.names

_recursive_closure(positions, segments) ==
  {q \in DOMAIN segments : \E p \in positions : p <= q /\ \A k \in p .. q - 1 : segments[k].deep}

\* The positions after one directory more.
Advance(positions, name, segments) ==
  UNION {IF segments[p].deep THEN {p}
         ELSE IF p < Len(segments) /\ segment_matches(name, segments[p]) THEN {p + 1} ELSE {} :
           p \in _recursive_closure(positions, segments)}

selector_matches_path(segments, path) ==
  LET positions[n \in 0 .. Len(path) - 1] ==
        IF n = 0 THEN {1} ELSE Advance(positions[n - 1], path[n], segments)
  IN  /\ Len(segments) \in _recursive_closure(positions[Len(path) - 1], segments)
      /\ Last(segments).deep \/ segment_matches(Last(path), Last(segments))

selector_prunes_path(segments, path) ==
  \E n \in DOMAIN path : selector_matches_path(segments, SubSeq(path, 1, n))

-----------------------------------------------------------------------------
(* One step of the walk.                                                     *)

Frame(prefix, index) == [prefix |-> prefix, index |-> index, read |-> FALSE, entries |-> {}]
Handoff(frame, entries) == [frame EXCEPT !.index = @ + 1, !.read = TRUE, !.entries = entries]

_scan(t, prefix) == Listing(t, Real(t, prefix))

\* (wrong: what is excluded is not selected, and entered all the same)
_retained_files(entries, prefix, exclusions) ==
  {e \in entries : e.kind # "file" \/ \A x \in exclusions : ~selector_matches_path(x, Append(prefix, e.name))}

_retained(entries, prefix, exclusions) ==
  {e \in entries : \A x \in exclusions : ~selector_matches_path(x, Append(prefix, e.name))}

\* (wrong: the link is not followed)
_is_directory_unfollowed(t, entry, prefix) == entry.kind = "link" /\ At(t, Append(prefix, entry.name)).kind = "dir"

\* The walk is about to enter a directory through a link.
_is_directory(t, entry, prefix) == entry.kind = "link" /\ IsDir(t, Append(prefix, entry.name))

Candidates(entries, segment) ==
  IF segment.deep THEN entries ELSE {e \in entries : segment_matches(e.name, segment)}

\* The links a step refuses to go through, where the policy says so.
Refused(t, prefix, candidates, segment, last, strict) ==
  {e \in candidates : strict /\ (segment.deep \/ ~last) /\ _is_directory(t, e, prefix)}

Matches(candidates, refused, last) ==
  IF last THEN {e \in candidates \ refused : e.kind # "dir"} ELSE {}
Entered(candidates, segment, last) ==
  IF segment.deep \/ ~last THEN {e \in candidates : e.kind = "dir"} ELSE {}

\* (wrong: `**` takes one directory at least)
_recursive_frames_entering(frame, entered, last, entries) ==
  SetToSeqs({Frame(Append(frame.prefix, e.name), frame.index) : e \in entered}
    \cup {Frame(Append(frame.prefix, e.name), frame.index + 1) : e \in IF last THEN {} ELSE entered})

_recursive_frames(frame, entered, last, entries) ==
  LET children == {Frame(Append(frame.prefix, e.name), frame.index) : e \in entered}
  IN  {order \o (IF last THEN <<>> ELSE <<Handoff(frame, entries)>>) : order \in SetToSeqs(children)}

\* The steps a frame gives rise to, the last to be taken first.
Spawned(frame, segment, entered, last, entries) ==
  IF segment.deep THEN _recursive_frames(frame, entered, last, entries)
  ELSE SetToSeqs({Frame(Append(frame.prefix, e.name), frame.index + 1) : e \in entered})

-----------------------------------------------------------------------------

VARIABLES
  tree,     \* the files
  trees,    \* the trees there have been since the command began
  pc,       \* where the command is
  walk      \* the selection under way

NoWalk == [selectors |-> <<>>, pending |-> <<>>, visited |-> {}, found |-> {}, matched |-> {},
           refusals |-> {}, strict |-> FALSE, exclusions |-> {}]

Refusal(kind, spelling) == [kind |-> kind, spelling |-> spelling]

\* The selectors a selection begins with: none is a refusal of its own.
select_paths(selectors, strict, exclusions, otherwise) ==
  /\ walk' = [NoWalk EXCEPT !.selectors = selectors, !.strict = strict, !.exclusions = exclusions,
                            !.pending = <<Frame(Root, 1)>>]
  /\ pc' = IF selectors = <<>> THEN otherwise ELSE "walk"

\* The state a frame stands for was claimed by an earlier one.
Skip ==
  /\ pc = "walk" /\ walk.pending # <<>>
  /\ LET frame == Last(walk.pending)
     IN  /\ <<frame.prefix, frame.index>> \in walk.visited
         /\ walk' = [walk EXCEPT !.pending = Front(@)]
  /\ UNCHANGED pc

\* The directory is no longer there, or no longer a directory.
CannotScan ==
  /\ pc = "walk" /\ walk.pending # <<>>
  /\ LET frame == Last(walk.pending)
     IN  /\ <<frame.prefix, frame.index>> \notin walk.visited
         /\ ~frame.read /\ ~IsDir(tree, frame.prefix)
  /\ pc' = "refused"
  /\ UNCHANGED walk

_walk(frame, entries, segment, last) ==
  LET candidates == Candidates(entries, segment)
      refused == Refused(tree, frame.prefix, candidates, segment, last, walk.strict)
      spelled(S) == {Append(frame.prefix, e.name) : e \in S}
  IN  \E spawned \in Spawned(frame, segment, Entered(candidates, segment, last), last, entries) :
        walk' = [walk EXCEPT !.pending = Front(@) \o spawned,
                             !.visited = @ \cup {<<frame.prefix, frame.index>>},
                             !.found = @ \cup spelled(Matches(candidates, refused, last)),
                             !.refusals = @ \cup {Refusal("symlink-directory", s) : s \in spelled(refused)}]

Expand ==
  /\ pc = "walk" /\ walk.pending # <<>>
  /\ LET frame == Last(walk.pending)
         segments == Head(walk.selectors)
     IN  /\ <<frame.prefix, frame.index>> \notin walk.visited
         /\ frame.read \/ IsDir(tree, frame.prefix)
         /\ _walk(frame,
                  IF frame.read THEN frame.entries
                  ELSE _retained(_scan(tree, frame.prefix), frame.prefix, walk.exclusions),
                  segments[frame.index], frame.index = Len(segments))
  /\ UNCHANGED pc

\* A selector is done: one that matches nothing is refused, at once or with the rest.
NextSelector(after) ==
  /\ pc = "walk" /\ walk.pending = <<>>
  /\ LET more == Tail(walk.selectors)
         unmatched == IF walk.found = {} THEN {Refusal("no-match", Root)} ELSE {}
     IN  /\ walk' = [walk EXCEPT !.selectors = more, !.visited = {}, !.found = {},
                                 !.matched = @ \cup walk.found,
                                 !.refusals = @ \cup unmatched,
                                 !.pending = IF more = <<>> THEN <<>> ELSE <<Frame(Root, 1)>>]
         /\ pc' = IF unmatched # {} /\ ~walk.strict THEN "refused"
                  ELSE IF more = <<>> THEN after ELSE "walk"

WalkStep(after) == Skip \/ CannotScan \/ Expand \/ NextSelector(after)

-----------------------------------------------------------------------------
(* What a selection is to find, said without a walk or positions.            *)

\* A selector is laid along a path: every name has its segment, in order, and only
\* `**` is laid over several or none.
Aligned(segments, path) ==
  \E f \in [DOMAIN path -> DOMAIN segments] :
    LET covers(k) == \E i \in DOMAIN path : f[i] = k
    IN  /\ \A i \in DOMAIN path : segments[f[i]].deep \/ path[i] \in segments[f[i]].names
        /\ \A i, j \in DOMAIN path : i < j => f[i] <= f[j] /\ (f[i] = f[j] => segments[f[i]].deep)
        /\ \A k \in DOMAIN segments : covers(k) \/ segments[k].deep
        /\ f[Len(path)] = Len(segments)

Ancestors(path) == {SubSeq(path, 1, n) : n \in 1 .. Len(path) - 1}

\* A file, or a link, in directories none of which is a link, that no exclusion names
\* or holds.
Selectable(t, path, segments, exclusions) ==
  /\ Aligned(segments, path)
  /\ At(t, path).kind \notin {"absent", "dir"}
  /\ \A a \in Ancestors(path) : At(t, a).kind = "dir"
  /\ \A a \in Ancestors(path) \cup {path} : \A x \in exclusions : ~Aligned(x, a)
=============================================================================
