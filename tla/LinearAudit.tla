------------------------------- MODULE LinearAudit -------------------------------
(* The audit of shipped tickets: the nodes it is about are taken from the lattice, *)
(* their tickets are asked for in batches, a request that the service is too busy  *)
(* for is sent again, and the answers are graded.  The lattice was loaded when the *)
(* audit began; the session goes on once it is over.                               *)
EXTENDS LatticeSession, Iteration

CONSTANTS
  Tickets,       \* ticket |-> its team, number and whether it is well formed
  Service,       \* the tickets that exist |-> the type of their state
  Teams, NoTeam, \* the teams a project may be configured with, if any
  ValidTeams,    \* those with a team's spelling
  BATCH_SIZE, MAX_IDENTIFIERS, MAX_ATTEMPTS,
  Audits,        \* [target, from]: what may be asked for
  MaxAuditedEdits  \* audits are made until then

LinearStateType == {"triage", "backlog", "unstarted", "started", "completed", "canceled", "duplicate"}

\* Only one spelling of a ticket is well formed, and what exists has it.
ASSUME AuditAssumption ==
  /\ BATCH_SIZE \in Nat \ {0} /\ MAX_ATTEMPTS \in Nat \ {0} /\ MAX_IDENTIFIERS \in Nat
  /\ NoTeam \in Teams /\ IsFiniteSet(DOMAIN Tickets)
  /\ DOMAIN Service \subseteq {r \in DOMAIN Tickets : Tickets[r].ok}
  /\ \A r \in DOMAIN Service : Service[r] \in LinearStateType
  /\ \A r, s \in DOMAIN Tickets :
       Tickets[r].ok /\ Tickets[s].ok /\ Tickets[r].team = Tickets[s].team /\ Tickets[r].number = Tickets[s].number
         => r = s
  /\ \A project \in Projects : \A id \in DOMAIN project :
       "tickets" \in DOMAIN project[id] /\ project[id].tickets \subseteq DOMAIN Tickets

VARIABLES
  phase,     \* where the audit is
  trigger,   \* the nodes it is about, with the references that drifted
  plan,      \* the queries it has to make
  attempt,   \* how often the first of them was sent
  tickets, rejected,  \* what was answered, and what was not asked for
  findings, exit
audit == <<phase, trigger, plan, attempt, tickets, rejected, findings, exit>>
vars == <<session, audit>>

Nothing == [x \in {} |-> ""]

-----------------------------------------------------------------------------
(* Queries.                                                                  *)

\* The order of a set: any of them.
Orders(S) == {s \in [1 .. Cardinality(S) -> S] : \A r \in S : \E k \in DOMAIN s : s[k] = r}

Rejection(ref, linear_team) ==
  IF ~Tickets[ref].ok THEN "malformed"
  ELSE IF linear_team # NoTeam /\ Tickets[ref].team # linear_team THEN "cross-team"
  ELSE "no"

partition_identifiers(refs, linear_team) ==
  LET distinct == {refs[k] : k \in DOMAIN refs}
      bad == {r \in distinct : Rejection(r, linear_team) # "no"}
  IN  [valid |-> Kept(refs, distinct \ bad),
       rejected |-> [r \in bad |-> Rejection(r, linear_team)]]

chunk_numbers(numbers, size) ==
  [k \in 1 .. (Len(numbers) + size - 1) \div size |->
     SubSeq(numbers, (k - 1) * size + 1, IF k * size < Len(numbers) THEN k * size ELSE Len(numbers))]

\* One team after the other, each in batches.
group_by_team(valid) ==
  LET team(k) == Tickets[valid[k]].team
      first == Kept([k \in DOMAIN valid |-> k], {k \in DOMAIN valid : \A j \in 1 .. k - 1 : team(j) # team(k)})
      own(t) == Kept(valid, {r \in DOMAIN Tickets : Tickets[r].team = t})
  IN  [i \in DOMAIN first |->
         [team |-> team(first[i]),
          numbers |-> [k \in DOMAIN own(team(first[i])) |-> Tickets[own(team(first[i]))[k]].number]]]

build_query(team, numbers) == [team |-> team, numbers |-> numbers]

\* The queries for one team's numbers, and for all of them.
Batches(group) ==
  LET chunks == chunk_numbers(group.numbers, BATCH_SIZE)
  IN  [k \in DOMAIN chunks |-> build_query(group.team, chunks[k])]

Queries(valid) ==
  LET groups == group_by_team(valid) IN Joined([i \in DOMAIN groups |-> Batches(groups[i])])

-----------------------------------------------------------------------------
(* The service.                                                              *)

\* What exists of a query, at most one page of it; what does not exist is left out.
Existing(query) ==
  {r \in DOMAIN Service : Tickets[r].team = query.team /\
                          \E k \in DOMAIN query.numbers : query.numbers[k] = Tickets[r].number}
Pages(query) ==
  LET all == Existing(query)
  IN  IF Cardinality(all) <= BATCH_SIZE THEN {all}
      ELSE {page \in SUBSET all : Cardinality(page) = BATCH_SIZE}

_is_retryable_http_status(answer) == answer \in {"429", "5xx"}
Failures == {"429", "5xx", "4xx", "unreachable", "oversized", "errors", "no key"}

-----------------------------------------------------------------------------
(* Grading.                                                                  *)

_STATE_SEVERITY == [completed |-> "DANGER", started |-> "WARNING", unstarted |-> "INFO", backlog |-> "INFO"]

Finding(id, ref, severity, reason) ==
  [node |-> id, refs |-> trigger[id], ticket |-> ref, severity |-> severity, reason |-> reason]

stale_shipped(answers, refused) ==
  LET asked == UNION {{id} \X lattice.nodes[id].tickets : id \in DOMAIN trigger}
      graded(x) == x[2] \in DOMAIN answers /\ answers[x[2]] \in DOMAIN _STATE_SEVERITY
      blocked(x) == x[2] \notin DOMAIN answers
  IN  {Finding(x[1], x[2], _STATE_SEVERITY[answers[x[2]]], "") : x \in {y \in asked : graded(y)}}
        \cup {Finding(x[1], x[2], "BLOCKED",
                IF x[2] \in DOMAIN refused THEN refused[x[2]] ELSE "not-found") :
                x \in {y \in asked : blocked(y)}}

\* What --exit-code fails on.
Gate(warn_exit) == {"DANGER", "BLOCKED"} \cup (IF warn_exit THEN {"WARNING"} ELSE {})

-----------------------------------------------------------------------------
(* The command.                                                              *)

Idle ==
  /\ phase = "idle" /\ trigger = Nothing /\ plan = <<>> /\ attempt = 0
  /\ tickets = Nothing /\ rejected = Nothing /\ findings = {} /\ exit = 0

AuditInit == Init /\ Idle

ToolError ==
  /\ phase' = "done" /\ exit' = 2
  /\ plan' = <<>> /\ attempt' = 0 /\ tickets' = Nothing /\ rejected' = Nothing /\ findings' = {}

Trigger(a) ==
  IF a.from THEN build_from_trigger(lattice, a.target) ELSE build_audit_trigger(lattice, a.target)
Known(a) == lattice # NotLoaded /\ (a.target = NoTarget \/ a.target \in DOMAIN lattice.index)
TicketsOf(nodes) == UNION {lattice.nodes[id].tickets : id \in nodes}

Start ==
  /\ phase = "idle" /\ edits <= MaxAuditedEdits
  /\ \E a \in Audits, linear_team \in Teams :
       \/ /\ ~Known(a) /\ trigger' = Nothing /\ ToolError
       \/ /\ Known(a) /\ trigger' = Trigger(a)
          /\ linear_team \notin ValidTeams \cup {NoTeam}
             \/ Cardinality(TicketsOf(DOMAIN trigger')) > MAX_IDENTIFIERS
          /\ ToolError
       \/ /\ Known(a) /\ trigger' = Trigger(a)
          /\ linear_team \in ValidTeams \cup {NoTeam}
          /\ Cardinality(TicketsOf(DOMAIN trigger')) <= MAX_IDENTIFIERS
          /\ \E refs \in Orders(TicketsOf(DOMAIN trigger')) :
               LET parts == partition_identifiers(refs, linear_team)
               IN  plan' = Queries(parts.valid) /\ rejected' = parts.rejected
          /\ phase' = "fetch" /\ attempt' = 1
          /\ UNCHANGED <<tickets, findings, exit>>
  /\ UNCHANGED session

Fetching == phase = "fetch" /\ plan # <<>> /\ UNCHANGED <<session, trigger>>

Answered ==
  /\ Fetching
  /\ \E page \in Pages(Head(plan)) :
       tickets' = [r \in DOMAIN tickets \cup page |-> IF r \in page THEN Service[r] ELSE tickets[r]]
  /\ plan' = Tail(plan) /\ attempt' = 1
  /\ UNCHANGED <<phase, rejected, findings, exit>>

\* (wrong: past the last delay the schedule starts again)
RetryForever ==
  /\ Fetching
  /\ \E answer \in Failures : _is_retryable_http_status(answer)
  /\ attempt' = IF attempt < MAX_ATTEMPTS THEN attempt + 1 ELSE 1
  /\ UNCHANGED <<phase, plan, tickets, rejected, findings, exit>>

Retry ==
  /\ Fetching
  /\ \E answer \in Failures : _is_retryable_http_status(answer)
  /\ attempt < MAX_ATTEMPTS /\ attempt' = attempt + 1
  /\ UNCHANGED <<phase, plan, tickets, rejected, findings, exit>>

\* (wrong: a query that fails for good is passed over)
GiveUpOnOne ==
  /\ Fetching
  /\ \E answer \in Failures : _is_retryable_http_status(answer) => attempt >= MAX_ATTEMPTS
  /\ plan' = Tail(plan) /\ attempt' = 1
  /\ UNCHANGED <<phase, tickets, rejected, findings, exit>>

GiveUp ==
  /\ Fetching
  /\ \E answer \in Failures : _is_retryable_http_status(answer) => attempt >= MAX_ATTEMPTS
  /\ ToolError

Report ==
  /\ phase = "fetch" /\ plan = <<>>
  /\ findings' = stale_shipped(tickets, rejected)
  /\ \E warn_exit \in BOOLEAN :
       exit' = IF \E f \in findings' : f.severity \in Gate(warn_exit) THEN 1 ELSE 0
  /\ phase' = "done"
  /\ UNCHANGED <<session, trigger, plan, attempt, tickets, rejected>>

AuditStep == Answered \/ Retry \/ GiveUp \/ Report
Edit == phase = "idle" /\ SessionNext /\ UNCHANGED audit
Next == Edit \/ Start \/ AuditStep

\* A request returns, with an answer or a failure; a timeout is one.
Spec == AuditInit /\ [][Next]_vars /\ WF_vars(AuditStep)

-----------------------------------------------------------------------------
(* Properties.                                                               *)

TypeOK ==
  /\ phase \in {"idle", "fetch", "done"} /\ exit \in 0 .. 2 /\ attempt \in 0 .. MAX_ATTEMPTS
  /\ \A k \in DOMAIN plan : Len(plan[k].numbers) \in 1 .. BATCH_SIZE
  /\ DOMAIN tickets \subseteq TicketsOf(DOMAIN trigger) \ DOMAIN rejected
  /\ plan # <<>> => phase = "fetch"
  /\ \A e \in DOMAIN accepted : e[2].anchor # NoAnchor

\* A report is of everything that was asked for, whatever was retried and in whatever
\* batches: each ticket of each node that the audit is about has the severity of its
\* state, has none if its state ships nothing, and is blocked when the service does not
\* have it or was not asked; and the gate passes only if nothing calls for attention.
ReportsAreComplete ==
  /\ TypeOK
  /\ (phase = "done" /\ exit # 2) =>
       \A id \in DOMAIN trigger : \A ref \in lattice.nodes[id].tickets :
         LET own == {f \in findings : f.node = id /\ f.ticket = ref}
             state == IF ref \in DOMAIN Service THEN Service[ref] ELSE "none"
         IN  IF ref \in DOMAIN rejected \/ state = "none"
               THEN \E f \in own : f.severity = "BLOCKED" /\ (f.reason = "not-found" <=> ref \notin DOMAIN rejected)
             ELSE IF state \in {"triage", "canceled", "duplicate"} THEN own = {}
             ELSE \E f \in own : f.severity = CASE state = "completed" -> "DANGER"
                                                [] state = "started" -> "WARNING"
                                                [] OTHER -> "INFO"
  /\ (phase = "done" /\ exit = 0) => \A f \in findings : f.severity \in {"WARNING", "INFO"}

\* An audit ends, however busy the service says it is.
AuditEnds == (phase = "fetch") ~> (phase = "done")
=============================================================================
