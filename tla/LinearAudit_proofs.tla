---------------------------- MODULE LinearAudit_proofs ----------------------------
(* That a report of an audit is complete, for every project, every service and     *)
(* every size of a batch: the queries ask for every ticket, an answer is whole,    *)
(* and nothing that was asked for is lost on the way to the report.  Then that the *)
(* queries of the lattice, which go edge by edge, are right of whole paths, that   *)
(* check sees what a reader sees, and that impact foresees what check will find.   *)
EXTENDS LinearAudit, Iteration_proofs, FunctionTheorems, FiniteSetTheorems

TeamsOf == {Tickets[r].team : r \in DOMAIN Tickets}
NumbersOf == {Tickets[r].number : r \in DOMAIN Tickets}
Group == [team : TeamsOf, numbers : Seq(NumbersOf)]

\* The team and a number of r are in q.
AsksFor(q, r) == q.team = Tickets[r].team /\ Tickets[r].number \in Members(q.numbers)

\* All that q asks for is of refs.
AsksOnly(q, refs) ==
  \A x \in Members(q.numbers) : \E r \in refs : Tickets[r].team = q.team /\ Tickets[r].number = x

-----------------------------------------------------------------------------
(* The queries.                                                              *)

\* Batches hold what they divide, and none is empty or too large.
Divided(V, numbers, size, c) ==
  /\ c \in Seq(Seq(V))
  /\ \A k \in DOMAIN c : Len(c[k]) \in 1 .. size /\ Members(c[k]) \subseteq Members(numbers)
  /\ \A x \in Members(numbers) : \E k \in DOMAIN c : x \in Members(c[k])

LEMMA ChunkFacts ==
  ASSUME NEW V, NEW numbers \in Seq(V), NEW size \in Nat \ {0}
  PROVE  Divided(V, numbers, size, chunk_numbers(numbers, size))
<1> DEFINE N == Len(numbers)
           K == (N + size - 1) \div size
           low(k) == (k - 1) * size + 1
           high(k) == IF k * size < N THEN k * size ELSE N
           c == chunk_numbers(numbers, size)
<1>1. N \in Nat /\ K \in Nat /\ K * size <= N + size - 1 /\ N + size - 1 < K * size + size
  OBVIOUS
<1>2. c = [k \in 1 .. K |-> SubSeq(numbers, low(k), high(k))]
  BY DEF chunk_numbers
<1> HIDE DEF c
<1>3. ASSUME NEW k \in 1 .. K
      PROVE  /\ low(k) \in 1 .. N /\ high(k) \in 1 .. N
             /\ low(k) <= high(k) /\ high(k) - low(k) + 1 <= size
  <2>1. k * size <= K * size
    OBVIOUS
  <2>2. (k - 1) * size = k * size - size /\ k * size \in Nat /\ k * size >= size
    OBVIOUS
  <2> HIDE DEF K, N
  <2> QED BY <1>1, <2>1, <2>2
<1>4. ASSUME NEW k \in 1 .. K
      PROVE  /\ c[k] \in Seq(V) /\ Len(c[k]) \in 1 .. size
             /\ \A i \in 1 .. Len(c[k]) : low(k) + i - 1 \in 1 .. N /\ c[k][i] = numbers[low(k) + i - 1]
             /\ \A j \in low(k) .. high(k) : j - low(k) + 1 \in 1 .. Len(c[k])
  <2>1. c[k] = SubSeq(numbers, low(k), high(k))
    BY <1>2
  <2> HIDE DEF low, high, K, N
  <2>2. low(k) \in Int /\ high(k) \in Int
    BY <1>3
  <2>3. /\ Len(c[k]) = high(k) - low(k) + 1
        /\ \A i \in 1 .. Len(c[k]) : c[k][i] = numbers[low(k) + i - 1]
        /\ c[k] \in Seq(V)
    BY <1>3, <2>1, <2>2, SubSeqProperties DEF N
  <2>4. /\ low(k) \in 1 .. N /\ high(k) \in 1 .. N
        /\ low(k) <= high(k) /\ high(k) - low(k) + 1 <= size
    BY <1>3
  <2>5. N \in Nat
    BY <1>1
  <2>6. Len(c[k]) \in 1 .. size
    BY <2>3, <2>4, <2>5
  <2>7. \A i \in 1 .. Len(c[k]) : low(k) + i - 1 \in 1 .. N
    BY <2>3, <2>4, <2>5
  <2>8. \A j \in low(k) .. high(k) : j - low(k) + 1 \in 1 .. Len(c[k])
    BY <2>3, <2>4, <2>5
  <2> QED BY <2>3, <2>6, <2>7, <2>8
<1> HIDE DEF low, high
<1>5. c \in Seq(Seq(V)) /\ DOMAIN c = 1 .. K
  <2> HIDE DEF K
  <2>1. c = [k \in 1 .. K |-> c[k]] /\ DOMAIN c = 1 .. K
    BY <1>2
  <2>2. \A k \in 1 .. K : c[k] \in Seq(V)
    BY <1>4
  <2>3. c \in [1 .. K -> Seq(V)] /\ K \in Nat
    BY <1>1, <2>1, <2>2
  <2> QED BY <2>1, <2>3
<1> HIDE DEF K
<1>6. ASSUME NEW k \in DOMAIN c PROVE Members(c[k]) \subseteq Members(numbers)
  <2>1. k \in 1 .. K
    BY <1>5
  <2>2. DOMAIN c[k] = 1 .. Len(c[k])
    BY <1>4, <2>1
  <2> QED BY <2>1, <2>2, <1>4 DEF Members
<1>7. ASSUME NEW j \in DOMAIN numbers PROVE \E k \in DOMAIN c : numbers[j] \in Members(c[k])
  <2> DEFINE k == (j - 1) \div size + 1
  <2>1. /\ (j - 1) \div size \in Nat /\ ((j - 1) \div size) * size <= j - 1
        /\ j - 1 < ((j - 1) \div size) * size + size
    OBVIOUS
  <2>2. j <= N
    OBVIOUS
  <2>3. k \in 1 .. K
    <3> DEFINE d == (j - 1) \div size
    <3>1. d \in Nat /\ K \in Nat /\ d * size < N /\ N + size - 1 < K * size + size
      BY <1>1, <2>1, <2>2
    <3> HIDE DEF d, N
    <3>2. ~ (K <= d)
      <4>1. K <= d => K * size <= d * size
        BY <3>1
      <4>2. K * size \in Nat /\ d * size \in Nat /\ N \in Nat
        BY <3>1, <1>1
      <4>3. N <= K * size
        BY <3>1, <4>2
      <4> QED BY <3>1, <4>1, <4>2, <4>3
    <3>3. d + 1 \in 1 .. K
      BY <3>1, <3>2
    <3> QED BY <3>3 DEF d
  <2>4. j \in low(k) .. high(k)
    BY <2>1, <2>2 DEF low, high
  <2> HIDE DEF k
  <2>5. j - low(k) + 1 \in 1 .. Len(c[k])
    BY <1>4, <2>3, <2>4
  <2>6. c[k][j - low(k) + 1] = numbers[low(k) + (j - low(k) + 1) - 1]
    BY <1>4, <2>3, <2>5
  <2>7. low(k) \in Int /\ j \in Int
    BY <1>3, <2>3 
  <2>8. c[k][j - low(k) + 1] = numbers[j]
    BY <2>6, <2>7
  <2>9. DOMAIN c[k] = 1 .. Len(c[k])
    BY <1>4, <2>3
  <2>10. numbers[j] \in Members(c[k]) /\ k \in DOMAIN c
    BY <2>3, <2>5, <2>8, <2>9, <1>5 DEF Members
  <2> QED BY <2>10
<1>8. \A x \in Members(numbers) : \E k \in DOMAIN c : x \in Members(c[k])
  <2> TAKE x \in Members(numbers)
  <2>1. PICK j \in DOMAIN numbers : x = numbers[j]
    BY DEF Members
  <2> QED BY <2>1, <1>7
<1>9. \A k \in DOMAIN c : Len(c[k]) \in 1 .. size
  BY <1>4, <1>5
<1> QED BY <1>5, <1>6, <1>8, <1>9 DEF Divided, c

\* The groups are of the teams and the numbers of the references, each in its team's.
LEMMA GroupFacts ==
  ASSUME NEW valid \in Seq(DOMAIN Tickets), NEW g, g = group_by_team(valid)
  PROVE  /\ g \in Seq(Group)
         /\ \A i \in DOMAIN g : AsksOnly(g[i], Members(valid))
         /\ \A r \in Members(valid) : \E i \in DOMAIN g : AsksFor(g[i], r)
<1> DEFINE team(k) == Tickets[valid[k]].team
           all == [k \in DOMAIN valid |-> k]
           new == {k \in DOMAIN valid : \A j \in 1 .. k - 1 : team(j) # team(k)}
           first == Kept(all, new)
           own(t) == Kept(valid, {r \in DOMAIN Tickets : Tickets[r].team = t})
           numbers(t) == [k \in DOMAIN own(t) |-> Tickets[own(t)[k]].number]
<1>1. g = [i \in DOMAIN first |-> [team |-> team(first[i]), numbers |-> numbers(team(first[i]))]]
  BY DEF group_by_team
<1>2. all \in Seq(DOMAIN valid) /\ Members(all) = DOMAIN valid
  <2>1. DOMAIN valid = 1 .. Len(valid) /\ Len(valid) \in Nat
    OBVIOUS
  <2>2. all \in [1 .. Len(valid) -> DOMAIN valid]
    BY <2>1
  <2>3. all \in Seq(DOMAIN valid)
    BY <2>1, <2>2
  <2> QED BY <2>3 DEF Members
<1>3. first \in Seq(DOMAIN valid) /\ Members(first) = new
  <2> HIDE DEF all
  <2>1. first \in Seq(DOMAIN valid) /\ Members(first) = Members(all) \cap new
    BY <1>2, KeptMembers
  <2> QED BY <2>1, <1>2
<1>4. ASSUME NEW t PROVE /\ own(t) \in Seq(DOMAIN Tickets)
                         /\ Members(own(t)) = {r \in Members(valid) : Tickets[r].team = t}
  <2>1. /\ own(t) \in Seq(DOMAIN Tickets)
        /\ Members(own(t)) = Members(valid) \cap {r \in DOMAIN Tickets : Tickets[r].team = t}
    BY KeptMembers
  <2>2. Members(valid) \subseteq DOMAIN Tickets
    BY DEF Members
  <2> HIDE DEF own
  <2> QED BY <2>1, <2>2
<1> HIDE DEF own, first, all
<1>5. ASSUME NEW t PROVE /\ numbers(t) \in Seq(NumbersOf)
                         /\ Members(numbers(t)) = {Tickets[r].number : r \in Members(own(t))}
  <2>1. own(t) \in Seq(DOMAIN Tickets)
    BY <1>4
  <2>2. \A k \in DOMAIN own(t) : Tickets[own(t)[k]].number \in NumbersOf
    BY <2>1 DEF NumbersOf
  <2>3. numbers(t) \in Seq(NumbersOf)
    BY <2>1, <2>2
  <2> QED BY <2>3 DEF Members
<1>6. \A i \in DOMAIN first : first[i] \in DOMAIN valid /\ first[i] \in new
  BY <1>3 DEF Members
<1>7. \A k \in DOMAIN valid : team(k) \in TeamsOf
  BY DEF TeamsOf
<1> HIDE DEF numbers, team, new
<1>8. g \in Seq(Group)
  <2>1. \A i \in DOMAIN first : g[i] \in Group
    BY <1>1, <1>5, <1>6, <1>7 DEF Group
  <2>2. DOMAIN first = 1 .. Len(first) /\ Len(first) \in Nat
    BY <1>3
  <2>3. g = [i \in 1 .. Len(first) |-> g[i]]
    BY <1>1, <2>2
  <2> QED BY <2>1, <2>2, <2>3
<1>9. ASSUME NEW i \in DOMAIN g PROVE AsksOnly(g[i], Members(valid))
  <2>1. i \in DOMAIN first /\ g[i].team = team(first[i]) /\ g[i].numbers = numbers(team(first[i]))
    BY <1>1
  <2> QED BY <2>1, <1>4, <1>5 DEF AsksOnly
<1>10. ASSUME NEW k \in DOMAIN valid PROVE \E i \in DOMAIN g : AsksFor(g[i], valid[k])
  <2> DEFINE same == {j \in DOMAIN valid : team(j) = team(k)}
  <2>1. same \in SUBSET Nat /\ same # {}
    OBVIOUS
  <2>2. PICK m \in same : \A j \in same : m <= j
    BY <2>1, HasLeast
  <2>3. m \in new
    BY <2>2 DEF new
  <2>4. PICK i \in DOMAIN first : first[i] = m
    BY <2>3, <1>3 DEF Members
  <2>5. i \in DOMAIN g /\ g[i].team = team(k) /\ g[i].numbers = numbers(team(k))
    BY <2>2, <2>4, <1>1
  <2>6. valid[k] \in Members(own(team(k)))
    <3>1. Members(own(team(k))) = {r \in Members(valid) : Tickets[r].team = team(k)}
      BY <1>4
    <3>2. valid[k] \in Members(valid) /\ Tickets[valid[k]].team = team(k)
      BY DEF Members, team
    <3> QED BY <3>1, <3>2
  <2>7. Tickets[valid[k]].number \in Members(numbers(team(k)))
    BY <2>6, <1>5
  <2> QED BY <2>5, <2>7 DEF AsksFor, team
<1>11. \A r \in Members(valid) : \E i \in DOMAIN g : AsksFor(g[i], r)
  BY <1>10 DEF Members
<1> QED BY <1>8, <1>9, <1>11

\* So are the queries, a batch each.
LEMMA QueryFacts ==
  ASSUME NEW valid \in Seq(DOMAIN Tickets), NEW q, q = Queries(valid)
  PROVE  /\ q \in Seq(Group)
         /\ \A i \in DOMAIN q : Len(q[i].numbers) \in 1 .. BATCH_SIZE /\ AsksOnly(q[i], Members(valid))
         /\ \A r \in Members(valid) : \E i \in DOMAIN q : AsksFor(q[i], r)
<1> DEFINE g == group_by_team(valid)
           parts == [i \in DOMAIN g |-> Batches(g[i])]
           Query == {x \in Group : Len(x.numbers) \in 1 .. BATCH_SIZE /\ AsksOnly(x, Members(valid))}
<1>1. q = Joined(parts)
  BY DEF Queries
<1>2. /\ g \in Seq(Group)
      /\ \A i \in DOMAIN g : AsksOnly(g[i], Members(valid))
      /\ \A r \in Members(valid) : \E i \in DOMAIN g : AsksFor(g[i], r)
  BY GroupFacts
<1> HIDE DEF g
<1>3. ASSUME NEW x \in Group, AsksOnly(x, Members(valid))
      PROVE  /\ Batches(x) \in Seq(Query)
             /\ \A r \in Members(valid) : AsksFor(x, r) => \E y \in Members(Batches(x)) : AsksFor(y, r)
  <2> DEFINE c == chunk_numbers(x.numbers, BATCH_SIZE)
  <2>1. x.numbers \in Seq(NumbersOf) /\ x.team \in TeamsOf
    BY DEF Group
  <2>a. c = chunk_numbers(x.numbers, BATCH_SIZE) /\ BATCH_SIZE \in Nat \ {0}
    BY AuditAssumption
  <2>3. Batches(x) = [k \in DOMAIN c |-> [team |-> x.team, numbers |-> c[k]]]
    BY DEF Batches, build_query
  <2> HIDE DEF c
  <2>2. /\ c \in Seq(Seq(NumbersOf))
        /\ \A k \in DOMAIN c : Len(c[k]) \in 1 .. BATCH_SIZE /\ Members(c[k]) \subseteq Members(x.numbers)
        /\ \A n \in Members(x.numbers) : \E k \in DOMAIN c : n \in Members(c[k])
    <3>1. Divided(NumbersOf, x.numbers, BATCH_SIZE, chunk_numbers(x.numbers, BATCH_SIZE))
      BY <2>1, <2>a, ChunkFacts
    <3> QED BY <3>1, <2>a DEF Divided
  <2>4. \A k \in DOMAIN c : [team |-> x.team, numbers |-> c[k]] \in Query
    <3> TAKE k \in DOMAIN c
    <3>1. [team |-> x.team, numbers |-> c[k]] \in Group
      BY <2>1, <2>2 DEF Group
    <3>2. AsksOnly([team |-> x.team, numbers |-> c[k]], Members(valid))
      BY <1>3, <2>2 DEF AsksOnly
    <3> QED BY <3>1, <3>2, <2>2
  <2> HIDE DEF Query
  <2>5. Batches(x) \in Seq(Query)
    <3>1. DOMAIN c = 1 .. Len(c) /\ Len(c) \in Nat
      BY <2>2
    <3> QED BY <3>1, <2>3, <2>4
  <2>6. ASSUME NEW r \in Members(valid), AsksFor(x, r)
        PROVE  \E y \in Members(Batches(x)) : AsksFor(y, r)
    <3>1. PICK k \in DOMAIN c : Tickets[r].number \in Members(c[k])
      BY <2>2, <2>6 DEF AsksFor
    <3>2. Batches(x)[k] \in Members(Batches(x)) /\ Batches(x)[k] = [team |-> x.team, numbers |-> c[k]]
      BY <2>3 DEF Members
    <3> QED BY <3>1, <3>2, <2>6 DEF AsksFor
  <2> QED BY <2>5, <2>6
<1>4. parts \in Seq(Seq(Query))
  <2> HIDE DEF Query
  <2>1. DOMAIN g = 1 .. Len(g) /\ Len(g) \in Nat /\ \A i \in DOMAIN g : g[i] \in Group
    BY <1>2
  <2> QED BY <2>1, <1>2, <1>3
<1>5. q \in Seq(Query) /\ Members(q) = UNION {Members(parts[i]) : i \in DOMAIN parts}
  <2> HIDE DEF Query, parts
  <2> QED BY <1>1, <1>4, JoinedMembers
<1>6. ASSUME NEW r \in Members(valid) PROVE \E i \in DOMAIN q : AsksFor(q[i], r)
  <2>1. PICK j \in DOMAIN g : AsksFor(g[j], r)
    BY <1>2
  <2>2. g[j] \in Group
    BY <1>2
  <2>3. PICK y \in Members(Batches(g[j])) : AsksFor(y, r)
    BY <2>1, <2>2, <1>2, <1>3
  <2>4. j \in DOMAIN parts /\ parts[j] = Batches(g[j])
    OBVIOUS
  <2> HIDE DEF parts
  <2>5. y \in Members(q)
    BY <2>3, <2>4, <1>5
  <2> QED BY <2>3, <2>5 DEF Members
<1>7. \A i \in DOMAIN q : q[i] \in Query
  <2> HIDE DEF Query
  <2> QED BY <1>5
<1>8. q \in Seq(Group)
  <2>1. Query \subseteq Group
    OBVIOUS
  <2> HIDE DEF Query
  <2> QED BY <1>5, <2>1
<1> QED BY <1>6, <1>7, <1>8

-----------------------------------------------------------------------------
(* The inductive invariant.                                                  *)

Asked == TicketsOf(DOMAIN trigger)
Wanted == Asked \ DOMAIN rejected

\* What the audit takes from the session.
SessionInv ==
  /\ \A id \in DOMAIN docs : "tickets" \in DOMAIN docs[id] /\ docs[id].tickets \subseteq DOMAIN Tickets
  /\ lattice # NotLoaded => \A id \in DOMAIN lattice.nodes : lattice.nodes[id].tickets \subseteq DOMAIN Tickets
  /\ \A e \in DOMAIN accepted : e[2].anchor # NoAnchor

\* What is wanted can be asked for, and what is not has its reason.
Parted ==
  /\ \A r \in Wanted : r \in DOMAIN Tickets /\ Tickets[r].ok
  /\ \A r \in DOMAIN rejected : rejected[r] \in {"malformed", "cross-team"}

\* The queries that are left ask for no more than is wanted.
PlanInv ==
  /\ plan \in Seq(Group)
  /\ \A k \in DOMAIN plan : Len(plan[k].numbers) \in 1 .. BATCH_SIZE /\ AsksOnly(plan[k], Wanted)

\* What was answered is wanted, and is what the service has.
AnswerInv ==
  /\ DOMAIN tickets \subseteq Wanted \cap DOMAIN Service
  /\ \A r \in DOMAIN tickets : tickets[r] = Service[r]

\* While answers are fetched, what is wanted and exists was answered or is still to be
\* asked for.
FetchInv ==
  /\ Parted
  /\ \A r \in Wanted \cap DOMAIN Service : r \in DOMAIN tickets \/ \E k \in DOMAIN plan : AsksFor(plan[k], r)

\* A report grades all that is wanted and exists, and the gate is about it.
ReportInv ==
  /\ Parted
  /\ Wanted \cap DOMAIN Service \subseteq DOMAIN tickets
  /\ findings = stale_shipped(tickets, rejected)
  /\ exit = 0 => \A f \in findings : f.severity \notin {"DANGER", "BLOCKED"}

AuditInv ==
  /\ SessionInv
  /\ phase \in {"idle", "fetch", "done"} /\ exit \in 0 .. 2 /\ attempt \in 0 .. MAX_ATTEMPTS
  /\ PlanInv /\ AnswerInv
  /\ plan # <<>> => phase = "fetch"
  /\ phase = "idle" => DOMAIN tickets = {}
  /\ phase = "fetch" => FetchInv
  /\ phase = "done" /\ exit # 2 => ReportInv

-----------------------------------------------------------------------------
(* The session.                                                              *)

\* A lattice has the tickets of its documents.
LEMMA BuiltTickets ==
  ASSUME NEW d, build_lattice(d) # NotLoaded,
         \A id \in DOMAIN d : d[id].tickets \subseteq DOMAIN Tickets
  PROVE  \A id \in DOMAIN build_lattice(d).nodes : build_lattice(d).nodes[id].tickets \subseteq DOMAIN Tickets
<1> DEFINE sections == FileSections(d)
           index == Index(d, sections)
           edges == [id \in DOMAIN d |-> _resolve_edges(d[id].entries, index)]
           l == assemble(d, sections, index, Anchored(sections), edges)
<1>1. build_lattice(d) = l
  BY DEF build_lattice, Loaded, Assembled
<1>2. l.nodes = [id \in DOMAIN d |-> [body |-> d[id].body, edges |-> edges[id],
                                      authority |-> d[id].authority, tickets |-> d[id].tickets]]
  BY DEF assemble
<1> HIDE DEF l, edges
<1>3. DOMAIN l.nodes = DOMAIN d /\ \A id \in DOMAIN d : l.nodes[id].tickets = d[id].tickets
  BY <1>2
<1> QED BY <1>1, <1>3

LEMMA SessionInit ==
  ASSUME Init
  PROVE  SessionInv
<1>1. \A id \in DOMAIN docs : "tickets" \in DOMAIN docs[id] /\ docs[id].tickets \subseteq DOMAIN Tickets
  BY AuditAssumption DEF Init
<1>2. lattice # NotLoaded => \A id \in DOMAIN lattice.nodes : lattice.nodes[id].tickets \subseteq DOMAIN Tickets
  BY <1>1, BuiltTickets DEF Init
<1>3. \A e \in DOMAIN accepted : e[2].anchor # NoAnchor
  BY DEF Init, NothingAccepted
<1> QED BY <1>1, <1>2, <1>3 DEF SessionInv

\* Neither an edit nor a reconcile takes a ticket from a document or gives it one.
LEMMA SessionSteps ==
  ASSUME SessionInv, SessionNext
  PROVE  SessionInv'
<1> DEFINE Kept1(d) == \A id \in DOMAIN d : "tickets" \in DOMAIN d[id] /\ d[id].tickets \subseteq DOMAIN Tickets
<1>1. SUFFICES Kept1(docs') /\ lattice' = build_lattice(docs') /\ \A e \in DOMAIN accepted' : e[2].anchor # NoAnchor
  <2>1. ASSUME Kept1(docs'), lattice' = build_lattice(docs'), lattice' # NotLoaded
        PROVE  \A id \in DOMAIN lattice'.nodes : lattice'.nodes[id].tickets \subseteq DOMAIN Tickets
    BY <2>1, BuiltTickets
  <2> QED BY <2>1 DEF SessionInv
<1>2. Kept1(docs) /\ \A e \in DOMAIN accepted : e[2].anchor # NoAnchor
  BY DEF SessionInv
<1>3. ASSUME Reconcile
      PROVE  Kept1(docs') /\ lattice' = build_lattice(docs') /\ \A e \in DOMAIN accepted' : e[2].anchor # NoAnchor
  <2>1. docs' = [id \in DOMAIN docs |-> [docs[id] EXCEPT !.entries = Acknowledged(lattice, id, @)]]
    BY <1>3 DEF Reconcile
  <2>2. Kept1(docs')
    BY <1>2, <2>1
  <2>3. DOMAIN accepted' = DOMAIN accepted \cup {e \in AcceptedEdges(lattice) : e[2].anchor # NoAnchor}
    BY <1>3 DEF Reconcile
  <2> QED BY <1>2, <1>3, <2>2, <2>3 DEF Reconcile
<1>4. ASSUME NEW n \in 1 .. 2, Commit(n)
      PROVE  Kept1(docs') /\ lattice' = build_lattice(docs') /\ \A e \in DOMAIN accepted' : e[2].anchor # NoAnchor
  <2>1. PICK b \in Bodies(Body(docs), n) : docs' = [docs EXCEPT ![Edited].body = b]
    BY <1>4 DEF Commit
  <2>2. Kept1(docs')
    BY <1>2, <2>1
  <2> QED BY <1>2, <1>4, <2>2 DEF Commit
<1> QED BY <1>3, <1>4 DEF SessionNext

-----------------------------------------------------------------------------
(* Asking and answering.                                                     *)

\* An audit is about nodes of the lattice.
LEMMA TriggerNodes ==
  ASSUME NEW a
  PROVE  DOMAIN Trigger(a) \subseteq DOMAIN lattice.nodes
<1>1. \A e \in EdgesOf(lattice) : e[1] \in DOMAIN lattice.nodes
  BY DEF EdgesOf
<1>2. ASSUME NEW E, E \subseteq EdgesOf(lattice) PROVE DOMAIN Refs(E) \subseteq DOMAIN lattice.nodes
  BY <1>1, <1>2 DEF Refs
<1>3. DOMAIN build_from_trigger(lattice, a.target) \subseteq DOMAIN lattice.nodes
  BY <1>2 DEF build_from_trigger
<1>4. DOMAIN build_audit_trigger(lattice, a.target) \subseteq DOMAIN lattice.nodes
  <2> DEFINE E == {e \in EdgesOf(lattice) : check_lattice(lattice)[e] \in {"STALE", "AMBIGUOUS"}}
             own == {x.file : x \in {y \in expand_targets(lattice, a.target) : y.anchor = NoAnchor}}
             ids == DOMAIN impact(lattice, a.target, NoLimit) \cup own
  <2>1. build_audit_trigger(lattice, a.target) =
          IF a.target = NoTarget THEN Refs(E) ELSE Only(Refs(E), ids)
    BY DEF build_audit_trigger
  <2>2. DOMAIN Refs(E) \subseteq DOMAIN lattice.nodes
    <3>1. E \subseteq EdgesOf(lattice)
      OBVIOUS
    <3> QED BY <1>2, <3>1
  <2> HIDE DEF E, ids
  <2>3. DOMAIN Only(Refs(E), ids) \subseteq DOMAIN Refs(E)
    BY DEF Only
  <2> QED BY <2>1, <2>2, <2>3
<1> QED BY <1>3, <1>4 DEF Trigger

\* What is asked for is what is not refused, each with its reason.
LEMMA PartFacts ==
  ASSUME NEW S \in SUBSET DOMAIN Tickets, NEW linear_team, NEW refs \in Orders(S),
         NEW parts, parts = partition_identifiers(refs, linear_team)
  PROVE  /\ parts.valid \in Seq(DOMAIN Tickets)
         /\ Members(parts.valid) = S \ DOMAIN parts.rejected
         /\ \A r \in S \ DOMAIN parts.rejected : Tickets[r].ok
         /\ \A r \in DOMAIN parts.rejected : parts.rejected[r] \in {"malformed", "cross-team"}
<1> DEFINE distinct == {refs[k] : k \in DOMAIN refs}
           bad == {r \in distinct : Rejection(r, linear_team) # "no"}
<1>1. IsFiniteSet(S) /\ Cardinality(S) \in Nat
  <2>1. IsFiniteSet(DOMAIN Tickets)
    BY AuditAssumption
  <2>2. IsFiniteSet(S)
    BY <2>1, FS_Subset
  <2> QED BY <2>2, FS_CardinalityType
<1>2. refs \in [1 .. Cardinality(S) -> S] /\ \A r \in S : \E k \in DOMAIN refs : refs[k] = r
  BY DEF Orders
<1>3. refs \in Seq(S) /\ distinct = S /\ Members(refs) = S
  BY <1>1, <1>2 DEF Members
<1>4. parts = [valid |-> Kept(refs, distinct \ bad), rejected |-> [r \in bad |-> Rejection(r, linear_team)]]
  BY DEF partition_identifiers
<1>5. /\ Kept(refs, distinct \ bad) \in Seq(S)
      /\ Members(Kept(refs, distinct \ bad)) = Members(refs) \cap (distinct \ bad)
  BY <1>3, KeptMembers
<1>6. \A r : /\ Rejection(r, linear_team) = "no" => Tickets[r].ok
             /\ Rejection(r, linear_team) \in {"no", "malformed", "cross-team"}
  BY DEF Rejection
<1>7. parts.valid = Kept(refs, distinct \ bad) /\ parts.rejected = [r \in bad |-> Rejection(r, linear_team)]
  BY <1>4
<1>8. parts.valid \in Seq(DOMAIN Tickets)
  <2> HIDE DEF distinct, bad
  <2>1. S \subseteq DOMAIN Tickets
    OBVIOUS
  <2> QED BY <1>5, <1>7, <2>1
<1>9. DOMAIN parts.rejected = bad /\ \A r \in bad : parts.rejected[r] = Rejection(r, linear_team)
  BY <1>7
<1>10. Members(parts.valid) = S \ bad
  BY <1>3, <1>5, <1>7
<1>11. \A r \in S \ bad : Tickets[r].ok
  BY <1>3, <1>6
<1>12. \A r \in bad : Rejection(r, linear_team) \in {"malformed", "cross-team"}
  BY <1>6
<1> QED BY <1>8, <1>9, <1>10, <1>11, <1>12

\* One page holds all that exists of a query, which is what was asked for.
LEMMA PageFacts ==
  ASSUME NEW q \in Group, Len(q.numbers) \in 1 .. BATCH_SIZE,
         NEW refs, \A r \in refs : r \in DOMAIN Tickets /\ Tickets[r].ok, AsksOnly(q, refs),
         NEW page \in Pages(q)
  PROVE  /\ page \subseteq refs \cap DOMAIN Service
         /\ \A r \in DOMAIN Service : AsksFor(q, r) => r \in page
<1> DEFINE all == Existing(q)
           at == [r \in all |-> CHOOSE k \in DOMAIN q.numbers : q.numbers[k] = Tickets[r].number]
<1>1. q.numbers \in Seq(NumbersOf) /\ DOMAIN q.numbers = 1 .. Len(q.numbers) /\ Len(q.numbers) \in Nat
  BY DEF Group
<1>2. \A r, s \in DOMAIN Tickets :
        Tickets[r].ok /\ Tickets[s].ok /\ Tickets[r].team = Tickets[s].team /\ Tickets[r].number = Tickets[s].number
          => r = s
  BY AuditAssumption
<1>3. \A r \in DOMAIN Service : r \in DOMAIN Tickets /\ Tickets[r].ok
  BY AuditAssumption
<1>4. \A r \in DOMAIN Service : r \in all <=> AsksFor(q, r)
  BY DEF Existing, AsksFor, Members
<1>5. all \subseteq DOMAIN Service
  BY DEF Existing
<1> HIDE DEF all
<1>6. \A r \in all : at[r] \in 1 .. Len(q.numbers) /\ q.numbers[at[r]] = Tickets[r].number
  BY <1>1, <1>4, <1>5 DEF AsksFor, Members
<1>7. at \in [all -> 1 .. Len(q.numbers)]
  BY <1>6
<1>8. at \in Injection(all, 1 .. Len(q.numbers))
  <2>1. ASSUME NEW r \in all, NEW s \in all, at[r] = at[s] PROVE r = s
    <3> HIDE DEF at
    <3>1. Tickets[r].number = Tickets[s].number
      BY <1>6, <2>1
    <3>2. Tickets[r].team = Tickets[s].team
      BY <1>4, <1>5 DEF AsksFor
    <3> QED BY <1>2, <1>3, <1>5, <3>1, <3>2
  <2> HIDE DEF at
  <2> QED BY <1>7, <2>1 DEF Injection, IsInjective
<1> HIDE DEF at
<1>9. IsFiniteSet(1 .. Len(q.numbers)) /\ Cardinality(1 .. Len(q.numbers)) = Len(q.numbers)
  BY <1>1, FS_Interval
<1>10. IsFiniteSet(all) /\ Cardinality(all) <= Len(q.numbers)
  BY <1>8, <1>9, FS_Injection
<1>11. Cardinality(all) <= BATCH_SIZE
  <2>1. Cardinality(all) \in Nat /\ BATCH_SIZE \in Nat
    BY <1>10, FS_CardinalityType, AuditAssumption
  <2> QED BY <1>1, <1>10, <2>1
<1>12. page = all
  BY <1>11 DEF Pages, all
<1>13. ASSUME NEW r \in all PROVE r \in refs
  <2>1. AsksFor(q, r) /\ r \in DOMAIN Tickets /\ Tickets[r].ok
    BY <1>3, <1>4, <1>5
  <2>2. PICK s \in refs : Tickets[s].team = q.team /\ Tickets[s].number = Tickets[r].number
    BY <2>1 DEF AsksFor, AsksOnly
  <2> QED BY <1>2, <2>1, <2>2 DEF AsksFor
<1> QED BY <1>4, <1>5, <1>12, <1>13
-----------------------------------------------------------------------------
(* The steps.                                                                *)

LEMMA SessionStays ==
  ASSUME SessionInv, UNCHANGED session
  PROVE  SessionInv'
BY DEF SessionInv, session

\* An error leaves nothing of the audit.
LEMMA ToolErrorInv ==
  ASSUME SessionInv, UNCHANGED session, ToolError
  PROVE  AuditInv'
<1>1. SessionInv'
  BY SessionStays
<1>2. phase' = "done" /\ exit' = 2 /\ plan' = <<>> /\ attempt' = 0 /\ DOMAIN tickets' = {}
  BY DEF ToolError, Nothing
<1>3. PlanInv'
  BY <1>2 DEF PlanInv
<1>4. AnswerInv'
  BY <1>2 DEF AnswerInv
<1>5. 0 \in 0 .. MAX_ATTEMPTS
  BY AuditAssumption
<1> QED BY <1>1, <1>2, <1>3, <1>4, <1>5 DEF AuditInv

\* An audit starts by planning to ask for all that is wanted.
LEMMA StartInv ==
  ASSUME AuditInv, Start
  PROVE  AuditInv'
<1>1. SessionInv /\ UNCHANGED session /\ phase = "idle" /\ DOMAIN tickets = {} /\ exit \in 0 .. 2
  BY DEF AuditInv, Start
<1>2. PICK a \in Audits, linear_team \in Teams :
       \/ ToolError
       \/ /\ Known(a) /\ trigger' = Trigger(a)
          /\ \E refs \in Orders(TicketsOf(DOMAIN trigger')) :
               /\ plan' = Queries(partition_identifiers(refs, linear_team).valid)
               /\ rejected' = partition_identifiers(refs, linear_team).rejected
          /\ phase' = "fetch" /\ attempt' = 1
          /\ UNCHANGED <<tickets, findings, exit>>
  BY Zenon DEF Start
<1>3. CASE ToolError
  BY <1>1, <1>3, ToolErrorInv
<1>4. CASE ~ ToolError
  <2>1. /\ Known(a) /\ trigger' = Trigger(a) /\ phase' = "fetch" /\ attempt' = 1
        /\ UNCHANGED <<tickets, findings, exit>>
    BY <1>2, <1>4
  <2>2. PICK refs \in Orders(TicketsOf(DOMAIN trigger')) :
               /\ plan' = Queries(partition_identifiers(refs, linear_team).valid)
               /\ rejected' = partition_identifiers(refs, linear_team).rejected
    BY <1>2, <1>4
  <2> DEFINE S == TicketsOf(DOMAIN trigger')
             parts == partition_identifiers(refs, linear_team)
  <2>3. S \in SUBSET DOMAIN Tickets
    <3>1. DOMAIN trigger' \subseteq DOMAIN lattice.nodes
      BY <2>1, TriggerNodes
    <3>2. lattice # NotLoaded
      BY <2>1 DEF Known
    <3> QED BY <3>1, <3>2, <1>1 DEF SessionInv, TicketsOf
  <2>4. lattice' = lattice
    BY <1>1 DEF session
  <2>5. Asked' = S
    BY <2>4 DEF Asked, TicketsOf
  <2> HIDE DEF S
  <2>6. refs \in Orders(S)
    BY <2>2 DEF S
  <2> HIDE DEF parts
  <2>7. /\ parts.valid \in Seq(DOMAIN Tickets)
        /\ Members(parts.valid) = S \ DOMAIN parts.rejected
        /\ \A r \in S \ DOMAIN parts.rejected : Tickets[r].ok
        /\ \A r \in DOMAIN parts.rejected : parts.rejected[r] \in {"malformed", "cross-team"}
    BY <2>3, <2>6, PartFacts DEF parts
  <2>8. plan' = Queries(parts.valid) /\ rejected' = parts.rejected
    BY <2>2 DEF parts
  <2>9. Wanted' = Members(parts.valid)
    BY <2>5, <2>7, <2>8 DEF Wanted
  <2>10. /\ plan' \in Seq(Group)
         /\ \A i \in DOMAIN plan' : Len(plan'[i].numbers) \in 1 .. BATCH_SIZE /\ AsksOnly(plan'[i], Members(parts.valid))
         /\ \A r \in Members(parts.valid) : \E i \in DOMAIN plan' : AsksFor(plan'[i], r)
    BY <2>7, <2>8, QueryFacts
  <2>11. PlanInv'
    BY <2>9, <2>10 DEF PlanInv
  <2>12. AnswerInv'
    BY <1>1, <2>1 DEF AnswerInv
  <2>13. Parted'
    BY <2>3, <2>7, <2>8, <2>9 DEF Parted
  <2>14. FetchInv'
    BY <2>9, <2>10, <2>13 DEF FetchInv
  <2>15. SessionInv'
    BY <1>1, SessionStays
  <2>16. 1 \in 0 .. MAX_ATTEMPTS
    BY AuditAssumption
  <2> QED BY <1>1, <2>1, <2>11, <2>12, <2>14, <2>15, <2>16 DEF AuditInv
<1> QED BY <1>3, <1>4

\* An answer is to the first of the queries that are left.
LEMMA AnsweredInv ==
  ASSUME AuditInv, Answered
  PROVE  AuditInv'
<1>1. /\ phase = "fetch" /\ plan # <<>> /\ UNCHANGED <<session, trigger>>
      /\ plan' = Tail(plan) /\ attempt' = 1 /\ UNCHANGED <<phase, rejected, findings, exit>>
  BY DEF Answered, Fetching
<1>2. PICK page \in Pages(Head(plan)) :
        tickets' = [r \in DOMAIN tickets \cup page |-> IF r \in page THEN Service[r] ELSE tickets[r]]
  BY DEF Answered
<1>3. SessionInv /\ PlanInv /\ AnswerInv /\ FetchInv /\ exit \in 0 .. 2
  BY <1>1 DEF AuditInv
<1>4. lattice' = lattice /\ trigger' = trigger /\ rejected' = rejected
  BY <1>1 DEF session
<1>5. Wanted' = Wanted
  BY <1>4 DEF Wanted, Asked, TicketsOf
<1>6. plan \in Seq(Group) /\ plan # <<>>
  BY <1>1, <1>3 DEF PlanInv
<1>7. /\ 1 \in DOMAIN plan /\ Head(plan) = plan[1] /\ Head(plan) \in Group
      /\ Tail(plan) \in Seq(Group)
      /\ \A k \in DOMAIN Tail(plan) : k + 1 \in DOMAIN plan /\ Tail(plan)[k] = plan[k + 1]
      /\ \A k \in DOMAIN plan : k # 1 => k - 1 \in DOMAIN Tail(plan) /\ Tail(plan)[k - 1] = plan[k]
  BY <1>6
<1>8. \A k \in DOMAIN plan : Len(plan[k].numbers) \in 1 .. BATCH_SIZE /\ AsksOnly(plan[k], Wanted)
  BY <1>3 DEF PlanInv
<1>9. \A r \in Wanted : r \in DOMAIN Tickets /\ Tickets[r].ok
  BY <1>3 DEF FetchInv, Parted
<1>10. /\ page \subseteq Wanted \cap DOMAIN Service
       /\ \A r \in DOMAIN Service : AsksFor(Head(plan), r) => r \in page
  <2>1. Head(plan) \in Group /\ Len(Head(plan).numbers) \in 1 .. BATCH_SIZE /\ AsksOnly(Head(plan), Wanted)
    BY <1>7, <1>8
  <2> QED BY <2>1, <1>9, PageFacts
<1>11. PlanInv'
  <2>1. \A k \in DOMAIN Tail(plan) :
          Len(Tail(plan)[k].numbers) \in 1 .. BATCH_SIZE /\ AsksOnly(Tail(plan)[k], Wanted)
    BY <1>7, <1>8
  <2> QED BY <2>1, <1>1, <1>5, <1>7 DEF PlanInv
<1>12. AnswerInv'
  BY <1>2, <1>3, <1>5, <1>10 DEF AnswerInv
<1>13. Parted'
  BY <1>3, <1>4, <1>5 DEF FetchInv, Parted
<1>14. FetchInv'
  <2>1. ASSUME NEW r \in Wanted \cap DOMAIN Service, r \notin DOMAIN tickets'
        PROVE  \E k \in DOMAIN plan' : AsksFor(plan'[k], r)
    <3>1. r \notin DOMAIN tickets /\ r \notin page
      BY <1>2, <2>1
    <3>2. PICK k \in DOMAIN plan : AsksFor(plan[k], r)
      BY <1>3, <3>1 DEF FetchInv
    <3>3. k # 1
      BY <1>7, <1>10, <3>1, <3>2
    <3>4. k - 1 \in DOMAIN plan' /\ plan'[k - 1] = plan[k]
      BY <1>1, <1>7, <3>3
    <3> QED BY <3>2, <3>4
  <2> QED BY <2>1, <1>5, <1>13 DEF FetchInv
<1>15. SessionInv'
  BY <1>1, <1>3, SessionStays
<1>16. 1 \in 0 .. MAX_ATTEMPTS
  BY AuditAssumption
<1> QED BY <1>1, <1>3, <1>11, <1>12, <1>14, <1>15, <1>16 DEF AuditInv

\* Sending a query again changes nothing but the count.
LEMMA RetryInv ==
  ASSUME AuditInv, Retry
  PROVE  AuditInv'
<1>1. /\ phase = "fetch" /\ UNCHANGED <<session, trigger>>
      /\ attempt < MAX_ATTEMPTS /\ attempt' = attempt + 1
      /\ UNCHANGED <<phase, plan, tickets, rejected, findings, exit>>
  BY DEF Retry, Fetching
<1>2. SessionInv /\ PlanInv /\ AnswerInv /\ FetchInv /\ exit \in 0 .. 2 /\ attempt \in 0 .. MAX_ATTEMPTS
  BY <1>1 DEF AuditInv
<1>3. Wanted' = Wanted
  BY <1>1 DEF Wanted, Asked, TicketsOf, session
<1>4. PlanInv' /\ AnswerInv'
  BY <1>1, <1>2, <1>3 DEF PlanInv, AnswerInv
<1>5. FetchInv'
  BY <1>1, <1>2, <1>3 DEF FetchInv, Parted
<1>6. SessionInv'
  BY <1>1, <1>2, SessionStays
<1>7. attempt' \in 0 .. MAX_ATTEMPTS
  BY <1>1, <1>2, AuditAssumption
<1> QED BY <1>1, <1>2, <1>4, <1>5, <1>6, <1>7 DEF AuditInv

\* A report is made when nothing is left to ask for.
LEMMA ReportStepInv ==
  ASSUME AuditInv, Report
  PROVE  AuditInv'
<1>1. /\ phase = "fetch" /\ plan = <<>> /\ findings' = stale_shipped(tickets, rejected) /\ phase' = "done"
      /\ UNCHANGED <<session, trigger, plan, attempt, tickets, rejected>>
  BY DEF Report
<1>2. SessionInv /\ PlanInv /\ AnswerInv /\ FetchInv /\ attempt \in 0 .. MAX_ATTEMPTS
  BY <1>1 DEF AuditInv
<1>3. lattice' = lattice
  BY <1>1 DEF session
<1>4. Wanted' = Wanted
  BY <1>1, <1>3 DEF Wanted, Asked, TicketsOf
<1>5. PlanInv' /\ AnswerInv'
  BY <1>1, <1>2, <1>4 DEF PlanInv, AnswerInv
<1>6. PICK warn_exit \in BOOLEAN :
        exit' = IF \E f \in findings' : f.severity \in Gate(warn_exit) THEN 1 ELSE 0
  BY DEF Report
<1>7. exit' \in 0 .. 2 /\ (exit' = 0 => \A f \in findings' : f.severity \notin {"DANGER", "BLOCKED"})
  BY <1>6 DEF Gate
<1>8. Parted'
  BY <1>1, <1>2, <1>4 DEF FetchInv, Parted
<1>9. (Wanted \cap DOMAIN Service \subseteq DOMAIN tickets)'
  BY <1>1, <1>2, <1>4 DEF FetchInv
<1>10. stale_shipped(tickets, rejected)' = stale_shipped(tickets, rejected)
  <2>1. trigger' = trigger /\ tickets' = tickets /\ rejected' = rejected
    BY <1>1
  <2> QED BY <1>3, <2>1 DEF stale_shipped, Finding
<1>11. ReportInv'
  BY <1>1, <1>7, <1>8, <1>9, <1>10 DEF ReportInv
<1>12. SessionInv'
  BY <1>1, <1>2, SessionStays
<1> QED BY <1>1, <1>2, <1>5, <1>7, <1>11, <1>12 DEF AuditInv

\* Nothing is edited while an audit runs.
LEMMA EditInv ==
  ASSUME AuditInv, Edit
  PROVE  AuditInv'
<1>1. phase = "idle" /\ SessionNext /\ UNCHANGED audit
  BY DEF Edit
<1>2. /\ SessionInv /\ PlanInv /\ AnswerInv /\ plan = <<>> /\ DOMAIN tickets = {}
      /\ exit \in 0 .. 2 /\ attempt \in 0 .. MAX_ATTEMPTS
  BY <1>1 DEF AuditInv
<1>3. SessionInv'
  BY <1>1, <1>2, SessionSteps
<1>4. phase' = phase /\ plan' = plan /\ attempt' = attempt /\ tickets' = tickets /\ exit' = exit
  BY <1>1 DEF audit
<1>5. PlanInv'
  BY <1>2, <1>4 DEF PlanInv
<1>6. AnswerInv'
  BY <1>2, <1>4 DEF AnswerInv
<1> QED BY <1>1, <1>2, <1>3, <1>4, <1>5, <1>6 DEF AuditInv

LEMMA IdleInv ==
  ASSUME AuditInit
  PROVE  AuditInv
<1>1. Init /\ phase = "idle" /\ plan = <<>> /\ attempt = 0 /\ DOMAIN tickets = {} /\ exit = 0
  BY DEF AuditInit, Idle, Nothing
<1>2. SessionInv
  BY <1>1, SessionInit
<1>3. PlanInv /\ AnswerInv
  BY <1>1 DEF PlanInv, AnswerInv
<1>4. 0 \in 0 .. MAX_ATTEMPTS
  BY AuditAssumption
<1> QED BY <1>1, <1>2, <1>3, <1>4 DEF AuditInv

LEMMA StepInv ==
  ASSUME AuditInv, [Next]_vars
  PROVE  AuditInv'
<1>1. CASE Edit
  BY <1>1, EditInv
<1>2. CASE Start
  BY <1>2, StartInv
<1>3. CASE Answered
  BY <1>3, AnsweredInv
<1>4. CASE Retry
  BY <1>4, RetryInv
<1>5. CASE GiveUp
  <2>1. SessionInv /\ UNCHANGED session /\ ToolError
    BY <1>5 DEF AuditInv, GiveUp, Fetching
  <2> QED BY <2>1, ToolErrorInv
<1>6. CASE Report
  BY <1>6, ReportStepInv
<1>7. CASE UNCHANGED vars
  <2>1. /\ phase' = phase /\ plan' = plan /\ attempt' = attempt /\ tickets' = tickets /\ exit' = exit
        /\ trigger' = trigger /\ rejected' = rejected /\ findings' = findings /\ UNCHANGED session
    BY <1>7 DEF vars, audit
  <2>2. lattice' = lattice
    BY <2>1 DEF session
  <2>3. Wanted' = Wanted /\ stale_shipped(tickets, rejected)' = stale_shipped(tickets, rejected)
    BY <2>1, <2>2 DEF Wanted, Asked, TicketsOf, stale_shipped, Finding
  <2>4. SessionInv'
    BY <2>1, SessionStays DEF AuditInv
  <2>5. PlanInv => PlanInv'
    BY <2>1, <2>3 DEF PlanInv
  <2>6. AnswerInv => AnswerInv'
    BY <2>1, <2>3 DEF AnswerInv
  <2>7. Parted => Parted'
    BY <2>1, <2>3 DEF Parted
  <2>8. FetchInv => FetchInv'
    BY <2>1, <2>3, <2>7 DEF FetchInv
  <2>9. ReportInv => ReportInv'
    BY <2>1, <2>3, <2>7 DEF ReportInv
  <2> QED BY <2>1, <2>4, <2>5, <2>6, <2>8, <2>9 DEF AuditInv
<1> QED BY <1>1, <1>2, <1>3, <1>4, <1>5, <1>6, <1>7 DEF Next, AuditStep

-----------------------------------------------------------------------------
(* What a report says.                                                       *)

\* A ticket is graded by the state that the service has of it.
LEMMA Graded ==
  ASSUME ReportInv, AnswerInv, NEW id \in DOMAIN trigger, NEW ref \in lattice.nodes[id].tickets
  PROVE  LET own == {f \in findings : f.node = id /\ f.ticket = ref}
             state == IF ref \in DOMAIN Service THEN Service[ref] ELSE "none"
         IN  IF ref \in DOMAIN rejected \/ state = "none"
               THEN \E f \in own : f.severity = "BLOCKED" /\ (f.reason = "not-found" <=> ref \notin DOMAIN rejected)
             ELSE IF state \in {"triage", "canceled", "duplicate"} THEN own = {}
             ELSE \E f \in own : f.severity = CASE state = "completed" -> "DANGER"
                                                [] state = "started" -> "WARNING"
                                                [] OTHER -> "INFO"
<1> DEFINE own == {f \in findings : f.node = id /\ f.ticket = ref}
           state == IF ref \in DOMAIN Service THEN Service[ref] ELSE "none"
           asked == UNION {{i} \X lattice.nodes[i].tickets : i \in DOMAIN trigger}
           graded(x) == x[2] \in DOMAIN tickets /\ tickets[x[2]] \in DOMAIN _STATE_SEVERITY
           blocked(x) == x[2] \notin DOMAIN tickets
           grade(x) == Finding(x[1], x[2], _STATE_SEVERITY[tickets[x[2]]], "")
           block(x) == Finding(x[1], x[2], "BLOCKED", IF x[2] \in DOMAIN rejected THEN rejected[x[2]] ELSE "not-found")
<1>1. findings = {grade(x) : x \in {y \in asked : graded(y)}} \cup {block(x) : x \in {y \in asked : blocked(y)}}
  BY DEF ReportInv, stale_shipped
<1>2. <<id, ref>> \in asked /\ \A x \in asked : \E i, r : x = <<i, r>>
  OBVIOUS
<1>a. \A x \in asked : (graded(x) => grade(x) \in findings) /\ (blocked(x) => block(x) \in findings)
  <2> HIDE DEF asked, grade, block, graded, blocked
  <2> QED BY <1>1
<1>b. \A f \in findings : \E x \in asked : (graded(x) /\ f = grade(x)) \/ (blocked(x) /\ f = block(x))
  <2> HIDE DEF asked, grade, block, graded, blocked
  <2> QED BY <1>1
<1>3. ref \in Asked
  BY DEF Asked, TicketsOf
<1>4. \A i, r, s, why : /\ Finding(i, r, s, why).node = i /\ Finding(i, r, s, why).ticket = r
                        /\ Finding(i, r, s, why).severity = s /\ Finding(i, r, s, why).reason = why
  BY DEF Finding
<1>5. DOMAIN _STATE_SEVERITY = {"completed", "started", "unstarted", "backlog"}
      /\ _STATE_SEVERITY["completed"] = "DANGER" /\ _STATE_SEVERITY["started"] = "WARNING"
      /\ _STATE_SEVERITY["unstarted"] = "INFO" /\ _STATE_SEVERITY["backlog"] = "INFO"
  BY DEF _STATE_SEVERITY
<1>6. DOMAIN tickets \subseteq Wanted \cap DOMAIN Service /\ \A r \in DOMAIN tickets : tickets[r] = Service[r]
  BY DEF AnswerInv
<1>7. Wanted \cap DOMAIN Service \subseteq DOMAIN tickets
  BY DEF ReportInv
<1>8. \A r \in DOMAIN rejected : rejected[r] # "not-found"
  BY DEF ReportInv, Parted
<1>9. ASSUME ref \in DOMAIN rejected \/ state = "none"
      PROVE  \E f \in own : f.severity = "BLOCKED" /\ (f.reason = "not-found" <=> ref \notin DOMAIN rejected)
  <2>1. \A r \in DOMAIN Service : Service[r] # "none"
    BY AuditAssumption DEF LinearStateType
  <2>2. ref \notin DOMAIN tickets
    BY <1>6, <1>9, <2>1 DEF Wanted
  <2>3. blocked(<<id, ref>>)
    BY <2>2
  <2>4. block(<<id, ref>>) \in findings
    <3> HIDE DEF blocked, block, asked
    <3> QED BY <1>2, <1>a, <2>3
  <2>5. block(<<id, ref>>) \in own
    BY <1>4, <2>4
  <2> QED BY <1>4, <1>8, <2>5
<1>10. ASSUME ~ (ref \in DOMAIN rejected \/ state = "none")
       PROVE  ref \in DOMAIN tickets /\ tickets[ref] = state /\ state \in LinearStateType
  BY <1>3, <1>6, <1>7, <1>10, AuditAssumption DEF Wanted
<1>11. ASSUME ~ (ref \in DOMAIN rejected \/ state = "none"), state \in {"triage", "canceled", "duplicate"}
       PROVE  own = {}
  <2>1. ASSUME NEW f \in findings, f.node = id, f.ticket = ref PROVE FALSE
    <3>1. PICK x \in asked : (graded(x) /\ f = grade(x)) \/ (blocked(x) /\ f = block(x))
      <4> HIDE DEF asked, grade, block, graded, blocked
      <4> QED BY <1>b, <2>1
    <3>2. x[2] = ref
      <4> HIDE DEF asked, graded, blocked
      <4>1. grade(x).ticket = x[2] /\ block(x).ticket = x[2]
        BY DEF Finding
      <4> HIDE DEF grade, block
      <4> QED BY <2>1, <3>1, <4>1
    <3> QED BY <1>5, <1>10, <1>11, <3>1, <3>2
  <2> QED BY <2>1
<1>12. ASSUME ~ (ref \in DOMAIN rejected \/ state = "none"), state \notin {"triage", "canceled", "duplicate"}
       PROVE  \E f \in own : f.severity = CASE state = "completed" -> "DANGER"
                                            [] state = "started" -> "WARNING"
                                            [] OTHER -> "INFO"
  <2>1. state \in {"completed", "started", "unstarted", "backlog"}
    BY <1>10, <1>12 DEF LinearStateType
  <2>2. ref \in DOMAIN tickets /\ tickets[ref] = state
    BY <1>10, <1>12
  <2>3. graded(<<id, ref>>)
    BY <1>5, <2>1, <2>2
  <2>4. grade(<<id, ref>>) \in findings
    <3> HIDE DEF graded, grade, asked
    <3> QED BY <1>2, <1>a, <2>3
  <2>5. grade(<<id, ref>>).node = id /\ grade(<<id, ref>>).ticket = ref
        /\ grade(<<id, ref>>).severity = _STATE_SEVERITY[tickets[ref]]
    BY DEF Finding
  <2> HIDE DEF grade
  <2>6. grade(<<id, ref>>) \in own
    BY <2>4, <2>5
  <2>7. grade(<<id, ref>>).severity = _STATE_SEVERITY[state]
    BY <2>2, <2>5
  <2> HIDE DEF state, own
  <2> QED BY <1>5, <2>1, <2>6, <2>7
<1> QED BY <1>9, <1>11, <1>12

LEMMA ReportFacts ==
  ASSUME AuditInv
  PROVE  ReportsAreComplete
<1>1. TypeOK
  <2>1. DOMAIN tickets \subseteq TicketsOf(DOMAIN trigger) \ DOMAIN rejected
    BY DEF AuditInv, AnswerInv, Wanted, Asked
  <2> QED BY <2>1 DEF AuditInv, PlanInv, SessionInv, TypeOK
<1>2. ASSUME phase = "done", exit # 2, NEW id \in DOMAIN trigger, NEW ref \in lattice.nodes[id].tickets
      PROVE  LET own == {f \in findings : f.node = id /\ f.ticket = ref}
                 state == IF ref \in DOMAIN Service THEN Service[ref] ELSE "none"
             IN  IF ref \in DOMAIN rejected \/ state = "none"
                   THEN \E f \in own : f.severity = "BLOCKED" /\ (f.reason = "not-found" <=> ref \notin DOMAIN rejected)
                 ELSE IF state \in {"triage", "canceled", "duplicate"} THEN own = {}
                 ELSE \E f \in own : f.severity = CASE state = "completed" -> "DANGER"
                                                    [] state = "started" -> "WARNING"
                                                    [] OTHER -> "INFO"
  <2>1. ReportInv /\ AnswerInv
    BY <1>2 DEF AuditInv
  <2> QED BY <2>1, Graded
<1>3. ASSUME phase = "done", exit = 0, NEW f \in findings PROVE f.severity \in {"WARNING", "INFO"}
  <2>1. ReportInv
    BY <1>3 DEF AuditInv
  <2>2. f.severity \in {"DANGER", "WARNING", "INFO", "BLOCKED"}
    <3>1. f \in stale_shipped(tickets, rejected)
      BY <1>3, <2>1 DEF ReportInv
    <3>2. PICK x : \/ /\ tickets[x[2]] \in DOMAIN _STATE_SEVERITY
                      /\ f = Finding(x[1], x[2], _STATE_SEVERITY[tickets[x[2]]], "")
                   \/ \E why : f = Finding(x[1], x[2], "BLOCKED", why)
      BY <3>1 DEF stale_shipped
    <3>3. \A k \in DOMAIN _STATE_SEVERITY : _STATE_SEVERITY[k] \in {"DANGER", "WARNING", "INFO"}
      BY DEF _STATE_SEVERITY
    <3>4. CASE \E why : f = Finding(x[1], x[2], "BLOCKED", why)
      BY <3>4 DEF Finding
    <3>5. CASE tickets[x[2]] \in DOMAIN _STATE_SEVERITY /\ f = Finding(x[1], x[2], _STATE_SEVERITY[tickets[x[2]]], "")
      <4>1. f.severity = _STATE_SEVERITY[tickets[x[2]]]
        BY <3>5 DEF Finding
      <4> QED BY <3>3, <3>5, <4>1
    <3> QED BY <3>2, <3>4, <3>5
  <2> QED BY <1>3, <2>1, <2>2 DEF ReportInv
<1> QED BY <1>1, <1>2, <1>3 DEF ReportsAreComplete

\* The invariant holds of every audit.
THEOREM AuditInvariant == Spec => []AuditInv
<1>1. AuditInit => AuditInv
  BY IdleInv
<1>2. AuditInv /\ [Next]_vars => AuditInv'
  BY StepInv
<1> QED BY <1>1, <1>2, PTL DEF Spec

\* A report is of everything that was asked for, whatever was retried, in batches of
\* whatever size, for every project and every service.
THEOREM ReportCompleteness == Spec => []ReportsAreComplete
<1>1. AuditInv => ReportsAreComplete
  BY ReportFacts
<1> QED BY <1>1, AuditInvariant, PTL

-----------------------------------------------------------------------------
(* The lattice, as the queries use it.                                       *)

\* What the queries use of the lattice of documents d.
Coherent(l, d) ==
  /\ DOMAIN l.nodes = DOMAIN d
  /\ \A id \in DOMAIN d : l.nodes[id].authority = d[id].authority
  /\ \A t \in DOMAIN l.index : t.file \in DOMAIN d
  /\ \A id \in DOMAIN d :
       /\ FileTarget(id) \in DOMAIN l.index
       /\ {t \in DOMAIN l.index : t.file = id} = {FileTarget(id)} \cup l.anchors[id]
       /\ \A t \in DOMAIN l.nodes[id].edges : l.nodes[id].edges[t].resolved <=> t \in DOMAIN l.index
  /\ \A t \in DOMAIN l.index : l.dependents[t] = {id \in DOMAIN d : t \in DOMAIN l.nodes[id].edges}

LEMMA TargetFacts ==
  ASSUME NEW file, NEW anchor
  PROVE  /\ TargetId(file, anchor).file = file /\ TargetId(file, anchor).anchor = anchor
         /\ SectionTarget(file, anchor).file = file /\ SectionTarget(file, anchor).anchor = <<anchor>>
  BY DEF TargetId, SectionTarget

LEMMA IndexFacts ==
  ASSUME NEW d, NEW sections, DOMAIN sections = DOMAIN d
  PROVE  /\ DOMAIN Index(d, sections) = Files(d) \cup Anchored(sections)
         /\ \A t \in Files(d) \cup Anchored(sections) : t.file \in DOMAIN d
         /\ \A id \in DOMAIN d : FileTarget(id) \in Files(d)
         /\ \A t \in Files(d) : t = FileTarget(t.file)
<1>1. DOMAIN Index(d, sections) = Files(d) \cup Anchored(sections)
  BY DEF Index
<1>2. \A t \in Files(d) : t.file \in DOMAIN d /\ t = FileTarget(t.file)
  BY TargetFacts DEF Files, FileTarget
<1>3. ASSUME NEW t \in Anchored(sections) PROVE t.file \in DOMAIN d
  <2>1. PICK x \in UNION {{id} \X DOMAIN sections[id] : id \in DOMAIN sections} :
          t = SectionTarget(x[1], sections[x[1]][x[2]].anchor)
    BY DEF Anchored
  <2>2. x[1] \in DOMAIN sections
    OBVIOUS
  <2> QED BY <2>1, <2>2, TargetFacts
<1>4. \A id \in DOMAIN d : FileTarget(id) \in Files(d)
  BY DEF Files
<1> QED BY <1>1, <1>2, <1>3, <1>4

LEMMA BuiltIsCoherent ==
  ASSUME NEW d, build_lattice(d) # NotLoaded
  PROVE  Coherent(build_lattice(d), d)
<1> DEFINE sections == FileSections(d)
           index == Index(d, sections)
           anchored == Anchored(sections)
           edges == [id \in DOMAIN d |-> _resolve_edges(d[id].entries, index)]
           l == assemble(d, sections, index, anchored, edges)
<1>1. build_lattice(d) = l
  BY DEF build_lattice, Loaded, Assembled
<1>2. DOMAIN sections = DOMAIN d
  BY DEF FileSections
<1>3. /\ l.index = index
      /\ l.nodes = [id \in DOMAIN d |-> [body |-> d[id].body, edges |-> edges[id],
                                         authority |-> d[id].authority, tickets |-> d[id].tickets]]
      /\ l.dependents = [t \in DOMAIN index |-> {id \in DOMAIN d : t \in DOMAIN edges[id]}]
      /\ l.anchors = [id \in DOMAIN d |-> {t \in anchored : t.file = id}]
  BY DEF assemble
<1>4. \A id \in DOMAIN d : \A t \in DOMAIN edges[id] : edges[id][t].resolved <=> t \in DOMAIN index
  BY DEF _resolve_edges
<1>5. /\ DOMAIN index = Files(d) \cup anchored
      /\ \A t \in Files(d) \cup anchored : t.file \in DOMAIN d
      /\ \A id \in DOMAIN d : FileTarget(id) \in Files(d) /\ FileTarget(id).file = id
      /\ \A t \in Files(d) : t = FileTarget(t.file)
  <2> HIDE DEF sections
  <2> QED BY <1>2, IndexFacts, TargetFacts DEF FileTarget
<1> HIDE DEF l, edges, index, anchored, sections
<1>6. \A id \in DOMAIN d : l.nodes[id].edges = edges[id] /\ l.nodes[id].authority = d[id].authority
  BY <1>3
<1>7. ASSUME NEW id \in DOMAIN d
      PROVE  {t \in DOMAIN index : t.file = id} = {FileTarget(id)} \cup {t \in anchored : t.file = id}
  <2>1. ASSUME NEW t \in DOMAIN index, t.file = id PROVE t = FileTarget(id) \/ t \in anchored
    BY <2>1, <1>5
  <2>2. \A t \in anchored : t \in DOMAIN index
    BY <1>5
  <2>3. FileTarget(id) \in DOMAIN index /\ FileTarget(id).file = id
    BY <1>5
  <2> QED BY <2>1, <2>2, <2>3
<1>8. DOMAIN l.nodes = DOMAIN d
  BY <1>3
<1>9. \A t \in DOMAIN index : l.dependents[t] = {id \in DOMAIN d : t \in DOMAIN l.nodes[id].edges}
  BY <1>3, <1>6
<1>10. \A t \in DOMAIN index : t.file \in DOMAIN d
  BY <1>5
<1>11. \A id \in DOMAIN d : FileTarget(id) \in DOMAIN index
  BY <1>5
<1>12. \A id \in DOMAIN d : {t \in DOMAIN index : t.file = id} = {FileTarget(id)} \cup l.anchors[id]
  BY <1>3, <1>7
<1>13. \A id \in DOMAIN d : \A t \in DOMAIN l.nodes[id].edges : l.nodes[id].edges[t].resolved <=> t \in DOMAIN index
  BY <1>4, <1>6
<1> QED BY <1>1, <1>3, <1>6, <1>8, <1>9, <1>10, <1>11, <1>12, <1>13 DEF Coherent

-----------------------------------------------------------------------------
\* The nodes with an edge into one of these.
Step(l, ids) == {id \in DOMAIN l.nodes : \E mid \in ids : Derives(l, id, mid)}

\* What a walk hands on is what has an edge into them.
LEMMA OneHop ==
  ASSUME NEW l, NEW d, Coherent(l, d), NEW ids \in SUBSET DOMAIN d
  PROVE  Dependents(l, Whole(l, ids)) = Step(l, ids)
<1>1. ASSUME NEW x \in Whole(l, ids), NEW id \in l.dependents[x] PROVE id \in Step(l, ids)
  <2>1. PICK mid \in ids : x \in {FileTarget(mid)} \cup l.anchors[mid]
    BY DEF Whole
  <2>2. x \in DOMAIN l.index /\ x.file = mid
    BY <2>1 DEF Coherent
  <2>3. id \in DOMAIN d /\ x \in DOMAIN l.nodes[id].edges
    BY <2>2, <1>1 DEF Coherent
  <2>4. l.nodes[id].edges[x].resolved
    BY <2>2, <2>3 DEF Coherent
  <2>5. Derives(l, id, mid)
    BY <2>2, <2>3, <2>4 DEF Derives
  <2> QED BY <2>3, <2>5 DEF Step, Coherent
<1>2. ASSUME NEW id \in Step(l, ids) PROVE \E x \in Whole(l, ids) : id \in l.dependents[x]
  <2>1. id \in DOMAIN d
    BY DEF Step, Coherent
  <2>2. PICK mid \in ids : Derives(l, id, mid)
    BY DEF Step
  <2>3. PICK t \in DOMAIN l.nodes[id].edges : t.file = mid /\ l.nodes[id].edges[t].resolved
    BY <2>2 DEF Derives
  <2>4. t \in DOMAIN l.index
    BY <2>1, <2>3 DEF Coherent
  <2>5. id \in l.dependents[t]
    BY <2>1, <2>3, <2>4 DEF Coherent
  <2>6. t \in {FileTarget(mid)} \cup l.anchors[mid]
    BY <2>3, <2>4 DEF Coherent
  <2> QED BY <2>5, <2>6 DEF Whole
<1> QED BY <1>1, <1>2 DEF Dependents

\* The levels of Below.
Grows(l, high, f) ==
  f = [k \in 0 .. Cardinality(DOMAIN l.nodes) |->
         IF k = 0 THEN Step(l, {high}) ELSE LET near == f[k - 1] IN near \cup Step(l, near)]

LEMMA GrowsExists ==
  ASSUME NEW l, NEW high, Cardinality(DOMAIN l.nodes) \in Nat
  PROVE  \E f : Grows(l, high, f)
<1> DEFINE N == Cardinality(DOMAIN l.nodes)
           T == SUBSET DOMAIN l.nodes
           step == [x \in (1 .. N) \X T |-> x[2] \cup Step(l, x[2])]
<1>1. \A ids : Step(l, ids) \in T
  BY DEF Step
<1>2. step \in [(1 .. N) \X T -> T]
  BY <1>1
<1>3. \A n \in 1 .. N, ids \in T : step[<<n, ids>>] = ids \cup Step(l, ids)
  OBVIOUS
<1> HIDE DEF step, T, N
<1>4. PICK f : Trace(T, Step(l, {high}), step, N, f)
  BY <1>1, <1>2, Iterated DEF N
<1>5. f \in [0 .. N -> T] /\ f[0] = Step(l, {high})
  BY <1>4 DEF Trace
<1>6. ASSUME NEW n \in 1 .. N PROVE f[n] = f[n - 1] \cup Step(l, f[n - 1])
  <2>1. f[n - 1] \in T
    <3>1. n - 1 \in 0 .. N
      BY DEF N
    <3> QED BY <3>1, <1>5
  <2>2. f[n] = step[<<n, f[n - 1]>>]
    BY <1>4 DEF Trace
  <2> QED BY <2>1, <2>2, <1>3, Zenon
<1>7. \A n \in 0 .. N : f[n] = IF n = 0 THEN Step(l, {high}) ELSE f[n - 1] \cup Step(l, f[n - 1])
  <2> TAKE n \in 0 .. N
  <2>1. n = 0 \/ n \in 1 .. N
    BY DEF N
  <2> QED BY <2>1, <1>5, <1>6
<1> QED BY <1>5, <1>7 DEF Grows, N

LEMMA BelowGrows ==
  ASSUME NEW l, NEW high, Cardinality(DOMAIN l.nodes) \in Nat
  PROVE  \E f : Grows(l, high, f) /\ Below(l, high) = f[Cardinality(DOMAIN l.nodes)]
<1> DEFINE f == CHOOSE g : Grows(l, high, g)
<1>1. Below(l, high) = f[Cardinality(DOMAIN l.nodes)]
  BY DEF Below, Grows, Step
<1> HIDE DEF f
<1>2. Grows(l, high, f)
  BY GrowsExists DEF f
<1> QED BY <1>1, <1>2

\* Each level adds what has an edge into the one before.
LEMMA GrowsSteps ==
  ASSUME NEW l, NEW high, Cardinality(DOMAIN l.nodes) \in Nat, NEW f, Grows(l, high, f)
  PROVE  /\ f[0] = Step(l, {high})
         /\ \A n \in 1 .. Cardinality(DOMAIN l.nodes) : f[n] = f[n - 1] \cup Step(l, f[n - 1])
         /\ \A n \in 0 .. Cardinality(DOMAIN l.nodes) : f[n] \subseteq DOMAIN l.nodes
<1> DEFINE N == Cardinality(DOMAIN l.nodes)
<1>1. \A n \in 0 .. N : f[n] = IF n = 0 THEN Step(l, {high}) ELSE f[n - 1] \cup Step(l, f[n - 1])
  BY DEF Grows
<1>2. \A ids : Step(l, ids) \subseteq DOMAIN l.nodes
  BY DEF Step
<1> HIDE DEF N
<1>3. f[0] = Step(l, {high})
  <2>1. 0 \in 0 .. N
    BY DEF N
  <2> QED BY <2>1, <1>1, Zenon
<1>4. ASSUME NEW n \in 1 .. N PROVE f[n] = f[n - 1] \cup Step(l, f[n - 1])
  <2>1. n \in 0 .. N /\ n # 0
    BY DEF N
  <2> QED BY <2>1, <1>1, Zenon
<1> DEFINE P == {n \in 0 .. N : f[n] \subseteq DOMAIN l.nodes}
<1>5. 0 \in P
  BY <1>2, <1>3 DEF N
<1>6. ASSUME NEW n \in 1 .. N, n - 1 \in P PROVE n \in P
  <2>1. n \in 0 .. N
    BY DEF N
  <2> QED BY <2>1, <1>2, <1>4, <1>6
<1>7. P = 0 .. N
  <2>1. P \in SUBSET (0 .. N) /\ N \in Nat
    BY DEF N
  <2> HIDE DEF P
  <2> QED BY <2>1, <1>5, <1>6, UpTo
<1>8. \A n \in 0 .. N : f[n] \subseteq DOMAIN l.nodes
  BY <1>7
<1> QED BY <1>3, <1>4, <1>8 DEF N

\* The last level but one is complete: each adds a node, or none is left to add.
LEMMA GrowsFull ==
  ASSUME NEW l, NEW high \in DOMAIN l.nodes, IsFiniteSet(DOMAIN l.nodes), NEW f, Grows(l, high, f)
  PROVE  /\ Cardinality(DOMAIN l.nodes) \in Nat \ {0}
         /\ Step(l, f[Cardinality(DOMAIN l.nodes) - 1]) \subseteq f[Cardinality(DOMAIN l.nodes) - 1]
<1> DEFINE N == Cardinality(DOMAIN l.nodes)
           Full(k) == Step(l, f[k]) \subseteq f[k]
           P == {k \in 0 .. N - 1 : Cardinality(f[k]) >= k + 1 \/ Full(k)}
<1>1. N \in Nat /\ N # 0
  BY FS_CardinalityType, FS_EmptySet
<1>2. /\ f[0] = Step(l, {high})
      /\ \A n \in 1 .. N : f[n] = f[n - 1] \cup Step(l, f[n - 1])
      /\ \A n \in 0 .. N : f[n] \subseteq DOMAIN l.nodes
  BY <1>1, GrowsSteps
<1>3. \A n \in 0 .. N : IsFiniteSet(f[n]) /\ Cardinality(f[n]) \in Nat
  <2> TAKE n \in 0 .. N
  <2>1. f[n] \in SUBSET DOMAIN l.nodes
    BY <1>2
  <2>2. IsFiniteSet(f[n])
    BY <2>1, FS_Subset
  <2> QED BY <2>2, FS_CardinalityType
<1> HIDE DEF N
<1>4. 0 \in P
  <2>1. CASE f[0] = {}
    <3>1. Full(0)
      BY <2>1 DEF Step
    <3> QED BY <3>1, <1>1
  <2>2. CASE f[0] # {}
    <3>1. IsFiniteSet(f[0]) /\ Cardinality(f[0]) \in Nat
      BY <1>1, <1>3
    <3>2. Cardinality(f[0]) # 0
      BY <2>2, <3>1, FS_EmptySet
    <3> QED BY <3>1, <3>2, <1>1
  <2> QED BY <2>1, <2>2
<1>5. ASSUME NEW k \in 1 .. N - 1, k - 1 \in P PROVE k \in P
  <2>1. k \in 0 .. N /\ k - 1 \in 0 .. N /\ k \in 0 .. N - 1 /\ k \in 1 .. N
    BY <1>1
  <2>2. f[k] = f[k - 1] \cup Step(l, f[k - 1])
    BY <2>1, <1>2
  <2>3. CASE Full(k - 1)
    <3>1. f[k] = f[k - 1]
      BY <2>2, <2>3
    <3>2. Full(k)
      BY <2>3, <3>1
    <3> QED BY <2>1, <3>2
  <2>4. CASE ~Full(k - 1)
    <3>1. IsFiniteSet(f[k]) /\ Cardinality(f[k]) \in Nat /\ Cardinality(f[k - 1]) \in Nat
      BY <2>1, <1>3
    <3>2. f[k - 1] \in SUBSET f[k] /\ f[k] # f[k - 1]
      BY <2>2, <2>4
    <3>3. Cardinality(f[k - 1]) <= Cardinality(f[k]) /\ Cardinality(f[k]) # Cardinality(f[k - 1])
      BY <3>1, <3>2, FS_Subset
    <3>4. Cardinality(f[k - 1]) >= k
      <4>1. Cardinality(f[k - 1]) >= (k - 1) + 1
        BY <1>5, <2>4
      <4> QED BY <4>1, <2>1, <1>1
    <3> QED BY <2>1, <3>1, <3>3, <3>4, <1>1
  <2> QED BY <2>3, <2>4
<1>6. P = 0 .. N - 1
  <2>1. P \in SUBSET (0 .. N - 1) /\ N - 1 \in Nat
    BY <1>1
  <2> HIDE DEF P
  <2> QED BY <2>1, <1>4, <1>5, UpTo
<1>7. N - 1 \in 0 .. N - 1 /\ N - 1 \in 0 .. N
  BY <1>1
<1>8. N - 1 \in P
  BY <1>6, <1>7
<1>9. CASE Cardinality(f[N - 1]) >= (N - 1) + 1
  <2>1. f[N - 1] \in SUBSET DOMAIN l.nodes /\ Cardinality(f[N - 1]) \in Nat
    BY <1>7, <1>2, <1>3
  <2>2. Cardinality(f[N - 1]) <= N /\ (N = Cardinality(f[N - 1]) => DOMAIN l.nodes = f[N - 1])
    BY <2>1, FS_Subset DEF N
  <2>3. DOMAIN l.nodes = f[N - 1]
    BY <2>1, <2>2, <1>1, <1>9
  <2> QED BY <2>3, <1>1 DEF Step, N
<1> QED BY <1>1, <1>8, <1>9 DEF N

-----------------------------------------------------------------------------
(* Impact.                                                                   *)

\* The stages of impact without a limit.
Hop(l, before, d) ==
  LET found == Dependents(l, before.targets) \ DOMAIN before.affected
  IN  [targets |-> Whole(l, found),
       affected |-> [id \in found \cup DOMAIN before.affected |-> IF id \in found THEN d ELSE before.affected[id]]]

Walks(l, t, w) ==
  w = [d \in 0 .. Cardinality(DOMAIN l.nodes) |->
         IF d = 0 THEN [targets |-> expand_targets(l, t), affected |-> <<>>]
         ELSE LET before == w[d - 1]
                  found == IF NoLimit # NoLimit /\ d > NoLimit THEN {}
                           ELSE Dependents(l, before.targets) \ DOMAIN before.affected
              IN  [targets |-> Whole(l, found),
                   affected |-> [id \in found \cup DOMAIN before.affected |->
                                   IF id \in found THEN d ELSE before.affected[id]]]]

WalkState(l) ==
  [targets : SUBSET DOMAIN l.index,
   affected : UNION {[S -> Nat] : S \in SUBSET DOMAIN l.nodes}]

LEMMA HopType ==
  ASSUME NEW l, NEW d, Coherent(l, d), NEW before \in WalkState(l), NEW n \in Nat
  PROVE  Hop(l, before, n) \in WalkState(l)
<1> DEFINE found == Dependents(l, before.targets) \ DOMAIN before.affected
           ids == found \cup DOMAIN before.affected
           affected == [id \in ids |-> IF id \in found THEN n ELSE before.affected[id]]
<1>1. PICK S \in SUBSET DOMAIN l.nodes : before.affected \in [S -> Nat]
  BY DEF WalkState
<1>2. found \subseteq DOMAIN d /\ DOMAIN l.nodes = DOMAIN d
  <2>1. \A x \in before.targets : x \in DOMAIN l.index
    BY DEF WalkState
  <2>2. \A x \in DOMAIN l.index : l.dependents[x] \subseteq DOMAIN d
    BY DEF Coherent
  <2> QED BY <2>1, <2>2 DEF Coherent, Dependents
<1>3. Whole(l, found) \subseteq DOMAIN l.index
  <2>1. \A id \in DOMAIN d : {FileTarget(id)} \cup l.anchors[id] \subseteq DOMAIN l.index
    BY DEF Coherent
  <2> HIDE DEF found
  <2> QED BY <2>1, <1>2 DEF Whole
<1>4. Hop(l, before, n) = [targets |-> Whole(l, found), affected |-> affected]
  BY DEF Hop
<1>5. affected \in UNION {[U -> Nat] : U \in SUBSET DOMAIN l.nodes}
  <2>1. ids \in SUBSET DOMAIN l.nodes
    BY <1>1, <1>2
  <2>2. affected \in [ids -> Nat]
    <3> HIDE DEF found
    <3> QED BY <1>1
  <2> HIDE DEF affected, ids
  <2> QED BY <2>1, <2>2
<1> HIDE DEF affected, found
<1> QED BY <1>3, <1>4, <1>5 DEF WalkState

LEMMA WalkStart ==
  ASSUME NEW l, NEW d, Coherent(l, d), NEW id \in DOMAIN d
  PROVE  /\ expand_targets(l, FileTarget(id)) = {FileTarget(id)} \cup l.anchors[id]
         /\ expand_targets(l, FileTarget(id)) \in SUBSET DOMAIN l.index
<1>1. FileTarget(id) \in DOMAIN l.index /\ FileTarget(id).anchor = NoAnchor /\ FileTarget(id).file = id
  BY TargetFacts DEF Coherent, FileTarget
<1>2. expand_targets(l, FileTarget(id)) = {FileTarget(id)} \cup l.anchors[id]
  BY <1>1 DEF expand_targets
<1>3. {FileTarget(id)} \cup l.anchors[id] \subseteq DOMAIN l.index
  BY DEF Coherent
<1> QED BY <1>2, <1>3

LEMMA WalksExists ==
  ASSUME NEW l, NEW d, Coherent(l, d), Cardinality(DOMAIN l.nodes) \in Nat,
         NEW t, expand_targets(l, t) \in SUBSET DOMAIN l.index
  PROVE  \E w : Walks(l, t, w)
<1> DEFINE N == Cardinality(DOMAIN l.nodes)
           T == WalkState(l)
           first == [targets |-> expand_targets(l, t), affected |-> <<>>]
           step == [x \in (1 .. N) \X T |-> Hop(l, x[2], x[1])]
<1>1. first \in T
  <2>1. <<>> \in [{} -> Nat] /\ {} \in SUBSET DOMAIN l.nodes
    OBVIOUS
  <2>2. <<>> \in UNION {[S -> Nat] : S \in SUBSET DOMAIN l.nodes}
    BY <2>1
  <2> QED BY <2>2 DEF WalkState
<1>2. step \in [(1 .. N) \X T -> T]
  <2>1. ASSUME NEW x \in (1 .. N) \X T PROVE Hop(l, x[2], x[1]) \in T
    <3>1. x[1] \in Nat /\ x[2] \in T
      OBVIOUS
    <3> QED BY <3>1, HopType
  <2> HIDE DEF T, N
  <2> QED BY <2>1
<1>3. \A n \in 1 .. N, s \in T : step[<<n, s>>] = Hop(l, s, n)
  <2> HIDE DEF T, N
  <2> QED OBVIOUS
<1> HIDE DEF step, T, N, first
<1>4. PICK w : Trace(T, first, step, N, w)
  BY <1>1, <1>2, Iterated DEF N
<1>5. w \in [0 .. N -> T] /\ w[0] = first
  BY <1>4 DEF Trace
<1>6. ASSUME NEW n \in 1 .. N PROVE w[n] = Hop(l, w[n - 1], n)
  <2>1. w[n - 1] \in T
    <3>1. n - 1 \in 0 .. N
      BY DEF N
    <3> QED BY <3>1, <1>5
  <2>2. w[n] = step[<<n, w[n - 1]>>]
    BY <1>4 DEF Trace
  <2> QED BY <2>1, <2>2, <1>3, Zenon
<1>7. \A n \in 0 .. N : w[n] = IF n = 0 THEN first ELSE Hop(l, w[n - 1], n)
  <2> TAKE n \in 0 .. N
  <2>1. n = 0 \/ n \in 1 .. N
    BY DEF N
  <2> QED BY <2>1, <1>5, <1>6
<1> DEFINE found(n) == IF NoLimit # NoLimit /\ n > NoLimit THEN {}
                       ELSE Dependents(l, w[n - 1].targets) \ DOMAIN w[n - 1].affected
           next(n) == [targets |-> Whole(l, found(n)),
                       affected |-> [i \in found(n) \cup DOMAIN w[n - 1].affected |->
                                       IF i \in found(n) THEN n ELSE w[n - 1].affected[i]]]
<1>8. ASSUME NEW n \in 0 .. N PROVE w[n] = IF n = 0 THEN first ELSE next(n)
  <2>1. found(n) = Dependents(l, w[n - 1].targets) \ DOMAIN w[n - 1].affected
    OBVIOUS
  <2>2. next(n) = Hop(l, w[n - 1], n)
    BY <2>1 DEF Hop
  <2> HIDE DEF next
  <2> QED BY <2>2, <1>7
<1> HIDE DEF next
<1>9. w = [n \in 0 .. N |-> IF n = 0 THEN first ELSE next(n)]
  BY <1>5, <1>8
<1> QED BY <1>9 DEF Walks, next, found, N, first

LEMMA ImpactWalks ==
  ASSUME NEW l, NEW d, Coherent(l, d), Cardinality(DOMAIN l.nodes) \in Nat,
         NEW t, expand_targets(l, t) \in SUBSET DOMAIN l.index
  PROVE  \E w : Walks(l, t, w) /\ impact(l, t, NoLimit) = w[Cardinality(DOMAIN l.nodes)].affected
<1> DEFINE w == CHOOSE g : Walks(l, t, g)
<1>1. impact(l, t, NoLimit) = w[Cardinality(DOMAIN l.nodes)].affected
  BY DEF impact, Walks
<1> HIDE DEF w
<1>2. Walks(l, t, w)
  BY WalksExists DEF w
<1> QED BY <1>1, <1>2

LEMMA WalksSteps ==
  ASSUME NEW l, NEW t, Cardinality(DOMAIN l.nodes) \in Nat, NEW w, Walks(l, t, w)
  PROVE  /\ w[0] = [targets |-> expand_targets(l, t), affected |-> <<>>]
         /\ \A n \in 1 .. Cardinality(DOMAIN l.nodes) : w[n] = Hop(l, w[n - 1], n)
<1> DEFINE N == Cardinality(DOMAIN l.nodes)
           first == [targets |-> expand_targets(l, t), affected |-> <<>>]
           found(n) == IF NoLimit # NoLimit /\ n > NoLimit THEN {}
                       ELSE Dependents(l, w[n - 1].targets) \ DOMAIN w[n - 1].affected
           next(n) == [targets |-> Whole(l, found(n)),
                       affected |-> [i \in found(n) \cup DOMAIN w[n - 1].affected |->
                                       IF i \in found(n) THEN n ELSE w[n - 1].affected[i]]]
<1>1. w = [n \in 0 .. N |-> IF n = 0 THEN first ELSE next(n)]
  BY DEF Walks
<1>2. ASSUME NEW n PROVE next(n) = Hop(l, w[n - 1], n)
  <2>1. found(n) = Dependents(l, w[n - 1].targets) \ DOMAIN w[n - 1].affected
    OBVIOUS
  <2> QED BY <2>1 DEF Hop
<1> HIDE DEF next, first
<1>3. \A n \in 0 .. N : w[n] = IF n = 0 THEN first ELSE next(n)
  <2> HIDE DEF N
  <2> QED BY <1>1
<1> HIDE DEF N
<1>4. w[0] = first
  <2>1. 0 \in 0 .. N
    BY DEF N
  <2> QED BY <2>1, <1>3, Zenon
<1>5. ASSUME NEW n \in 1 .. N PROVE w[n] = Hop(l, w[n - 1], n)
  <2>1. n \in 0 .. N /\ n # 0
    BY DEF N
  <2>2. w[n] = next(n)
    BY <2>1, <1>3, Zenon
  <2> QED BY <2>2, <1>2
<1> QED BY <1>4, <1>5 DEF first, N

\* What a hop hands on is whole nodes, and those with an edge into them come next.
LEMMA HopFacts ==
  ASSUME NEW l, NEW d, Coherent(l, d), NEW before, NEW n, NEW ids \in SUBSET DOMAIN d,
         before.targets = Whole(l, ids)
  PROVE  /\ DOMAIN Hop(l, before, n).affected = DOMAIN before.affected \cup Step(l, ids)
         /\ Hop(l, before, n).targets = Whole(l, Step(l, ids) \ DOMAIN before.affected)
<1> DEFINE found == Dependents(l, before.targets) \ DOMAIN before.affected
           affected == [id \in found \cup DOMAIN before.affected |-> IF id \in found THEN n ELSE before.affected[id]]
<1>1. found = Step(l, ids) \ DOMAIN before.affected
  <2>1. Dependents(l, Whole(l, ids)) = Step(l, ids)
    BY OneHop
  <2> QED BY <2>1
<1>2. Hop(l, before, n) = [targets |-> Whole(l, found), affected |-> affected]
  BY DEF Hop
<1>3. DOMAIN affected = found \cup DOMAIN before.affected
  OBVIOUS
<1> HIDE DEF affected, found
<1>4. Hop(l, before, n).affected = affected /\ Hop(l, before, n).targets = Whole(l, found)
  BY <1>2
<1> QED BY <1>1, <1>3, <1>4

\* Node by node, an edge leads from one set into the other.
LEMMA StepUnion ==
  ASSUME NEW l, NEW ids, NEW new
  PROVE  Step(l, ids) \subseteq Step(l, ids \ new) \cup Step(l, new)
BY DEF Step

\* Impact reaches what derives from the document at any distance.
LEMMA ImpactIsBelow ==
  ASSUME NEW l, NEW d, Coherent(l, d), IsFiniteSet(DOMAIN d), NEW id \in DOMAIN d
  PROVE  DOMAIN impact(l, FileTarget(id), NoLimit) = Below(l, id)
<1> DEFINE N == Cardinality(DOMAIN l.nodes)
<1>1. DOMAIN l.nodes = DOMAIN d
  BY DEF Coherent
<1>2. IsFiniteSet(DOMAIN l.nodes) /\ N \in Nat
  BY <1>1, FS_CardinalityType
<1>3. PICK f : Grows(l, id, f) /\ Below(l, id) = f[N]
  BY <1>2, BelowGrows
<1>4. PICK w : Walks(l, FileTarget(id), w) /\ impact(l, FileTarget(id), NoLimit) = w[N].affected
  <2>1. expand_targets(l, FileTarget(id)) \in SUBSET DOMAIN l.index
    BY WalkStart
  <2> QED BY <1>2, <2>1, ImpactWalks
<1>5. N \in Nat \ {0} /\ Step(l, f[N - 1]) \subseteq f[N - 1]
  BY <1>1, <1>2, <1>3, GrowsFull
<1>6. /\ f[0] = Step(l, {id})
      /\ \A n \in 1 .. N : f[n] = f[n - 1] \cup Step(l, f[n - 1])
      /\ \A n \in 0 .. N : f[n] \subseteq DOMAIN d
  <2>1. /\ f[0] = Step(l, {id})
        /\ \A n \in 1 .. N : f[n] = f[n - 1] \cup Step(l, f[n - 1])
        /\ \A n \in 0 .. N : f[n] \subseteq DOMAIN l.nodes
    BY <1>2, <1>3, GrowsSteps
  <2> HIDE DEF N
  <2> QED BY <2>1, <1>1
<1>a. /\ w[0] = [targets |-> expand_targets(l, FileTarget(id)), affected |-> <<>>]
      /\ \A n \in 1 .. N : w[n] = Hop(l, w[n - 1], n)
  <2>1. Walks(l, FileTarget(id), w)
    BY <1>4
  <2> QED BY <1>2, <2>1, WalksSteps
<1>7. w[0].targets = Whole(l, {id}) /\ DOMAIN w[0].affected = {}
  <2>1. w[0] = [targets |-> expand_targets(l, FileTarget(id)), affected |-> <<>>]
    BY <1>a
  <2>2. expand_targets(l, FileTarget(id)) = Whole(l, {id})
    BY WalkStart DEF Whole
  <2> QED BY <2>1, <2>2
<1>8. \A n \in 1 .. N : w[n] = Hop(l, w[n - 1], n)
  BY <1>a
<1> HIDE DEF N
<1> DEFINE Level(n, new) == /\ new \subseteq DOMAIN w[n].affected /\ DOMAIN w[n].affected = f[n - 1]
                            /\ w[n].targets = Whole(l, new)
                            /\ Step(l, f[n - 1] \ new) \subseteq f[n - 1]
           P == {n \in 0 .. N : n = 0 \/ \E new : Level(n, new)}
<1>9. ASSUME NEW n \in 1 .. N, n - 1 \in P PROVE n \in P
  <2>1. n \in 0 .. N /\ n - 1 \in 0 .. N /\ w[n] = Hop(l, w[n - 1], n)
    BY <1>5, <1>8
  <2>2. CASE n - 1 = 0
    <3>1. n = 1
      BY <2>2, <1>5
    <3>2. {id} \in SUBSET DOMAIN d
      OBVIOUS
    <3>3. DOMAIN w[n].affected = Step(l, {id}) /\ w[n].targets = Whole(l, Step(l, {id}) \ {})
      <4>1. w[n] = Hop(l, w[0], n)
        BY <2>1, <2>2
      <4>2. /\ DOMAIN Hop(l, w[0], n).affected = DOMAIN w[0].affected \cup Step(l, {id})
            /\ Hop(l, w[0], n).targets = Whole(l, Step(l, {id}) \ DOMAIN w[0].affected)
        <5>1. PICK before : before = w[0]
          OBVIOUS
        <5>2. before.targets = Whole(l, {id})
          BY <5>1, <1>7
        <5>3. /\ DOMAIN Hop(l, before, n).affected = DOMAIN before.affected \cup Step(l, {id})
              /\ Hop(l, before, n).targets = Whole(l, Step(l, {id}) \ DOMAIN before.affected)
          BY <3>2, <5>2, HopFacts
        <5> QED BY <5>1, <5>3
      <4> QED BY <4>1, <4>2, <1>7
    <3>4. Step(l, {id}) \ {} = Step(l, {id}) /\ f[n - 1] = Step(l, {id})
      BY <2>2, <1>6
    <3>5. Step(l, f[n - 1] \ Step(l, {id})) = {}
      BY <3>4 DEF Step
    <3>6. Level(n, Step(l, {id}))
      BY <3>3, <3>4, <3>5
    <3> QED BY <2>1, <3>6
  <2>3. CASE n - 1 # 0
    <3>1. PICK new : Level(n - 1, new)
      BY <1>9, <2>3
    <3>2. n - 1 \in 1 .. N /\ (n - 1) - 1 \in 0 .. N
      BY <2>1, <2>3, <1>5
    <3> DEFINE low == f[(n - 1) - 1]
               more == Step(l, new) \ low
    <3>3. f[n - 1] = low \cup Step(l, low)
      BY <3>2, <1>6
    <3>4. new \in SUBSET DOMAIN d /\ new \subseteq low /\ DOMAIN w[n - 1].affected = low
          /\ w[n - 1].targets = Whole(l, new) /\ Step(l, low \ new) \subseteq low
      BY <3>1, <3>2, <1>6
    <3>5. DOMAIN w[n].affected = low \cup Step(l, new) /\ w[n].targets = Whole(l, more)
      BY <2>1, <3>4, HopFacts
    <3>6. low \cup Step(l, new) = f[n - 1]
      <4>1. Step(l, low) \subseteq Step(l, low \ new) \cup Step(l, new)
        BY StepUnion
      <4>2. Step(l, new) \subseteq Step(l, low)
        BY <3>4 DEF Step
      <4> HIDE DEF low
      <4> QED BY <4>1, <4>2, <3>3, <3>4
    <3>7. f[n - 1] \ more \subseteq low
      BY <3>6
    <3>8. Step(l, f[n - 1] \ more) \subseteq f[n - 1]
      <4>1. Step(l, f[n - 1] \ more) \subseteq Step(l, low)
        BY <3>7 DEF Step
      <4> QED BY <4>1, <3>3
    <3>9. more \subseteq DOMAIN w[n].affected
      BY <3>5
    <3> HIDE DEF low, more
    <3>10. Level(n, more)
      BY <3>5, <3>6, <3>8, <3>9
    <3> QED BY <2>1, <3>10
  <2> QED BY <2>2, <2>3
<1>10. P = 0 .. N
  <2>1. P \in SUBSET (0 .. N) /\ N \in Nat /\ 0 \in P
    BY <1>5
  <2> HIDE DEF P
  <2> QED BY <2>1, <1>9, UpTo
<1>11. N \in P /\ N # 0
  <2>1. N \in 0 .. N /\ N # 0
    BY <1>5
  <2> HIDE DEF P
  <2> QED BY <2>1, <1>10
<1>12. DOMAIN w[N].affected = f[N - 1]
  BY <1>11
<1>13. f[N] = f[N - 1]
  <2>1. N \in 1 .. N
    BY <1>5
  <2> QED BY <2>1, <1>5, <1>6
<1> QED BY <1>3, <1>4, <1>12, <1>13

LEMMA ScopeFacts ==
  ASSUME NEW d, Coherent(lattice, d), IsFiniteSet(DOMAIN d), NEW id \in DOMAIN d
  PROVE  ScopeIsExact(id)
<1> DEFINE drifted == Refs({e \in EdgesOf(lattice) : check_lattice(lattice)[e] \in {"STALE", "AMBIGUOUS"}})
           expanded == expand_targets(lattice, FileTarget(id))
           own == {x.file : x \in {y \in expanded : y.anchor = NoAnchor}}
           reached == DOMAIN impact(lattice, FileTarget(id), NoLimit)
           below == Below(lattice, id)
<1>1. reached = below
  BY ImpactIsBelow
<1>2. own = {id}
  <2>1. expanded = {FileTarget(id)} \cup lattice.anchors[id]
    BY WalkStart
  <2>2. \A t \in expanded : t.file = id
    BY <2>1 DEF Coherent
  <2>3. FileTarget(id) \in expanded /\ FileTarget(id).anchor = NoAnchor
    BY <2>1, TargetFacts DEF FileTarget
  <2> HIDE DEF expanded
  <2> QED BY <2>2, <2>3
<1>3. FileTarget(id) # NoTarget
  <2>1. DOMAIN FileTarget(id) = {"file", "anchor"}
    BY DEF FileTarget, TargetId
  <2>2. DOMAIN NoTarget = {}
    BY DEF NoTarget
  <2> QED BY <2>1, <2>2
<1>4. build_audit_trigger(lattice, NoTarget) = drifted
  BY DEF build_audit_trigger
<1>5. build_audit_trigger(lattice, FileTarget(id)) = Only(drifted, reached \cup own)
  BY <1>3 DEF build_audit_trigger
<1> HIDE DEF drifted, reached, own, below
<1>6. Only(drifted, reached \cup own) = [n \in DOMAIN drifted \cap ({id} \cup below) |-> drifted[n]]
  <2>1. reached \cup own = {id} \cup below
    BY <1>1, <1>2
  <2> QED BY <2>1 DEF Only
<1> QED BY <1>4, <1>5, <1>6 DEF ScopeIsExact, below

-----------------------------------------------------------------------------
(* The ladder.                                                               *)

LEMMA RankFacts ==
  ASSUME NEW a, a \in Authorities, a # Unannotated
  PROVE  _rank(a) \in 1 .. 3
<1>1. DOMAIN AUTHORITY_LADDER = 1 .. 3
  BY DEF AUTHORITY_LADDER
<1>2. PICK k \in 1 .. 3 : AUTHORITY_LADDER[k] = a
  BY <1>1 DEF Authorities
<1> QED BY <1>1, <1>2 DEF _rank

\* An edge that lint lets pass goes up the ladder.
LEMMA EdgeLadder ==
  ASSUME NEW l, NEW d, Coherent(l, d), \A id \in DOMAIN d : d[id].authority \in Authorities,
         lint_lattice(l).violations = {}, lint_lattice(l).skipped = {},
         NEW low \in DOMAIN d, NEW high \in DOMAIN d, Derives(l, low, high)
  PROVE  /\ Unannotated \notin {d[low].authority, d[high].authority}
         /\ _rank(d[low].authority) <= _rank(d[high].authority)
<1> DEFINE resolved == {e \in EdgesOf(l) : l.nodes[e[1]].edges[e[2]].resolved}
           source(e) == l.nodes[e[1]].authority
           target(e) == _target_authority(l, e[2])
           skipped == {e \in resolved : Unannotated \in {source(e), target(e)}}
<1>1. PICK t \in DOMAIN l.nodes[low].edges : t.file = high /\ l.nodes[low].edges[t].resolved
  BY DEF Derives
<1> DEFINE e == <<low, t>>
<1>2. e \in resolved
  <2>1. low \in DOMAIN l.nodes
    BY DEF Coherent
  <2>2. e \in EdgesOf(l)
    BY <1>1, <2>1 DEF EdgesOf
  <2> QED BY <1>1, <2>2
<1>3. source(e) = d[low].authority /\ target(e) = d[high].authority
  BY <1>1 DEF Coherent, _target_authority
<1>4. skipped = {} /\ {x \in resolved \ skipped : _rank(target(x)) < _rank(source(x))} = {}
  BY DEF lint_lattice
<1> HIDE DEF resolved, source, target, e
<1>5. Unannotated \notin {d[low].authority, d[high].authority}
  BY <1>2, <1>3, <1>4
<1>6. ~(_rank(d[high].authority) < _rank(d[low].authority))
  BY <1>2, <1>3, <1>4
<1>7. _rank(d[high].authority) \in 1 .. 3 /\ _rank(d[low].authority) \in 1 .. 3
  BY <1>5, RankFacts
<1> QED BY <1>5, <1>6, <1>7

LEMMA LadderFacts ==
  ASSUME lattice # NotLoaded, Coherent(lattice, docs), IsFiniteSet(DOMAIN docs),
         \A id \in DOMAIN docs : docs[id].authority \in Authorities
  PROVE  CleanLadderHolds
<1> SUFFICES ASSUME lint_lattice(lattice).violations = {}, lint_lattice(lattice).skipped = {},
                    NEW high \in DOMAIN docs, NEW low \in Below(lattice, high),
                    Unannotated \notin {docs[low].authority, docs[high].authority}
             PROVE  _rank(docs[low].authority) <= _rank(docs[high].authority)
  BY DEF CleanLadderHolds
<1> DEFINE l == lattice
           N == Cardinality(DOMAIN l.nodes)
           Rung(id) == id \in DOMAIN docs /\ docs[id].authority # Unannotated
                       /\ _rank(docs[id].authority) <= _rank(docs[high].authority)
<1>1. DOMAIN l.nodes = DOMAIN docs
  BY DEF Coherent
<1>2. IsFiniteSet(DOMAIN l.nodes) /\ N \in Nat
  BY <1>1, FS_CardinalityType
<1>3. PICK f : Grows(l, high, f) /\ Below(l, high) = f[N]
  BY <1>2, BelowGrows
<1>4. /\ f[0] = Step(l, {high})
      /\ \A n \in 1 .. N : f[n] = f[n - 1] \cup Step(l, f[n - 1])
  BY <1>2, <1>3, GrowsSteps
<1>5. ASSUME NEW mid \in DOMAIN docs, NEW id \in DOMAIN docs, Derives(l, id, mid)
      PROVE  /\ Unannotated \notin {docs[id].authority, docs[mid].authority}
             /\ _rank(docs[id].authority) <= _rank(docs[mid].authority)
  BY <1>5, EdgeLadder
<1>6. \A id \in DOMAIN docs : docs[id].authority # Unannotated => _rank(docs[id].authority) \in 1 .. 3
  BY RankFacts
<1>7. docs[high].authority # Unannotated
  OBVIOUS
<1> HIDE DEF N, l
<1>8. \A id \in Step(l, {high}) : Rung(id)
  <2> TAKE id \in Step(l, {high})
  <2>1. id \in DOMAIN docs /\ Derives(l, id, high)
    BY <1>1 DEF Step
  <2> QED BY <2>1, <1>5
<1>9. ASSUME NEW ids, \A mid \in ids : Rung(mid) PROVE \A id \in Step(l, ids) : Rung(id)
  <2> TAKE id \in Step(l, ids)
  <2>1. id \in DOMAIN docs
    BY <1>1 DEF Step
  <2>2. PICK mid \in ids : Derives(l, id, mid)
    BY DEF Step
  <2>3. Rung(mid)
    BY <1>9, <2>2
  <2>4. docs[id].authority # Unannotated /\ _rank(docs[id].authority) <= _rank(docs[mid].authority)
    BY <2>1, <2>2, <2>3, <1>5
  <2>5. /\ _rank(docs[id].authority) \in 1 .. 3 /\ _rank(docs[mid].authority) \in 1 .. 3
        /\ _rank(docs[high].authority) \in 1 .. 3
    BY <2>1, <2>3, <2>4, <1>6, <1>7
  <2> QED BY <2>1, <2>3, <2>4, <2>5
<1> DEFINE P == {n \in 0 .. N : \A id \in f[n] : Rung(id)}
<1>10. 0 \in P
  <2> HIDE DEF Rung
  <2>1. 0 \in 0 .. N
    BY <1>2
  <2> QED BY <2>1, <1>4, <1>8
<1>11. ASSUME NEW n \in 1 .. N, n - 1 \in P PROVE n \in P
  <2> HIDE DEF Rung
  <2>1. n \in 0 .. N /\ f[n] = f[n - 1] \cup Step(l, f[n - 1])
    BY <1>2, <1>4
  <2>2. \A mid \in f[n - 1] : Rung(mid)
    BY <1>11
  <2>3. \A id \in Step(l, f[n - 1]) : Rung(id)
    BY <2>2, <1>9
  <2> QED BY <2>1, <2>2, <2>3
<1>12. P = 0 .. N
  <2>1. P \in SUBSET (0 .. N) /\ N \in Nat
    BY <1>2
  <2> HIDE DEF P
  <2> QED BY <2>1, <1>10, <1>11, UpTo
<1>13. N \in 0 .. N
  BY <1>2
<1>14. N \in P
  <2> HIDE DEF P
  <2> QED BY <1>12, <1>13
<1>15. low \in f[N]
  BY <1>3 DEF l
<1> QED BY <1>14, <1>15

-----------------------------------------------------------------------------
(* The session keeps what the queries rest on.                               *)

Annotated(d) ==
  IsFiniteSet(DOMAIN d) /\ \A id \in DOMAIN d : "authority" \in DOMAIN d[id] /\ d[id].authority \in Authorities

CurrentInv == lattice = build_lattice(docs) /\ Annotated(docs)

LEMMA CurrentInit ==
  ASSUME Init
  PROVE  CurrentInv
BY SessionAssumption DEF Init, CurrentInv, Annotated

LEMMA CurrentStep ==
  ASSUME CurrentInv, [Next]_vars
  PROVE  CurrentInv'
<1>1. CASE UNCHANGED session
  BY <1>1 DEF CurrentInv, session
<1>2. CASE Reconcile
  <2>1. docs' = [id \in DOMAIN docs |-> [docs[id] EXCEPT !.entries = Acknowledged(lattice, id, @)]]
    BY <1>2 DEF Reconcile
  <2>2. DOMAIN docs' = DOMAIN docs
    BY <2>1
  <2>3. ASSUME NEW id \in DOMAIN docs
        PROVE  "authority" \in DOMAIN docs'[id] /\ docs'[id].authority \in Authorities
    <3>1. docs'[id] = [docs[id] EXCEPT !.entries = Acknowledged(lattice, id, @)]
      BY <2>1
    <3>2. "authority" \in DOMAIN docs[id] /\ docs[id].authority \in Authorities
      BY DEF CurrentInv, Annotated
    <3> QED BY <3>1, <3>2
  <2>4. Annotated(docs')
    BY <2>2, <2>3 DEF CurrentInv, Annotated
  <2> QED BY <1>2, <2>4 DEF Reconcile, CurrentInv
<1>3. ASSUME NEW n \in 1 .. 2, Commit(n) PROVE CurrentInv'
  <2>1. PICK b \in Bodies(Body(docs), n) : docs' = [docs EXCEPT ![Edited].body = b]
    BY <1>3 DEF Commit
  <2>2. DOMAIN docs' = DOMAIN docs
    BY <2>1
  <2>3. ASSUME NEW id \in DOMAIN docs
        PROVE  "authority" \in DOMAIN docs'[id] /\ docs'[id].authority \in Authorities
    <3>1. docs'[id] = IF id = Edited THEN [docs[id] EXCEPT !.body = b] ELSE docs[id]
      BY <2>1
    <3>2. "authority" \in DOMAIN docs[id] /\ docs[id].authority \in Authorities
      BY DEF CurrentInv, Annotated
    <3> QED BY <3>1, <3>2
  <2>4. Annotated(docs')
    BY <2>2, <2>3 DEF CurrentInv, Annotated
  <2> QED BY <1>3, <2>4 DEF Commit, CurrentInv
<1>4. Start \/ AuditStep \/ UNCHANGED vars => UNCHANGED session
  <2>1. Start => UNCHANGED session
    BY DEF Start
  <2>2. Answered \/ Retry \/ GiveUp \/ Report => UNCHANGED session
    BY DEF Answered, Retry, GiveUp, Fetching, Report
  <2>3. UNCHANGED vars => UNCHANGED session
    BY DEF vars
  <2> QED BY <2>1, <2>2, <2>3 DEF AuditStep
<1>5. Edit => Reconcile \/ \E n \in 1 .. 2 : Commit(n)
  BY DEF Edit, SessionNext
<1> QED BY <1>1, <1>2, <1>3, <1>4, <1>5 DEF Next

\* What check, lint and impact say edge by edge is right of whole paths, for projects of
\* any size, whatever was edited and reconciled since.
THEOREM QueriesAreRight == Spec => []QueriesReachAlongPaths
<1>1. AuditInit => CurrentInv
  BY CurrentInit DEF AuditInit
<1>2. CurrentInv /\ [Next]_vars => CurrentInv'
  BY CurrentStep
<1>3. CurrentInv => QueriesReachAlongPaths
  <2>1. SUFFICES ASSUME CurrentInv, lattice # NotLoaded
                 PROVE  CleanLadderHolds /\ \A id \in DOMAIN docs : ScopeIsExact(id)
    BY DEF QueriesReachAlongPaths
  <2>2. Coherent(lattice, docs) /\ IsFiniteSet(DOMAIN docs) /\ \A id \in DOMAIN docs : docs[id].authority \in Authorities
    BY <2>1, BuiltIsCoherent DEF CurrentInv, Annotated
  <2> QED BY <2>1, <2>2, LadderFacts, ScopeFacts
<1> QED BY <1>1, <1>2, <1>3, PTL DEF Spec

-----------------------------------------------------------------------------
(* The stack of open headings.                                               *)

Stacked == [at : Nat, level : Nat]
InOrder(s) == \A i, j \in DOMAIN s : i < j => s[i].at < s[j].at

\* What is left of a stack when a heading closes those that are not above it.
LEMMA OpenFacts ==
  ASSUME NEW s \in Seq(Stacked), InOrder(s), NEW level \in Nat
  PROVE  /\ Open(s, level) \in Seq(Stacked) /\ InOrder(Open(s, level))
         /\ Members(Open(s, level)) = {x \in Members(s) : x.level < level}
<1> DEFINE S == {x \in {s[i] : i \in DOMAIN s} : x.level < level}
           t == Kept(s, S)
<1>1. t \in Seq(Stacked) /\ Members(t) = Members(s) \cap S
  BY KeptMembers
<1>2. PICK g : Within(t, s, g)
  BY KeptOrder
<1>3. S = {x \in Members(s) : x.level < level} /\ Open(s, level) = t
  BY DEF Members, Open
<1> HIDE DEF t, S
<1>4. ASSUME NEW i \in DOMAIN t, NEW j \in DOMAIN t, i < j PROVE t[i].at < t[j].at
  <2>1. i \in 1 .. Len(t) /\ j \in 1 .. Len(t)
    BY <1>1
  <2>2. g[i] < g[j] /\ g[i] \in DOMAIN s /\ g[j] \in DOMAIN s /\ t[i] = s[g[i]] /\ t[j] = s[g[j]]
    BY <1>2, <1>4, <2>1 DEF Within
  <2> QED BY <2>2 DEF InOrder
<1>5. InOrder(t)
  BY <1>4 DEF InOrder
<1> QED BY <1>1, <1>3, <1>5

Entry(lev, at, j) == [at |-> at[j], level |-> lev[j]]

\* All headings from j to k but j itself are deeper than j.
Survives(lev, j, k) == \A m \in j + 1 .. k : lev[j] < lev[m]

\* The stack after each of N headings.
Stacks(N, lev, at, f) ==
  /\ f \in [0 .. N -> Seq(Stacked)] /\ f[0] = <<>>
  /\ \A k \in 1 .. N : f[k] = Append(Open(f[k - 1], lev[k]), Entry(lev, at, k))

Standing(lev, at, k) == {Entry(lev, at, j) : j \in {i \in 1 .. k : Survives(lev, i, k)}}

\* The stack holds the headings that all later ones are deeper than, in their order.
LEMMA StackHolds ==
  ASSUME NEW N \in Nat, NEW lev \in [1 .. N -> Nat], NEW at \in [1 .. N -> Nat],
         \A i, j \in 1 .. N : i < j => at[i] < at[j],
         NEW f, Stacks(N, lev, at, f)
  PROVE  \A k \in 0 .. N : InOrder(f[k]) /\ Members(f[k]) = Standing(lev, at, k)
<1> DEFINE P == {k \in 0 .. N : InOrder(f[k]) /\ Members(f[k]) = Standing(lev, at, k)}
<1>1. 0 \in P
  <2>1. f[0] = <<>>
    BY DEF Stacks
  <2>2. InOrder(f[0]) /\ Members(f[0]) = {}
    BY <2>1 DEF InOrder, Members
  <2>3. Standing(lev, at, 0) = {}
    BY DEF Standing
  <2>4. 0 \in 0 .. N
    OBVIOUS
  <2> QED BY <2>2, <2>3, <2>4
<1>2. ASSUME NEW k \in 1 .. N, k - 1 \in P PROVE k \in P
  <2> DEFINE s == f[k - 1]
             o == Open(s, lev[k])
             e == Entry(lev, at, k)
  <2>1. k - 1 \in 0 .. N /\ k \in 0 .. N /\ lev[k] \in Nat /\ at[k] \in Nat
    OBVIOUS
  <2>2. s \in Seq(Stacked) /\ InOrder(s) /\ Members(s) = Standing(lev, at, k - 1)
    BY <1>2, <2>1 DEF Stacks
  <2>3. f[k] = Append(o, e) /\ e \in Stacked
    BY <2>1 DEF Stacks, Entry, Stacked
  <2>e. e.at = at[k] /\ e.level = lev[k]
    BY DEF Entry
  <2> HIDE DEF s, P, e
  <2>4. o \in Seq(Stacked) /\ InOrder(o) /\ Members(o) = {x \in Standing(lev, at, k - 1) : x.level < lev[k]}
    BY <2>1, <2>2, OpenFacts
  <2> HIDE DEF o
  <2>5. Members(f[k]) = {x \in Standing(lev, at, k - 1) : x.level < lev[k]} \cup {e}
    BY <2>3, <2>4, AppendMembers
  <2>6. \A j \in 1 .. k - 1 : Survives(lev, j, k) <=> (Survives(lev, j, k - 1) /\ lev[j] < lev[k])
    <3> TAKE j \in 1 .. k - 1
    <3>1. j + 1 .. k = (j + 1 .. k - 1) \cup {k}
      BY <2>1
    <3> QED BY <3>1 DEF Survives
  <2>7. Survives(lev, k, k)
    BY <2>1 DEF Survives
  <2>8. ASSUME NEW x \in Standing(lev, at, k), x # e
        PROVE  x \in Standing(lev, at, k - 1) /\ x.level < lev[k]
    <3>1. PICK j \in 1 .. k : Survives(lev, j, k) /\ x = Entry(lev, at, j)
      BY DEF Standing
    <3>2. j # k
      BY <2>8, <3>1 DEF e
    <3>3. j \in 1 .. k - 1
      BY <3>1, <3>2, <2>1
    <3> QED BY <3>1, <3>3, <2>6 DEF Standing, Entry
  <2>9. ASSUME NEW x \in Standing(lev, at, k - 1), x.level < lev[k]
        PROVE  x \in Standing(lev, at, k)
    <3>1. PICK j \in 1 .. k - 1 : Survives(lev, j, k - 1) /\ x = Entry(lev, at, j)
      BY DEF Standing
    <3>2. lev[j] < lev[k]
      BY <3>1, <2>9 DEF Entry
    <3>3. j \in 1 .. k /\ Survives(lev, j, k)
      BY <3>1, <3>2, <2>6
    <3> QED BY <3>1, <3>3 DEF Standing
  <2>10. e \in Standing(lev, at, k)
    <3>1. k \in 1 .. k
      OBVIOUS
    <3> QED BY <3>1, <2>7 DEF Standing, e
  <2>11. Members(f[k]) = Standing(lev, at, k)
    BY <2>5, <2>8, <2>9, <2>10
  <2>12. ASSUME NEW i \in DOMAIN o PROVE o[i].at < at[k]
    <3>1. o[i] \in Standing(lev, at, k - 1)
      BY <2>4 DEF Members
    <3>2. PICK j \in 1 .. k - 1 : o[i] = Entry(lev, at, j)
      BY <3>1 DEF Standing
    <3>3. j \in 1 .. N /\ j < k
      BY <3>2
    <3>4. at[j] < at[k]
      BY <3>3
    <3> QED BY <3>2, <3>4 DEF Entry
  <2>13. InOrder(f[k])
    <3> DEFINE t == Append(o, e)
    <3>1. /\ DOMAIN t = DOMAIN o \cup {Len(o) + 1} /\ t[Len(o) + 1] = e
          /\ \A i \in DOMAIN o : t[i] = o[i]
          /\ DOMAIN o = 1 .. Len(o) /\ Len(o) \in Nat
      BY <2>3, <2>4
    <3> HIDE DEF t
    <3>2. ASSUME NEW i \in DOMAIN t, NEW j \in DOMAIN t, i < j PROVE t[i].at < t[j].at
      <4>1. i \in DOMAIN o
        BY <3>1, <3>2
      <4>2. CASE j \in DOMAIN o
        BY <4>1, <4>2, <3>1, <3>2, <2>4 DEF InOrder
      <4>3. CASE j = Len(o) + 1
        BY <4>1, <4>3, <3>1, <2>12, <2>e
      <4> QED BY <4>2, <4>3, <3>1
    <3> QED BY <3>2, <2>3 DEF InOrder, t
  <2> QED BY <2>1, <2>11, <2>13 DEF P
<1>3. P = 0 .. N
  <2> HIDE DEF P
  <2>1. P \in SUBSET (0 .. N)
    BY DEF P
  <2> QED BY <2>1, <1>1, <1>2, UpTo
<1> QED BY <1>3

\* A line of a body has a level.
LEMMA LineTyped ==
  ASSUME NEW body \in Seq(Lines), NEW i \in DOMAIN body
  PROVE  body[i] \in Lines /\ body[i].level \in Nat
<1>1. body[i] \in Lines
  OBVIOUS
<1> QED BY <1>1 DEF Lines

AllLines(body) == [i \in DOMAIN body |-> i]

\* The numbers of some lines of a body, in their order.
LEMMA LineNumbers ==
  ASSUME NEW body \in Seq(Lines), NEW S
  PROVE  LET s == Kept(AllLines(body), S)
         IN  s \in Seq(Nat) /\ Increasing(s) /\ Members(s) = DOMAIN body \cap S
<1> DEFINE seq == AllLines(body)
<1>1. seq \in Seq(Nat) /\ DOMAIN seq = DOMAIN body /\ \A i \in DOMAIN body : seq[i] = i
  BY DEF AllLines
<1>2. \A i \in DOMAIN body : i \in Nat
  OBVIOUS
<1> HIDE DEF seq
<1>3. Increasing(seq)
  BY <1>1 DEF Increasing
<1>4. Members(seq) = DOMAIN body
  BY <1>1 DEF Members
<1> QED BY <1>1, <1>3, <1>4, KeptNumbers DEF seq

\* The numbers of the lines of some kinds.
LEMMA NumbersFacts ==
  ASSUME NEW body \in Seq(Lines), NEW kinds
  PROVE  /\ Numbers(body, kinds) \in Seq(Nat) /\ Increasing(Numbers(body, kinds))
         /\ Members(Numbers(body, kinds)) = {i \in DOMAIN body : body[i].kind \in kinds}
<1> DEFINE S == {i \in DOMAIN body : body[i].kind \in kinds}
<1>1. Numbers(body, kinds) = Kept(AllLines(body), S) /\ DOMAIN body \cap S = S
  BY DEF Numbers, AllLines
<1> HIDE DEF S
<1>2. Numbers(body, kinds) \in Seq(Nat) /\ Increasing(Numbers(body, kinds)) /\ Members(Numbers(body, kinds)) = S
  BY <1>1, LineNumbers
<1> QED BY <1>2 DEF S

\* The levels of the headings with these numbers.
LevelsAt(body, numbers) == [k \in 1 .. Len(numbers) |-> body[numbers[k]].level]

-----------------------------------------------------------------------------
(* What stands above a heading.                                              *)

StackOf(body, headings, f) ==
  f = [k \in 0 .. Len(headings) |->
         IF k = 0 THEN <<>>
         ELSE LET level == body[headings[k]].level
              IN  Append(Open(f[k - 1], level), [at |-> headings[k], level |-> level])]

StackOver(body, headings) == CHOOSE f : StackOf(body, headings, f)
Higher(body, headings, n) ==
  LET k == CHOOSE j \in DOMAIN headings : headings[j] = n
  IN  Open(StackOver(body, headings)[k - 1], body[n].level)

\* The chains are made of what the stack has above each heading.
LEMMA ChainsUnfolded ==
  ASSUME NEW body, NEW toc, NEW headings
  PROVE  chains_over(body, toc, headings) =
           [k \in DOMAIN toc |->
              [i \in DOMAIN Higher(body, headings, toc[k]) |->
                 _render_ancestor(body[Higher(body, headings, toc[k])[i].at])]]
  BY DEF chains_over, Higher, StackOver, StackOf

\* The stacks over the headings of a body, and
LEMMA StackExists ==
  ASSUME NEW body \in Seq(Lines), NEW headings \in Seq(Nat), Members(headings) \subseteq DOMAIN body
  PROVE  \E f : StackOf(body, headings, f)
<1> DEFINE N == Len(headings)
           T == Seq(Stacked)
           lev == LevelsAt(body, headings)
           step == [x \in (1 .. N) \X T |-> Append(Open(x[2], lev[x[1]]), Entry(lev, headings, x[1]))]
<1>1. \A n \in 1 .. N : lev[n] \in Nat /\ Entry(lev, headings, n) \in Stacked
  <2> TAKE n \in 1 .. N
  <2>1. headings[n] \in DOMAIN body /\ headings[n] \in Nat
    BY DEF Members
  <2>2. body[headings[n]].level \in Nat
    BY <2>1, LineTyped
  <2> QED BY <2>1, <2>2 DEF LevelsAt, Entry, Stacked
<1>2. \A s \in T : \A level : Open(s, level) \in T
  BY KeptMembers DEF Open
<1>3. step \in [(1 .. N) \X T -> T]
  BY <1>1, <1>2
<1>4. \A n \in 1 .. N, s \in T : step[<<n, s>>] = Append(Open(s, lev[n]), Entry(lev, headings, n))
  OBVIOUS
<1>5. <<>> \in T /\ N \in Nat
  OBVIOUS
<1> HIDE DEF step, T, N, lev
<1>6. PICK f : Trace(T, <<>>, step, N, f)
  BY <1>3, <1>5, Iterated
<1>7. f \in [0 .. N -> T] /\ f[0] = <<>>
  BY <1>6 DEF Trace
<1>8. ASSUME NEW n \in 1 .. N PROVE f[n] = Append(Open(f[n - 1], lev[n]), Entry(lev, headings, n))
  <2>1. f[n - 1] \in T
    <3>1. n - 1 \in 0 .. N
      BY <1>5
    <3> QED BY <3>1, <1>7
  <2>2. f[n] = step[<<n, f[n - 1]>>]
    BY <1>6 DEF Trace
  <2> QED BY <2>1, <2>2, <1>4, Zenon
<1>9. \A n \in 1 .. N : lev[n] = body[headings[n]].level
  BY DEF lev, LevelsAt, N
<1>10. \A n \in 0 .. N :
         f[n] = IF n = 0 THEN <<>>
                ELSE LET level == body[headings[n]].level
                     IN  Append(Open(f[n - 1], level), [at |-> headings[n], level |-> level])
  <2> TAKE n \in 0 .. N
  <2>1. n = 0 \/ n \in 1 .. N
    BY <1>5
  <2> QED BY <2>1, <1>7, <1>8, <1>9 DEF Entry
<1> QED BY <1>7, <1>10 DEF StackOf, N

\* what ancestor_chains iterates is one.
LEMMA StackIs ==
  ASSUME NEW body \in Seq(Lines), NEW headings \in Seq(Nat), Members(headings) \subseteq DOMAIN body,
         Increasing(headings)
  PROVE  /\ LevelsAt(body, headings) \in [1 .. Len(headings) -> Nat]
         /\ Stacks(Len(headings), LevelsAt(body, headings), headings, StackOver(body, headings))
         /\ headings \in [1 .. Len(headings) -> Nat]
         /\ \A i, j \in 1 .. Len(headings) : i < j => headings[i] < headings[j]
<1> DEFINE N == Len(headings)
           lev == LevelsAt(body, headings)
           f == StackOver(body, headings)
<1>1. StackOf(body, headings, f)
  BY StackExists DEF StackOver
<1>2. \A n \in 1 .. N : lev[n] \in Nat /\ lev[n] = body[headings[n]].level /\ Entry(lev, headings, n) \in Stacked
  <2> TAKE n \in 1 .. N
  <2>1. headings[n] \in DOMAIN body /\ headings[n] \in Nat
    BY DEF Members
  <2>2. body[headings[n]].level \in Nat
    BY <2>1, LineTyped
  <2> QED BY <2>1, <2>2 DEF LevelsAt, Entry, Stacked
<1>3. lev \in [1 .. N -> Nat]
  BY <1>2 DEF LevelsAt
<1>4. \A i, j \in 1 .. N : i < j => headings[i] < headings[j]
  BY DEF Increasing
<1>5. N \in Nat /\ headings \in [1 .. N -> Nat]
  OBVIOUS
<1> HIDE DEF f, lev
<1>6. \A n \in 0 .. N :
         f[n] = IF n = 0 THEN <<>>
                ELSE LET level == body[headings[n]].level
                     IN  Append(Open(f[n - 1], level), [at |-> headings[n], level |-> level])
  BY <1>1 DEF StackOf
<1>a. 0 \in 0 .. N
  OBVIOUS
<1>7. f[0] = <<>>
  BY <1>a, <1>6, Zenon
<1> HIDE DEF N
<1>8. ASSUME NEW n \in 1 .. N PROVE f[n] = Append(Open(f[n - 1], lev[n]), Entry(lev, headings, n))
  <2>1. n \in 0 .. N /\ n # 0
    BY <1>5
  <2> QED BY <2>1, <1>2, <1>6 DEF Entry
<1> DEFINE P == {n \in 0 .. N : f[n] \in Seq(Stacked)}
<1>9. 0 \in P
  <2>1. <<>> \in Seq(Stacked)
    OBVIOUS
  <2> QED BY <2>1, <1>a, <1>7
<1>10. ASSUME NEW n \in 1 .. N, n - 1 \in P PROVE n \in P
  <2>1. Open(f[n - 1], lev[n]) \in Seq(Stacked)
    BY <1>10, KeptMembers DEF Open
  <2>2. f[n] = Append(Open(f[n - 1], lev[n]), Entry(lev, headings, n)) /\ Entry(lev, headings, n) \in Stacked
    BY <1>8, <1>2
  <2>3. f[n] \in Seq(Stacked)
    BY <2>1, <2>2
  <2>4. n \in 0 .. N
    BY <1>5
  <2> QED BY <2>3, <2>4
<1>11. P = 0 .. N
  <2> HIDE DEF P
  <2>1. P \in SUBSET (0 .. N)
    BY DEF P
  <2> QED BY <2>1, <1>5, <1>9, <1>10, UpTo
<1>12. f = [n \in 0 .. N |-> f[n]]
  BY <1>1 DEF StackOf, N
<1>13. f \in [0 .. N -> Seq(Stacked)]
  BY <1>11, <1>12
<1> QED BY <1>3, <1>4, <1>5, <1>7, <1>8, <1>13 DEF Stacks, N, lev, f

\* The lines of the headings above line n.
Upper(body, n) == {i \in DOMAIN body : Above(body, i, n)}

\* What the stack has above a heading is what a reader sees above it.
LEMMA HigherIsAbove ==
  ASSUME NEW body \in Seq(Lines), NEW n \in DOMAIN body, Heading(body[n])
  PROVE  LET hs == Numbers(body, HeadingKinds)
             o == Higher(body, hs, n)
             chain == Kept(AllLines(body), Upper(body, n))
         IN  o \in Seq(Stacked) /\ chain = [i \in DOMAIN o |-> o[i].at]
<1> DEFINE hs == Numbers(body, HeadingKinds)
           N == Len(hs)
           lev == LevelsAt(body, hs)
           f == StackOver(body, hs)
           k == CHOOSE j \in DOMAIN hs : hs[j] = n
           o == Open(f[k - 1], body[n].level)
           chain == Kept(AllLines(body), Upper(body, n))
<1>1. hs \in Seq(Nat) /\ Increasing(hs) /\ Members(hs) = {i \in DOMAIN body : Heading(body[i])}
  BY NumbersFacts DEF Heading
<1>2. Higher(body, hs, n) = o
  BY DEF Higher
<1> HIDE DEF hs
<1>3. /\ lev \in [1 .. N -> Nat] /\ Stacks(N, lev, hs, f) /\ hs \in [1 .. N -> Nat]
      /\ \A i, j \in 1 .. N : i < j => hs[i] < hs[j]
  BY <1>1, StackIs
<1>4. \A j \in DOMAIN hs : hs[j] \in DOMAIN body /\ Heading(body[hs[j]]) /\ lev[j] = body[hs[j]].level
  <2> TAKE j \in DOMAIN hs
  <2>1. hs[j] \in Members(hs)
    BY DEF Members
  <2>2. j \in 1 .. Len(hs)
    BY <1>1
  <2> QED BY <1>1, <2>1, <2>2 DEF LevelsAt
<1>5. k \in DOMAIN hs /\ hs[k] = n
  <2>1. n \in Members(hs)
    BY <1>1
  <2>2. \E j \in DOMAIN hs : hs[j] = n
    BY <2>1 DEF Members
  <2> QED BY <2>2
<1>6. N \in Nat /\ DOMAIN hs = 1 .. N /\ body[n].level \in Nat
  BY <1>1, LineTyped
<1> HIDE DEF f, lev, k, N
<1>7. k - 1 \in 0 .. N /\ k \in 1 .. N
  BY <1>5, <1>6
<1>8. f[k - 1] \in Seq(Stacked) /\ InOrder(f[k - 1]) /\ Members(f[k - 1]) = Standing(lev, hs, k - 1)
  BY <1>3, <1>6, <1>7, StackHolds DEF Stacks
<1>9. o \in Seq(Stacked) /\ InOrder(o) /\ Members(o) = {x \in Standing(lev, hs, k - 1) : x.level < body[n].level}
  BY <1>6, <1>8, OpenFacts
<1> HIDE DEF o
<1> DEFINE s == [i \in DOMAIN o |-> o[i].at]
<1>10. \A i \in DOMAIN o : o[i] \in Stacked /\ o[i].at \in Nat
  <2> TAKE i \in DOMAIN o
  <2>1. o[i] \in Stacked
    BY <1>9
  <2> QED BY <2>1 DEF Stacked
<1>11. s \in Seq(Nat)
  <2>1. DOMAIN o = 1 .. Len(o) /\ Len(o) \in Nat
    BY <1>9
  <2> QED BY <2>1, <1>10
<1>12. Increasing(s)
  BY <1>9 DEF Increasing, InOrder
<1>13. Members(s) = {x.at : x \in Members(o)}
  BY DEF Members
<1> HIDE DEF s
<1>14. ASSUME NEW x \in Members(o) PROVE x.at \in Upper(body, n)
  <2>1. x \in Standing(lev, hs, k - 1) /\ x.level < body[n].level
    BY <1>9
  <2>2. PICK j \in 1 .. k - 1 : Survives(lev, j, k - 1) /\ x = Entry(lev, hs, j)
    BY <2>1 DEF Standing
  <2>3. j \in DOMAIN hs /\ j < k /\ j \in Nat /\ k \in Nat
    BY <1>6, <1>7, <2>2
  <2> DEFINE i == hs[j]
  <2>4. x.at = i /\ x.level = lev[j]
    BY <2>2 DEF Entry
  <2>5. i \in DOMAIN body /\ Heading(body[i]) /\ body[i].level < body[n].level /\ lev[j] = body[i].level
    BY <1>4, <2>1, <2>3, <2>4
  <2>6. i < n
    BY <1>1, <1>5, <2>3, IncreasingOrder
  <2> HIDE DEF i
  <2>7. ASSUME NEW m \in i + 1 .. n - 1, Heading(body[m]) PROVE body[m].level > body[i].level
    <3>1. i \in Nat /\ n \in Nat /\ m \in DOMAIN body /\ i < m /\ m < n
      BY <2>5
    <3>2. m \in Members(hs)
      BY <1>1, <2>7, <3>1
    <3>3. PICK q \in DOMAIN hs : hs[q] = m
      BY <3>2 DEF Members
    <3>4. j < q /\ q < k
      BY <1>1, <1>5, <2>3, <3>1, <3>3, IncreasingOrder DEF i
    <3>5. q \in j + 1 .. k - 1
      BY <3>3, <3>4, <1>6, <2>3
    <3>6. lev[j] < lev[q]
      BY <2>2, <3>5 DEF Survives
    <3>7. lev[q] = body[m].level /\ lev[q] \in Nat /\ lev[j] \in Nat
      BY <1>3, <1>4, <1>6, <2>3, <3>3
    <3> QED BY <3>6, <3>7, <2>5
  <2>8. Above(body, i, n)
    BY <2>5, <2>6, <2>7 DEF Above
  <2> QED BY <2>4, <2>5, <2>8 DEF Upper
<1>15. ASSUME NEW i \in Upper(body, n) PROVE \E x \in Members(o) : x.at = i
  <2>1. i \in DOMAIN body /\ Above(body, i, n)
    BY DEF Upper
  <2>2. i < n /\ Heading(body[i]) /\ body[i].level < body[n].level
    BY <2>1 DEF Above
  <2>3. i \in Members(hs)
    BY <1>1, <2>1, <2>2
  <2>4. PICK j \in DOMAIN hs : hs[j] = i
    BY <2>3 DEF Members
  <2>5. j < k
    BY <1>1, <1>5, <2>2, <2>4, IncreasingOrder
  <2>6. ASSUME NEW q \in j + 1 .. k - 1 PROVE lev[j] < lev[q]
    <3>1. q \in DOMAIN hs /\ j < q /\ q < k
      BY <1>6, <1>7, <2>4
    <3>2. i < hs[q] /\ hs[q] < n
      BY <1>1, <1>5, <2>4, <3>1, IncreasingOrder
    <3>3. hs[q] \in DOMAIN body /\ Heading(body[hs[q]])
      BY <1>4, <3>1
    <3>4. hs[q] \in i + 1 .. n - 1
      BY <2>1, <3>2, <3>3
    <3>5. body[hs[q]].level > body[i].level
      BY <2>1, <3>3, <3>4 DEF Above
    <3>6. lev[q] = body[hs[q]].level /\ lev[j] = body[i].level /\ lev[q] \in Nat /\ lev[j] \in Nat
      BY <1>3, <1>4, <1>6, <2>4, <3>1
    <3> QED BY <3>5, <3>6
  <2>7. j \in 1 .. k - 1 /\ Survives(lev, j, k - 1)
    BY <2>4, <2>5, <2>6, <1>6, <1>7 DEF Survives
  <2>8. Entry(lev, hs, j) \in Standing(lev, hs, k - 1)
    BY <2>7 DEF Standing
  <2>9. Entry(lev, hs, j).at = i /\ Entry(lev, hs, j).level = body[i].level
    BY <1>4, <2>4 DEF Entry
  <2> QED BY <1>9, <2>2, <2>8, <2>9
<1>16. Members(s) = Upper(body, n)
  BY <1>13, <1>14, <1>15
<1>17. chain \in Seq(Nat) /\ Increasing(chain) /\ Members(chain) = Upper(body, n)
  BY LineNumbers DEF Upper
<1>18. chain = s
  <2> HIDE DEF chain
  <2> QED BY <1>11, <1>12, <1>16, <1>17, SameNumbers
<1> QED BY <1>2, <1>9, <1>18 DEF s, hs

-----------------------------------------------------------------------------
(* What a section spans.                                                     *)

\* A sequence that is listed stays the same.
LEMMA ListedSame ==
  ASSUME NEW V, NEW s \in Seq(V)
  PROVE  Listed(s) = s
BY DEF Listed

\* The stack and the ends after one more heading.
Passed(body, toc, k, before) ==
  LET level == body[toc[k]].level
      closed == {before.stack[i].at : i \in {j \in DOMAIN before.stack : before.stack[j].level >= level}}
  IN  [stack |-> Append(Open(before.stack, level), [at |-> k, level |-> level]),
       end |-> Listed([j \in DOMAIN toc |-> IF j \in closed THEN toc[k] - 1 ELSE before.end[j]])]

Unpassed(body, toc) == [stack |-> <<>>, end |-> [j \in DOMAIN toc |-> Len(body)]]

PassOf(body, toc, f) ==
  f = [k \in 0 .. Len(toc) |-> IF k = 0 THEN Unpassed(body, toc) ELSE Passed(body, toc, k, f[k - 1])]

Pass(body, toc) == CHOOSE f : PassOf(body, toc, f)

\* The spans are where the pass ends.
LEMMA SpansUnfolded ==
  ASSUME NEW body, NEW toc
  PROVE  section_spans(body, toc) =
           Listed([k \in DOMAIN toc |-> [start |-> toc[k], end |-> Pass(body, toc)[Len(toc)].end[k]]])
  BY DEF section_spans, Pass, PassOf, Passed, Unpassed

Ended(N) == [stack : Seq(Stacked), end : [1 .. N -> Int]]

LEMMA FunctionSeq ==
  ASSUME NEW V, NEW n \in Nat, NEW f \in [1 .. n -> V]
  PROVE  f \in Seq(V)
  OBVIOUS

\* What one more heading changes of the stack and the ends.
LEMMA PassedType ==
  ASSUME NEW body \in Seq(Lines), NEW toc \in Seq(Nat), Members(toc) \subseteq DOMAIN body,
         NEW k \in 1 .. Len(toc), NEW before \in Ended(Len(toc))
  PROVE  /\ Passed(body, toc, k, before) \in Ended(Len(toc))
         /\ Passed(body, toc, k, before).stack =
              Append(Open(before.stack, body[toc[k]].level), [at |-> k, level |-> body[toc[k]].level])
         /\ \A j \in 1 .. Len(toc) :
              Passed(body, toc, k, before).end[j] =
                IF \E x \in Members(before.stack) : x.level >= body[toc[k]].level /\ x.at = j
                  THEN toc[k] - 1 ELSE before.end[j]
<1> DEFINE N == Len(toc)
           level == body[toc[k]].level
           closed == {before.stack[i].at : i \in {j \in DOMAIN before.stack : before.stack[j].level >= level}}
           end == [j \in DOMAIN toc |-> IF j \in closed THEN toc[k] - 1 ELSE before.end[j]]
           stack == Append(Open(before.stack, level), [at |-> k, level |-> level])
<1>1. toc[k] \in DOMAIN body /\ toc[k] \in Nat /\ level \in Nat /\ k \in Nat
  <2>1. toc[k] \in DOMAIN body /\ toc[k] \in Nat
    BY DEF Members
  <2> QED BY <2>1, LineTyped
<1>2. before.stack \in Seq(Stacked) /\ before.end \in [1 .. N -> Int]
  BY DEF Ended
<1>3. stack \in Seq(Stacked)
  <2>1. Open(before.stack, level) \in Seq(Stacked)
    BY <1>2, KeptMembers DEF Open
  <2> QED BY <1>1, <2>1 DEF Stacked
<1>4. DOMAIN toc = 1 .. N /\ N \in Nat
  OBVIOUS
<1>5. \A j \in 1 .. N : j \in closed <=> \E x \in Members(before.stack) : x.level >= level /\ x.at = j
  BY DEF Members
<1> HIDE DEF closed, level, stack
<1>6. end \in [1 .. N -> Int]
  BY <1>1, <1>2, <1>4
<1>7. \A j \in 1 .. N : end[j] = IF j \in closed THEN toc[k] - 1 ELSE before.end[j]
  BY <1>4
<1>8. Passed(body, toc, k, before) = [stack |-> stack, end |-> Listed(end)]
  BY DEF Passed, closed, level, stack
<1> HIDE DEF end
<1>9. Listed(end) = end
  <2>1. end \in Seq(Int)
    <3> HIDE DEF N
    <3> QED BY <1>4, <1>6, FunctionSeq
  <2> QED BY <2>1, ListedSame
<1>10. Passed(body, toc, k, before) = [stack |-> stack, end |-> end]
  BY <1>8, <1>9
<1>11. [stack |-> stack, end |-> end] \in Ended(N)
  BY <1>3, <1>6 DEF Ended
<1> QED BY <1>5, <1>7, <1>10, <1>11 DEF level, stack

\* (the stack alone)
LEMMA PassedStack ==
  ASSUME NEW body, NEW toc, NEW k, NEW before
  PROVE  Passed(body, toc, k, before).stack =
           Append(Open(before.stack, body[toc[k]].level), [at |-> k, level |-> body[toc[k]].level])
  BY DEF Passed

\* The pass over a body, and
LEMMA PassExists ==
  ASSUME NEW body \in Seq(Lines), NEW toc \in Seq(Nat), Members(toc) \subseteq DOMAIN body
  PROVE  \E f : PassOf(body, toc, f)
<1> DEFINE N == Len(toc)
           T == Ended(Len(toc))
           step == [x \in (1 .. N) \X T |-> Passed(body, toc, x[1], x[2])]
<1>1. step \in [(1 .. N) \X T -> T]
  BY PassedType
<1>2. \A n \in 1 .. N, s \in T : step[<<n, s>>] = Passed(body, toc, n, s)
  OBVIOUS
<1>3. Unpassed(body, toc) \in T /\ N \in Nat
  <2>1. [j \in DOMAIN toc |-> Len(body)] \in [1 .. N -> Int]
    OBVIOUS
  <2> QED BY <2>1 DEF Unpassed, Ended
<1> HIDE DEF step, T, N
<1>4. PICK f : Trace(T, Unpassed(body, toc), step, N, f)
  BY <1>1, <1>3, Iterated
<1>5. f \in [0 .. N -> T] /\ f[0] = Unpassed(body, toc)
  BY <1>4 DEF Trace
<1>6. ASSUME NEW n \in 1 .. N PROVE f[n] = Passed(body, toc, n, f[n - 1])
  <2>1. f[n - 1] \in T
    <3>1. n - 1 \in 0 .. N
      BY <1>3
    <3> QED BY <3>1, <1>5
  <2>2. f[n] = step[<<n, f[n - 1]>>]
    BY <1>4 DEF Trace
  <2> QED BY <2>1, <2>2, <1>2, Zenon
<1>7. \A n \in 0 .. N : f[n] = IF n = 0 THEN Unpassed(body, toc) ELSE Passed(body, toc, n, f[n - 1])
  <2> TAKE n \in 0 .. N
  <2>1. n = 0 \/ n \in 1 .. N
    BY <1>3
  <2> QED BY <2>1, <1>5, <1>6
<1> QED BY <1>5, <1>7 DEF PassOf, N

\* what section_spans iterates is one.
LEMMA PassSteps ==
  ASSUME NEW body \in Seq(Lines), NEW toc \in Seq(Nat), Members(toc) \subseteq DOMAIN body
  PROVE  LET f == Pass(body, toc) IN
         /\ f[0] = Unpassed(body, toc)
         /\ \A n \in 0 .. Len(toc) : f[n] \in Ended(Len(toc))
         /\ \A n \in 1 .. Len(toc) : f[n] = Passed(body, toc, n, f[n - 1])
<1> DEFINE N == Len(toc)
           f == Pass(body, toc)
           P == {n \in 0 .. N : f[n] \in Ended(N)}
<1>1. PassOf(body, toc, f)
  BY PassExists DEF Pass
<1> HIDE DEF f
<1>2. \A n \in 0 .. N : f[n] = IF n = 0 THEN Unpassed(body, toc) ELSE Passed(body, toc, n, f[n - 1])
  BY <1>1 DEF PassOf
<1>3. N \in Nat /\ 0 \in 0 .. N
  OBVIOUS
<1>4. f[0] = Unpassed(body, toc)
  BY <1>2, <1>3, Zenon
<1>5. ASSUME NEW n \in 1 .. N PROVE f[n] = Passed(body, toc, n, f[n - 1])
  <2>1. n \in 0 .. N /\ n # 0
    OBVIOUS
  <2> QED BY <2>1, <1>2, Zenon
<1>6. 0 \in P
  <2>1. [j \in DOMAIN toc |-> Len(body)] \in [1 .. N -> Int]
    OBVIOUS
  <2>2. Unpassed(body, toc) \in Ended(N)
    BY <2>1 DEF Unpassed, Ended
  <2> QED BY <2>2, <1>3, <1>4
<1>7. ASSUME NEW n \in 1 .. N, n - 1 \in P PROVE n \in P
  <2>a. f[n - 1] \in Ended(Len(toc)) /\ n \in 1 .. Len(toc)
    BY <1>7
  <2>b. Passed(body, toc, n, f[n - 1]) \in Ended(Len(toc))
    <3> HIDE DEF N
    <3> QED BY <2>a, PassedType
  <2>1. f[n] \in Ended(N)
    BY <1>5, <2>b
  <2> QED BY <2>1
<1>8. P = 0 .. N
  <2> HIDE DEF P
  <2>1. P \in SUBSET (0 .. N)
    BY DEF P
  <2> QED BY <2>1, <1>3, <1>6, <1>7, UpTo
<1>9. \A n \in 0 .. N : f[n] \in Ended(N)
  BY <1>8
<1> QED BY <1>4, <1>5, <1>9 DEF f

\* Heading m is the first after heading j that is not deeper.
Closes(lev, j, m) == lev[m] <= lev[j] /\ Survives(lev, j, m - 1)

\* Where section j ends when k headings are known of N lines.
EndsAt(N, lev, toc, j, k, end) ==
  IF j <= k /\ ~Survives(lev, j, k)
    THEN \E m \in j + 1 .. k : end = toc[m] - 1 /\ Closes(lev, j, m)
    ELSE end = N

\* The headings of the pass that are open.
LEMMA StackOfPass ==
  ASSUME NEW body \in Seq(Lines), NEW toc \in Seq(Nat), Members(toc) \subseteq DOMAIN body,
         NEW k \in 0 .. Len(toc), NEW j \in 1 .. Len(toc), NEW level \in Nat
  PROVE  (\E x \in Members(Pass(body, toc)[k].stack) : x.level >= level /\ x.at = j)
           <=> (j <= k /\ Survives(LevelsAt(body, toc), j, k) /\ LevelsAt(body, toc)[j] >= level)
<1> DEFINE N == Len(toc)
           f == Pass(body, toc)
           lev == LevelsAt(body, toc)
           at == [i \in 1 .. N |-> i]
           g == [i \in 0 .. N |-> f[i].stack]
<1>1. /\ f[0] = Unpassed(body, toc)
      /\ \A n \in 0 .. N : f[n] \in Ended(N)
      /\ \A n \in 1 .. N : f[n] = Passed(body, toc, n, f[n - 1])
  BY PassSteps
<1>2. \A n \in 1 .. N : lev[n] = body[toc[n]].level /\ lev[n] \in Nat
  <2> TAKE n \in 1 .. N
  <2>1. toc[n] \in DOMAIN body
    BY DEF Members
  <2>2. body[toc[n]].level \in Nat
    BY <2>1, LineTyped
  <2> QED BY <2>2 DEF LevelsAt
<1>3. N \in Nat /\ lev \in [1 .. N -> Nat] /\ at \in [1 .. N -> Nat] /\ \A i \in 1 .. N : at[i] = i
  BY <1>2 DEF LevelsAt
<1> HIDE DEF f, lev, at
<1>4. Stacks(N, lev, at, g)
  <2>1. g[0] = <<>>
    <3>1. 0 \in 0 .. N
      BY <1>3
    <3> QED BY <1>1, <3>1 DEF Unpassed
  <2>2. g \in [0 .. N -> Seq(Stacked)]
    BY <1>1 DEF Ended
  <2>3. ASSUME NEW n \in 1 .. N PROVE g[n] = Append(Open(g[n - 1], lev[n]), Entry(lev, at, n))
    <3>1. n - 1 \in 0 .. N /\ n \in 0 .. N
      BY <1>3
    <3>2. f[n - 1] \in Ended(Len(toc)) /\ f[n] = Passed(body, toc, n, f[n - 1]) /\ n \in 1 .. Len(toc)
      BY <1>1, <3>1
    <3> DEFINE b == f[n - 1]
    <3>a. b \in Ended(Len(toc)) /\ n \in 1 .. Len(toc)
      BY <3>2
    <3> HIDE DEF b, N, g
    <3>b. Passed(body, toc, n, b).stack = Append(Open(b.stack, body[toc[n]].level), [at |-> n, level |-> body[toc[n]].level])
      BY <3>a, PassedStack
    <3>3. f[n].stack = Append(Open(f[n - 1].stack, body[toc[n]].level), [at |-> n, level |-> body[toc[n]].level])
      BY <3>2, <3>b DEF b
    <3>c. n \in 1 .. N
      OBVIOUS
    <3> QED BY <3>1, <3>3, <3>c, <1>2, <1>3 DEF Entry, g
  <2> HIDE DEF g
  <2> QED BY <2>1, <2>2, <2>3 DEF Stacks
<1>5. g[k] = f[k].stack
  OBVIOUS
<1> HIDE DEF g
<1>6. Members(f[k].stack) = Standing(lev, at, k)
  <2>1. \A i, n \in 1 .. N : i < n => at[i] < at[n]
    BY <1>3
  <2>2. k \in 0 .. N
    OBVIOUS
  <2> HIDE DEF N
  <2>3. \A i \in 0 .. N : InOrder(g[i]) /\ Members(g[i]) = Standing(lev, at, i)
    <3>1. N \in Nat /\ lev \in [1 .. N -> Nat] /\ at \in [1 .. N -> Nat] /\ Stacks(N, lev, at, g)
      BY <1>3, <1>4
    <3>2. \A i, n \in 1 .. N : i < n => at[i] < at[n]
      BY <2>1
    <3> QED BY <3>1, <3>2, StackHolds, Zenon
  <2> QED BY <1>5, <2>2, <2>3
<1>7. ASSUME NEW x \in Members(f[k].stack), x.level >= level, x.at = j
      PROVE  j <= k /\ Survives(lev, j, k) /\ lev[j] >= level
  <2>1. PICK i \in 1 .. k : Survives(lev, i, k) /\ x = Entry(lev, at, i)
    BY <1>6 DEF Standing
  <2>2. i = j /\ x.level = lev[i]
    BY <2>1, <1>3, <1>7 DEF Entry
  <2> QED BY <2>1, <2>2, <1>7
<1>8. ASSUME j <= k, Survives(lev, j, k), lev[j] >= level
      PROVE  \E x \in Members(f[k].stack) : x.level >= level /\ x.at = j
  <2>1. Entry(lev, at, j) \in Standing(lev, at, k)
    BY <1>8 DEF Standing
  <2>2. Entry(lev, at, j).level = lev[j] /\ Entry(lev, at, j).at = j
    BY <1>3 DEF Entry
  <2> QED BY <2>1, <2>2, <1>6, <1>8
<1> QED BY <1>7, <1>8 DEF f, lev

\* The ends that the pass finds.
LEMMA PassEnds ==
  ASSUME NEW body \in Seq(Lines), NEW toc \in Seq(Nat), Members(toc) \subseteq DOMAIN body
  PROVE  \A k \in 0 .. Len(toc) : \A j \in 1 .. Len(toc) :
           EndsAt(Len(body), LevelsAt(body, toc), toc, j, k, Pass(body, toc)[k].end[j])
<1> DEFINE N == Len(toc)
           f == Pass(body, toc)
           lev == LevelsAt(body, toc)
           Fine(k) == \A j \in 1 .. N : EndsAt(Len(body), lev, toc, j, k, f[k].end[j])
           P == {k \in 0 .. N : Fine(k)}
<1>1. /\ f[0] = Unpassed(body, toc)
      /\ \A n \in 0 .. N : f[n] \in Ended(N)
      /\ \A n \in 1 .. N : f[n] = Passed(body, toc, n, f[n - 1])
  BY PassSteps
<1>2. \A n \in 1 .. N : lev[n] = body[toc[n]].level /\ lev[n] \in Nat
  <2> TAKE n \in 1 .. N
  <2>1. toc[n] \in DOMAIN body
    BY DEF Members
  <2>2. body[toc[n]].level \in Nat
    BY <2>1, LineTyped
  <2> QED BY <2>2 DEF LevelsAt
<1>3. N \in Nat /\ 0 \in 0 .. N /\ DOMAIN toc = 1 .. N
  OBVIOUS
<1>4. 0 \in P
  <2>1. \A j \in 1 .. N : f[0].end[j] = Len(body) /\ ~ (j <= 0)
    BY <1>1, <1>3 DEF Unpassed
  <2>2. Fine(0)
    BY <2>1 DEF EndsAt
  <2> QED BY <1>3, <2>2
<1>5. ASSUME NEW k \in 1 .. N, k - 1 \in P PROVE k \in P
  <2>1. k - 1 \in 0 .. N /\ k \in 0 .. N /\ k \in 1 .. Len(toc)
    OBVIOUS
  <2>2. f[k - 1] \in Ended(Len(toc)) /\ f[k] = Passed(body, toc, k, f[k - 1])
    BY <1>1, <2>1
  <2>3. \A j \in 1 .. N : EndsAt(Len(body), lev, toc, j, k - 1, f[k - 1].end[j])
    BY <1>5
  <2>4. \A j \in 1 .. N :
          f[k].end[j] = IF \E x \in Members(f[k - 1].stack) : x.level >= body[toc[k]].level /\ x.at = j
                          THEN toc[k] - 1 ELSE f[k - 1].end[j]
    <3> DEFINE b == f[k - 1]
    <3>1. b \in Ended(Len(toc)) /\ f[k] = Passed(body, toc, k, b)
      BY <2>2
    <3> HIDE DEF b, f, P
    <3>2. \A j \in 1 .. Len(toc) :
            Passed(body, toc, k, b).end[j] =
              IF \E x \in Members(b.stack) : x.level >= body[toc[k]].level /\ x.at = j
                THEN toc[k] - 1 ELSE b.end[j]
      BY <2>1, <3>1, PassedType
    <3> QED BY <3>1, <3>2 DEF b
  <2>5. ASSUME NEW j \in 1 .. N PROVE EndsAt(Len(body), lev, toc, j, k, f[k].end[j])
    <3> DEFINE shut == j <= k - 1 /\ Survives(lev, j, k - 1) /\ lev[j] >= lev[k]
    <3>1. lev[k] \in Nat /\ lev[j] \in Nat /\ lev[k] = body[toc[k]].level
      BY <1>2
    <3>2. (\E x \in Members(f[k - 1].stack) : x.level >= body[toc[k]].level /\ x.at = j) <=> shut
      <4> DEFINE level == body[toc[k]].level
                 p == k - 1
      <4>1. p \in 0 .. Len(toc) /\ j \in 1 .. Len(toc) /\ level \in Nat
        BY <2>1, <3>1
      <4> HIDE DEF level, p
      <4>2. (\E x \in Members(Pass(body, toc)[p].stack) : x.level >= level /\ x.at = j)
              <=> (j <= p /\ Survives(LevelsAt(body, toc), j, p) /\ LevelsAt(body, toc)[j] >= level)
        BY <4>1, StackOfPass
      <4> QED BY <3>1, <4>2 DEF level, p
    <3>3. f[k].end[j] = IF shut THEN toc[k] - 1 ELSE f[k - 1].end[j]
      BY <2>4, <3>2
    <3>4. EndsAt(Len(body), lev, toc, j, k - 1, f[k - 1].end[j])
      BY <2>3
    <3> HIDE DEF f, lev, shut, P
    <3>5. CASE shut
      <4>1. k \in j + 1 .. k /\ Closes(lev, j, k) /\ j <= k
        BY <3>1, <3>5, <2>1 DEF Closes, shut
      <4>2. ~ Survives(lev, j, k)
        BY <4>1, <3>1 DEF Survives, Closes
      <4>3. f[k].end[j] = toc[k] - 1
        BY <3>3, <3>5
      <4> QED BY <4>1, <4>2, <4>3 DEF EndsAt
    <3>6. CASE ~shut /\ j <= k - 1 /\ ~Survives(lev, j, k - 1)
      <4>1. PICK m \in j + 1 .. k - 1 : f[k - 1].end[j] = toc[m] - 1 /\ Closes(lev, j, m)
        BY <3>4, <3>6 DEF EndsAt
      <4>2. m \in j + 1 .. k /\ f[k].end[j] = toc[m] - 1 /\ j <= k
        BY <3>3, <3>6, <4>1
      <4>3. ~ Survives(lev, j, k)
        BY <3>6 DEF Survives
      <4> QED BY <4>1, <4>2, <4>3 DEF EndsAt
    <3>7. CASE ~shut /\ ~ (j <= k - 1 /\ ~Survives(lev, j, k - 1))
      <4>1. f[k].end[j] = Len(body)
        BY <3>3, <3>4, <3>7 DEF EndsAt
      <4>2. j <= k => Survives(lev, j, k)
        <5>1. CASE j <= k - 1
          <6>1. Survives(lev, j, k - 1) /\ lev[j] < lev[k]
            BY <3>1, <3>7, <5>1 DEF shut
          <6>2. j + 1 .. k = (j + 1 .. k - 1) \cup {k}
            BY <5>1
          <6> QED BY <6>1, <6>2 DEF Survives
        <5>2. CASE j = k
          BY <5>2 DEF Survives
        <5> QED BY <5>1, <5>2
      <4> QED BY <4>1, <4>2 DEF EndsAt
    <3> QED BY <3>5, <3>6, <3>7
  <2>6. Fine(k)
    BY <2>5
  <2> QED BY <2>1, <2>6
<1>6. P = 0 .. N
  <2> HIDE DEF P
  <2>1. P \in SUBSET (0 .. N)
    BY DEF P
  <2> QED BY <2>1, <1>3, <1>4, <1>5, UpTo
<1>7. \A k \in 0 .. N : Fine(k)
  BY <1>6
<1> QED BY <1>7

\* The end of a section is the last line that its heading covers.
LEMMA SpanCovers ==
  ASSUME NEW body \in Seq(Lines), NEW k \in DOMAIN build_toc(body)
  PROVE  LET toc == build_toc(body)
             h == toc[k]
             E == Pass(body, toc)[Len(toc)].end[k]
         IN  /\ h \in DOMAIN body /\ E \in Int /\ h <= E /\ E <= Len(body)
             /\ \A i \in DOMAIN body : i >= h => (Covers(body, h, i) <=> i <= E)
<1> DEFINE toc == build_toc(body)
           N == Len(toc)
           h == toc[k]
           E == Pass(body, toc)[N].end[k]
           lev == LevelsAt(body, toc)
<1>1. toc \in Seq(Nat) /\ Increasing(toc) /\ Members(toc) = {i \in DOMAIN body : Addressable(body[i])}
  BY NumbersFacts DEF build_toc, Addressable
<1> HIDE DEF toc
<1>2. \A j \in DOMAIN toc : toc[j] \in DOMAIN body /\ Addressable(body[toc[j]]) /\ lev[j] = body[toc[j]].level /\ lev[j] \in Nat
  <2> TAKE j \in DOMAIN toc
  <2>1. toc[j] \in Members(toc)
    BY DEF Members
  <2>2. toc[j] \in DOMAIN body
    BY <1>1, <2>1
  <2>3. body[toc[j]].level \in Nat
    BY <2>2, LineTyped
  <2>4. j \in 1 .. Len(toc)
    BY <1>1
  <2> QED BY <1>1, <2>1, <2>3, <2>4 DEF LevelsAt
<1>3. DOMAIN toc = 1 .. N /\ N \in Nat /\ k \in 1 .. N /\ k \in DOMAIN toc
  BY <1>1 DEF toc
<1>4. EndsAt(Len(body), lev, toc, k, N, E)
  BY <1>1, <1>3, PassEnds
<1> HIDE DEF N, E, lev
<1>5. h \in DOMAIN body /\ h \in Nat /\ Len(body) \in Nat /\ DOMAIN body = 1 .. Len(body)
  BY <1>2, <1>3
<1>6. CASE Survives(lev, k, N)
  <2>1. E = Len(body)
    BY <1>3, <1>4, <1>6 DEF EndsAt
  <2>2. ASSUME NEW i \in DOMAIN body, i >= h PROVE Covers(body, h, i)
    <3>1. ASSUME NEW j \in h + 1 .. i, Addressable(body[j]) PROVE body[j].level > body[h].level
      <4>1. j \in DOMAIN body /\ h < j
        BY <1>5, <2>2
      <4>2. PICK q \in DOMAIN toc : toc[q] = j
        BY <4>1, <3>1, <1>1 DEF Members
      <4>3. k < q
        BY <1>1, <1>3, <4>1, <4>2, IncreasingOrder
      <4>4. q \in k + 1 .. N
        BY <1>3, <4>2, <4>3
      <4>5. lev[k] < lev[q]
        BY <1>6, <4>4 DEF Survives
      <4>6. lev[k] = body[h].level /\ lev[q] = body[j].level /\ lev[k] \in Nat /\ lev[q] \in Nat
        BY <1>2, <1>3, <4>2
      <4> QED BY <4>5, <4>6
    <3> QED BY <2>2, <3>1 DEF Covers
  <2>3. E \in Int /\ h <= E /\ E <= Len(body)
    BY <1>5, <2>1
  <2>4. \A i \in DOMAIN body : i >= h => (Covers(body, h, i) <=> i <= E)
    BY <1>5, <2>1, <2>2
  <2> HIDE DEF h
  <2> QED BY <1>5, <2>3, <2>4 DEF h, E, N, toc
<1>7. CASE ~ Survives(lev, k, N)
  <2>1. PICK m \in k + 1 .. N : E = toc[m] - 1 /\ Closes(lev, k, m)
    BY <1>3, <1>4, <1>7 DEF EndsAt
  <2>2. m \in DOMAIN toc /\ k < m /\ m \in Nat /\ k \in Nat
    BY <1>3, <2>1
  <2>3. toc[m] \in DOMAIN body /\ Addressable(body[toc[m]]) /\ toc[m] \in Nat
    BY <1>2, <2>2, <1>5
  <2>4. h < toc[m]
    BY <1>1, <1>3, <2>2, IncreasingOrder
  <2>5. E \in Int /\ h <= E /\ E <= Len(body)
    BY <1>5, <2>1, <2>3, <2>4
  <2>6. ASSUME NEW i \in DOMAIN body, i >= h, i <= E PROVE Covers(body, h, i)
    <3>1. ASSUME NEW j \in h + 1 .. i, Addressable(body[j]) PROVE body[j].level > body[h].level
      <4>1. j \in DOMAIN body /\ h < j /\ j < toc[m]
        BY <1>5, <2>1, <2>3, <2>6
      <4>2. PICK q \in DOMAIN toc : toc[q] = j
        BY <4>1, <3>1, <1>1 DEF Members
      <4>3. k < q /\ q < m
        BY <1>1, <1>3, <2>2, <4>1, <4>2, IncreasingOrder
      <4>4. q \in k + 1 .. m - 1
        BY <1>3, <2>2, <4>2, <4>3
      <4>5. lev[k] < lev[q]
        BY <2>1, <4>4 DEF Survives, Closes
      <4>6. lev[k] = body[h].level /\ lev[q] = body[j].level /\ lev[k] \in Nat /\ lev[q] \in Nat
        BY <1>2, <1>3, <4>2
      <4> QED BY <4>5, <4>6
    <3> QED BY <2>6, <3>1 DEF Covers
  <2>7. ASSUME NEW i \in DOMAIN body, i >= h, Covers(body, h, i) PROVE i <= E
    <3>1. SUFFICES ASSUME i > E PROVE FALSE
      BY <1>5, <2>5
    <3>2. toc[m] \in h + 1 .. i
      BY <1>5, <2>1, <2>3, <2>4, <3>1
    <3>3. body[toc[m]].level > body[h].level
      BY <2>3, <2>7, <3>2 DEF Covers
    <3>4. lev[k] = body[h].level /\ lev[m] = body[toc[m]].level /\ lev[k] \in Nat /\ lev[m] \in Nat
      BY <1>2, <1>3, <2>2
    <3> QED BY <2>1, <3>3, <3>4 DEF Closes
  <2>8. \A i \in DOMAIN body : i >= h => (Covers(body, h, i) <=> i <= E)
    BY <2>6, <2>7
  <2> HIDE DEF h
  <2> QED BY <1>5, <2>5, <2>8 DEF h, E, N, toc
<1> QED BY <1>6, <1>7

\* A function on the first numbers is listed as it is.
LEMMA ListedFunction ==
  ASSUME NEW n \in Nat, NEW s, s = [i \in 1 .. n |-> s[i]]
  PROVE  Listed(s) = s
<1>1. s \in Seq({s[i] : i \in 1 .. n})
  OBVIOUS
<1> QED BY <1>1, ListedSame

\* What a section of the body is.
LEMMA SectionIs ==
  ASSUME NEW body \in Seq(Lines)
  PROVE  LET toc == build_toc(body)
             s == derive_file_sections(body)
         IN  /\ DOMAIN s = DOMAIN toc /\ s = [k \in 1 .. Len(toc) |-> s[k]]
             /\ \A k \in DOMAIN toc : /\ s[k].start = toc[k]
                                      /\ s[k].end = Pass(body, toc)[Len(toc)].end[k]
                                      /\ s[k].context = ancestor_chains(body, toc)[k]
<1> DEFINE toc == build_toc(body)
           addressable == addressable_heading_inventory(body)
           spans == section_spans(body, toc)
           chains == ancestor_chains(body, toc)
           members == _collision_members_by_line(full_heading_inventory(body), addressable)
           marked(k) == body[toc[k]].marker # NoMarker
           F == [k \in DOMAIN toc |->
                  [anchor |-> IF marked(k) THEN body[toc[k]].marker ELSE addressable[k].id,
                   start |-> spans[k].start, end |-> spans[k].end,
                   collision |-> IF marked(k) \/ toc[k] \notin DOMAIN members THEN {} ELSE members[toc[k]],
                   context |-> chains[k]]]
           G == [k \in DOMAIN toc |-> [start |-> toc[k], end |-> Pass(body, toc)[Len(toc)].end[k]]]
<1>1. derive_file_sections(body) = Listed(F)
  BY DEF derive_file_sections
<1>2. spans = Listed(G)
  BY SpansUnfolded
<1>3. toc \in Seq(Nat)
  BY NumbersFacts DEF build_toc
<1>4. DOMAIN toc = 1 .. Len(toc) /\ Len(toc) \in Nat
  BY <1>3
<1>5. /\ DOMAIN F = DOMAIN toc
      /\ \A k \in DOMAIN toc : F[k].start = spans[k].start /\ F[k].end = spans[k].end /\ F[k].context = chains[k]
  <2> HIDE DEF toc, addressable, spans, chains, members, marked
  <2> QED OBVIOUS
<1>6. F = [k \in 1 .. Len(toc) |-> F[k]]
  <2> HIDE DEF toc, addressable, spans, chains, members, marked
  <2> QED BY <1>4
<1>7. /\ G = [k \in 1 .. Len(toc) |-> G[k]]
      /\ \A k \in DOMAIN toc : G[k].start = toc[k] /\ G[k].end = Pass(body, toc)[Len(toc)].end[k]
  <2> HIDE DEF toc
  <2> QED BY <1>4
<1> HIDE DEF F, G, spans
<1>8. Listed(F) = F
  <2> HIDE DEF toc
  <2> QED BY <1>4, <1>6, ListedFunction
<1>9. spans = G
  <2> HIDE DEF toc
  <2> QED BY <1>2, <1>4, <1>7, ListedFunction
<1> QED BY <1>1, <1>5, <1>6, <1>7, <1>8, <1>9

-----------------------------------------------------------------------------
(* What is read of a content.                                                *)

\* The lines of a content, of which it is not told where they are from.
Plain == {line \in Lines : line.uid = 0}
Reads == Kinds \X Seq(STRING) \X Nat \X Seq(STRING)
Spelled(c) == [i \in DOMAIN c |-> Read(c[i].kind, c[i].marker, c[i])]

\* What is read of a line,
LEMMA ReadType ==
  ASSUME NEW line \in Lines, NEW kind \in Kinds, NEW marker \in Seq(STRING)
  PROVE  Read(kind, marker, line) \in Reads
BY DEF Read, Reads, Lines

\* of a content,
LEMMA SpelledType ==
  ASSUME NEW c \in Seq(Lines)
  PROVE  Spelled(c) \in Seq(Reads) /\ Len(Spelled(c)) = Len(c)
<1>1. \A i \in DOMAIN c : Read(c[i].kind, c[i].marker, c[i]) \in Reads
  <2> TAKE i \in DOMAIN c
  <2>1. c[i] \in Lines
    OBVIOUS
  <2>2. c[i].kind \in Kinds /\ c[i].marker \in Seq(STRING)
    BY <2>1 DEF Lines
  <2> QED BY <2>1, <2>2, ReadType
<1> QED BY <1>1 DEF Spelled

\* and of two, one after the other.
LEMMA SpelledConcat ==
  ASSUME NEW c \in Seq(Lines), NEW d \in Seq(Lines)
  PROVE  Spelled(c \o d) = Spelled(c) \o Spelled(d)
<1> DEFINE e == c \o d
           s == Spelled(c)
           t == Spelled(d)
           u == Spelled(e)
<1>1. /\ e \in Seq(Lines) /\ Len(e) = Len(c) + Len(d)
      /\ \A k \in 1 .. Len(e) : e[k] = IF k <= Len(c) THEN c[k] ELSE d[k - Len(c)]
  BY ConcatProperties
<1>2. /\ s \in Seq(Reads) /\ t \in Seq(Reads) /\ u \in Seq(Reads)
      /\ Len(s) = Len(c) /\ Len(t) = Len(d) /\ Len(u) = Len(e)
  BY <1>1, SpelledType
<1>3. /\ s \o t \in Seq(Reads) /\ Len(s \o t) = Len(s) + Len(t)
      /\ \A k \in 1 .. Len(s) + Len(t) : (s \o t)[k] = IF k <= Len(s) THEN s[k] ELSE t[k - Len(s)]
  BY <1>2, ConcatProperties
<1>4. /\ \A k \in DOMAIN c : s[k] = Read(c[k].kind, c[k].marker, c[k])
      /\ \A k \in DOMAIN d : t[k] = Read(d[k].kind, d[k].marker, d[k])
      /\ \A k \in DOMAIN e : u[k] = Read(e[k].kind, e[k].marker, e[k])
  BY DEF Spelled
<1> HIDE DEF e, s, t, u
<1>5. ASSUME NEW k \in 1 .. Len(u) PROVE u[k] = (s \o t)[k]
  <2>1. k \in DOMAIN e /\ k \in 1 .. Len(e) /\ k \in 1 .. Len(s) + Len(t)
    BY <1>1, <1>2
  <2>2. CASE k <= Len(c)
    <3>1. k \in DOMAIN c /\ e[k] = c[k] /\ (s \o t)[k] = s[k]
      BY <1>1, <1>2, <1>3, <2>1, <2>2
    <3> QED BY <1>4, <2>1, <3>1
  <2>3. CASE ~ (k <= Len(c))
    <3>1. k - Len(c) \in DOMAIN d /\ e[k] = d[k - Len(c)] /\ (s \o t)[k] = t[k - Len(c)]
      BY <1>1, <1>2, <1>3, <2>1, <2>3
    <3> QED BY <1>4, <2>1, <3>1
  <2> QED BY <2>2, <2>3
<1>6. u = s \o t
  BY <1>1, <1>2, <1>3, <1>5, SeqEqual
<1> QED BY <1>6 DEF e, s, t, u

\* What is read of two contents is the same only if they are.
LEMMA SpelledSame ==
  ASSUME NEW c \in Seq(Plain), NEW d \in Seq(Plain), Spelled(c) = Spelled(d)
  PROVE  c = d
<1>1. \A s \in Seq(Plain) : s \in Seq(Lines)
  BY DEF Plain
<1>2. Len(c) = Len(d)
  BY <1>1, SpelledType
<1>3. ASSUME NEW i \in 1 .. Len(c) PROVE c[i] = d[i]
  <2>1. i \in DOMAIN c /\ i \in DOMAIN d
    BY <1>2
  <2>2. Spelled(c)[i] = Read(c[i].kind, c[i].marker, c[i]) /\ Spelled(d)[i] = Read(d[i].kind, d[i].marker, d[i])
    BY <2>1 DEF Spelled
  <2>3. Read(c[i].kind, c[i].marker, c[i]) = Read(d[i].kind, d[i].marker, d[i])
    BY <2>2
  <2>4. c[i].kind = d[i].kind /\ c[i].marker = d[i].marker /\ c[i].level = d[i].level /\ c[i].text = d[i].text
    BY <2>3 DEF Read
  <2>5. c[i] \in Plain /\ d[i] \in Plain
    BY <2>1
  <2>6. c[i] \in Lines /\ d[i] \in Lines /\ c[i].uid = d[i].uid
    BY <2>5 DEF Plain
  <2>7. \A x \in Lines : x = [kind |-> x.kind, level |-> x.level, text |-> x.text, marker |-> x.marker, uid |-> x.uid]
    BY DEF Lines
  <2> QED BY <2>4, <2>6, <2>7
<1> QED BY <1>2, <1>3, SeqEqual

\* The lines of a content without where they are from.
LEMMA BytesType ==
  ASSUME NEW c \in Seq(Lines)
  PROVE  /\ Bytes(c) \in Seq(Plain) /\ Len(Bytes(c)) = Len(c) /\ DOMAIN Bytes(c) = 1 .. Len(c)
         /\ \A i \in 1 .. Len(c) : /\ Bytes(c)[i].kind = c[i].kind /\ Bytes(c)[i].marker = c[i].marker
                                   /\ Bytes(c)[i].level = c[i].level /\ Bytes(c)[i].text = c[i].text
<1>1. ASSUME NEW i \in DOMAIN c
      PROVE  /\ [c[i] EXCEPT !.uid = 0] \in Plain
             /\ [c[i] EXCEPT !.uid = 0].kind = c[i].kind /\ [c[i] EXCEPT !.uid = 0].marker = c[i].marker
             /\ [c[i] EXCEPT !.uid = 0].level = c[i].level /\ [c[i] EXCEPT !.uid = 0].text = c[i].text
  <2>1. c[i] \in Lines
    OBVIOUS
  <2> QED BY <2>1 DEF Lines, Plain
<1>2. DOMAIN c = 1 .. Len(c) /\ Len(c) \in Nat
  OBVIOUS
<1>3. Bytes(c) \in Seq(Plain) /\ Len(Bytes(c)) = Len(c) /\ DOMAIN Bytes(c) = 1 .. Len(c)
  BY <1>1, <1>2 DEF Bytes
<1>4. \A i \in DOMAIN c : Bytes(c)[i] = [c[i] EXCEPT !.uid = 0]
  BY DEF Bytes
<1> QED BY <1>1, <1>2, <1>3, <1>4

\* The headings above a section, as its content has them.
LEMMA ContextReads ==
  ASSUME NEW body \in Seq(Lines), NEW k \in DOMAIN build_toc(body)
  PROVE  LET toc == build_toc(body)
             context == ancestor_chains(body, toc)[k]
             chain == Kept(AllLines(body), Upper(body, toc[k]))
         IN  /\ context \in Seq(Lines)
             /\ Spelled(Bytes(context)) = [i \in DOMAIN chain |-> Read("atx", NoMarker, body[chain[i]])]
<1> DEFINE toc == build_toc(body)
           n == toc[k]
           context == ancestor_chains(body, toc)[k]
           chain == Kept(AllLines(body), Upper(body, n))
           o == Higher(body, Numbers(body, HeadingKinds), n)
<1>1. context = [i \in DOMAIN o |-> _render_ancestor(body[o[i].at])]
  BY ChainsUnfolded DEF ancestor_chains
<1>2. n \in DOMAIN body /\ Heading(body[n])
  <2>1. toc \in Seq(Nat) /\ Members(toc) = {i \in DOMAIN body : body[i].kind \in AddressableKinds}
    BY NumbersFacts DEF build_toc
  <2>2. n \in Members(toc)
    BY DEF Members
  <2> QED BY <2>1, <2>2 DEF Heading, HeadingKinds
<1> HIDE DEF toc, n, context, chain, o
<1>3. o \in Seq(Stacked) /\ chain = [i \in DOMAIN o |-> o[i].at]
  BY <1>2, HigherIsAbove DEF o, chain
<1>4. chain \in Seq(Nat) /\ Members(chain) \subseteq DOMAIN body
  BY LineNumbers DEF chain
<1>5. DOMAIN chain = DOMAIN o /\ DOMAIN o = 1 .. Len(o) /\ Len(o) \in Nat /\ \A i \in DOMAIN o : chain[i] = o[i].at
  BY <1>3
<1>6. \A i \in DOMAIN o : chain[i] \in DOMAIN body
  BY <1>4, <1>5 DEF Members
<1>7. \A i \in DOMAIN o : context[i] = _render_ancestor(body[chain[i]])
  BY <1>1, <1>5
<1>8. \A i \in DOMAIN o : /\ context[i] \in Lines /\ context[i].kind = "atx" /\ context[i].marker = NoMarker
                          /\ context[i].level = body[chain[i]].level /\ context[i].text = body[chain[i]].text
  <2> TAKE i \in DOMAIN o
  <2>1. body[chain[i]] \in Lines
    BY <1>6, LineTyped
  <2>2. NoMarker \in Seq(STRING) /\ "atx" \in Kinds
    BY DEF NoMarker, Kinds
  <2> QED BY <1>7, <2>1, <2>2 DEF _render_ancestor, Lines
<1>9. context \in Seq(Lines) /\ Len(context) = Len(o)
  BY <1>1, <1>5, <1>8
<1> DEFINE b == Bytes(context)
           r == [i \in DOMAIN chain |-> Read("atx", NoMarker, body[chain[i]])]
<1>10. /\ DOMAIN b = DOMAIN o
       /\ \A i \in DOMAIN o : /\ b[i].kind = context[i].kind /\ b[i].marker = context[i].marker
                              /\ b[i].level = context[i].level /\ b[i].text = context[i].text
  BY <1>5, <1>9, BytesType
<1> HIDE DEF b
<1>11. \A i \in DOMAIN o : Read(b[i].kind, b[i].marker, b[i]) = Read("atx", NoMarker, body[chain[i]])
  BY <1>8, <1>10 DEF Read
<1>12. Spelled(b) = r
  BY <1>5, <1>10, <1>11 DEF Spelled
<1> QED BY <1>9, <1>12 DEF b, toc, n, context, chain

\* The lines of a section but its heading.
Lower(body, h) == {i \in DOMAIN body : i > h /\ Covers(body, h, i)}

\* The lines that a heading covers are those of its span.
LEMMA OwnLines ==
  ASSUME NEW body \in Seq(Lines), NEW k \in DOMAIN build_toc(body)
  PROVE  LET toc == build_toc(body)
             h == toc[k]
             E == Pass(body, toc)[Len(toc)].end[k]
         IN  Kept(AllLines(body), Lower(body, h)) = [i \in 1 .. E - h |-> h + i]
<1> DEFINE toc == build_toc(body)
           h == toc[k]
           E == Pass(body, toc)[Len(toc)].end[k]
           own == Kept(AllLines(body), Lower(body, h))
           s == [i \in 1 .. E - h |-> h + i]
<1>1. /\ h \in DOMAIN body /\ E \in Int /\ h <= E /\ E <= Len(body)
      /\ \A i \in DOMAIN body : i >= h => (Covers(body, h, i) <=> i <= E)
  BY SpanCovers
<1> HIDE DEF h, E
<1>2. own \in Seq(Nat) /\ Increasing(own) /\ Members(own) = Lower(body, h)
  BY LineNumbers DEF Lower
<1> HIDE DEF own
<1>3. DOMAIN body = 1 .. Len(body) /\ Len(body) \in Nat /\ h \in Nat /\ h >= 1 /\ E - h \in Nat
  BY <1>1
<1>4. s \in Seq(Nat) /\ DOMAIN s = 1 .. E - h /\ \A i \in 1 .. E - h : s[i] = h + i
  BY <1>3
<1> HIDE DEF s
<1>5. Increasing(s)
  BY <1>3, <1>4 DEF Increasing
<1>6. ASSUME NEW i \in Lower(body, h) PROVE i \in Members(s)
  <2>1. i \in DOMAIN body /\ i > h /\ i <= E
    BY <1>1, <1>3 DEF Lower
  <2>2. i - h \in 1 .. E - h /\ i = h + (i - h)
    BY <1>1, <1>3, <2>1
  <2>3. s[i - h] = i
    BY <1>4, <2>2
  <2> QED BY <1>4, <2>2, <2>3 DEF Members
<1>7. ASSUME NEW i \in Members(s) PROVE i \in Lower(body, h)
  <2>1. PICK j \in 1 .. E - h : i = h + j
    BY <1>4 DEF Members
  <2>2. i \in DOMAIN body /\ i > h /\ i <= E
    BY <1>1, <1>3, <2>1
  <2> QED BY <1>1, <1>3, <2>2 DEF Lower
<1>8. own = s
  <2>1. Members(own) = Members(s)
    BY <1>2, <1>6, <1>7
  <2> QED BY <1>2, <1>4, <1>5, <2>1, SameNumbers
<1> QED BY <1>8 DEF own, s, h, E

\* What is read of the lines of a span.
LEMMA SectionTextReads ==
  ASSUME NEW body \in Seq(Lines), NEW at, at.start \in DOMAIN body, at.end \in Int,
         at.start <= at.end, at.end <= Len(body)
  PROVE  LET h == at.start
             c == section_text(body, at)
         IN  /\ c \in Seq(Plain) /\ Len(c) = at.end - h + 1
             /\ Spelled(c) = <<Read(body[h].kind, NoMarker, body[h])>>
                               \o [i \in 1 .. at.end - h |->
                                     Read(body[h + i].kind, body[h + i].marker, body[h + i])]
<1> DEFINE h == at.start
           E == at.end
           sub == SubSeq(body, h, E)
           b == Bytes(sub)
           c == [b EXCEPT ![1].marker = NoMarker]
           first == <<Read(body[h].kind, NoMarker, body[h])>>
           rest == [i \in 1 .. E - h |-> Read(body[h + i].kind, body[h + i].marker, body[h + i])]
<1>1. h \in Nat /\ h >= 1 /\ E \in Nat /\ E - h \in Nat /\ DOMAIN body = 1 .. Len(body) /\ Len(body) \in Nat /\ h <= E /\ E <= Len(body)
  OBVIOUS
<1>2. section_text(body, at) = c
  BY DEF section_text
<1> HIDE DEF h, E
<1>3. sub \in Seq(Lines) /\ Len(sub) = E - h + 1 /\ \A i \in 1 .. E - h + 1 : sub[i] = body[h + i - 1]
  BY <1>1
<1> HIDE DEF sub
<1>4. /\ b \in Seq(Plain) /\ Len(b) = E - h + 1 /\ DOMAIN b = 1 .. E - h + 1
      /\ \A i \in 1 .. E - h + 1 : /\ b[i].kind = sub[i].kind /\ b[i].marker = sub[i].marker
                                   /\ b[i].level = sub[i].level /\ b[i].text = sub[i].text
  BY <1>3, BytesType
<1> HIDE DEF b
<1>5. /\ DOMAIN c = 1 .. E - h + 1
      /\ c[1] = [b[1] EXCEPT !.marker = NoMarker] /\ \A i \in 2 .. E - h + 1 : c[i] = b[i]
  BY <1>1, <1>4
<1>6. /\ c[1] \in Plain /\ c[1].kind = b[1].kind /\ c[1].level = b[1].level /\ c[1].text = b[1].text
      /\ c[1].marker = NoMarker
  <2>1. b[1] \in Plain
    BY <1>1, <1>4
  <2>2. NoMarker \in Seq(STRING)
    BY DEF NoMarker
  <2> DEFINE y == [b[1] EXCEPT !.marker = NoMarker]
  <2>3. b[1] \in Lines /\ b[1].uid = 0
    BY <2>1 DEF Plain
  <2>4. y \in Lines /\ y.uid = 0
    BY <2>2, <2>3 DEF Lines
  <2>5. y.kind = b[1].kind /\ y.level = b[1].level /\ y.text = b[1].text /\ y.marker = NoMarker
    BY <2>3 DEF Lines
  <2>6. c[1] = y
    BY <1>5
  <2> HIDE DEF y, c
  <2> QED BY <2>4, <2>5, <2>6 DEF Plain
<1>7. c \in Seq(Plain) /\ Len(c) = E - h + 1
  <2>1. \A i \in 1 .. E - h + 1 : c[i] \in Plain
    <3> TAKE i \in 1 .. E - h + 1
    <3>1. CASE i = 1
      BY <1>6, <3>1
    <3>2. CASE i # 1
      BY <1>1, <1>4, <1>5, <3>2
    <3> QED BY <3>1, <3>2
  <2>2. c = [i \in 1 .. E - h + 1 |-> c[i]]
    BY <1>4
  <2> HIDE DEF c
  <2>3. c \in [1 .. E - h + 1 -> Plain]
    BY <2>1, <2>2
  <2>4. E - h + 1 \in Nat
    BY <1>1
  <2>5. c \in Seq(Plain)
    BY <2>3, <2>4
  <2> QED BY <1>5, <2>4, <2>5
<1> HIDE DEF c
<1> DEFINE s == Spelled(c)
<1>8. /\ s \in Seq(Reads) /\ Len(s) = E - h + 1
      /\ \A i \in 1 .. E - h + 1 : s[i] = Read(c[i].kind, c[i].marker, c[i])
  <2>1. c \in Seq(Lines)
    BY <1>7 DEF Plain
  <2>2. s \in Seq(Reads) /\ Len(s) = Len(c)
    BY <2>1, SpelledType
  <2> QED BY <2>2, <1>5, <1>7 DEF Spelled
<1> HIDE DEF s
<1>9. Read(body[h].kind, NoMarker, body[h]) \in Reads
  <2>a. body[h] \in Lines
    BY <1>1, LineTyped
  <2>1. body[h] \in Lines /\ body[h].kind \in Kinds
    BY <2>a DEF Lines
  <2>2. NoMarker \in Seq(STRING)
    BY DEF NoMarker
  <2> QED BY <2>1, <2>2, ReadType
<1>10. first \in Seq(Reads) /\ Len(first) = 1 /\ first[1] = Read(body[h].kind, NoMarker, body[h])
  BY <1>9
<1>11. \A i \in 1 .. E - h : Read(body[h + i].kind, body[h + i].marker, body[h + i]) \in Reads
  <2> TAKE i \in 1 .. E - h
  <2>1. h + i \in DOMAIN body
    BY <1>1
  <2>2. body[h + i] \in Lines /\ body[h + i].kind \in Kinds /\ body[h + i].marker \in Seq(STRING)
    BY <2>1, LineTyped DEF Lines
  <2> QED BY <2>2, ReadType
<1>12. /\ rest \in Seq(Reads) /\ Len(rest) = E - h
       /\ \A i \in 1 .. E - h : rest[i] = Read(body[h + i].kind, body[h + i].marker, body[h + i])
  BY <1>1, <1>11
<1> HIDE DEF first, rest
<1>13. /\ first \o rest \in Seq(Reads) /\ Len(first \o rest) = E - h + 1
       /\ \A i \in 1 .. E - h + 1 : (first \o rest)[i] = IF i <= 1 THEN first[i] ELSE rest[i - 1]
  <2>1. /\ first \o rest \in Seq(Reads) /\ Len(first \o rest) = Len(first) + Len(rest)
        /\ \A i \in 1 .. Len(first) + Len(rest) :
             (first \o rest)[i] = IF i <= Len(first) THEN first[i] ELSE rest[i - Len(first)]
    BY <1>10, <1>12, ConcatProperties
  <2>2. Len(first) + Len(rest) = E - h + 1 /\ Len(first) = 1
    BY <1>1, <1>10, <1>12
  <2> QED BY <2>1, <2>2
<1>14. ASSUME NEW i \in 1 .. E - h + 1 PROVE s[i] = (first \o rest)[i]
  <2>1. CASE i = 1
    <3>1. sub[1] = body[h]
      BY <1>1, <1>3
    <3>2. c[1].kind = body[h].kind /\ c[1].level = body[h].level /\ c[1].text = body[h].text
      BY <1>1, <1>4, <1>6, <3>1
    <3>3. s[1] = Read(body[h].kind, NoMarker, body[h])
      BY <1>1, <1>6, <1>8, <3>2 DEF Read
    <3> QED BY <1>1, <1>10, <1>13, <2>1, <3>3
  <2>2. CASE i # 1
    <3>1. i \in 2 .. E - h + 1 /\ i - 1 \in 1 .. E - h /\ h + (i - 1) = h + i - 1 /\ ~ (i <= 1)
      BY <1>1, <2>2
    <3>2. sub[i] = body[h + i - 1] /\ c[i] = b[i]
      BY <1>3, <1>5, <3>1
    <3>3. /\ c[i].kind = body[h + i - 1].kind /\ c[i].marker = body[h + i - 1].marker
          /\ c[i].level = body[h + i - 1].level /\ c[i].text = body[h + i - 1].text
      BY <1>4, <3>2
    <3>4. s[i] = Read(body[h + i - 1].kind, body[h + i - 1].marker, body[h + i - 1])
      BY <1>8, <3>3 DEF Read
    <3>5. rest[i - 1] = Read(body[h + i - 1].kind, body[h + i - 1].marker, body[h + i - 1])
      BY <1>12, <3>1
    <3>6. (first \o rest)[i] = rest[i - 1]
      BY <1>13, <3>1
    <3> QED BY <3>4, <3>5, <3>6
  <2> QED BY <2>1, <2>2
<1>15. s = first \o rest
  BY <1>8, <1>13, <1>14, SeqEqual
<1> QED BY <1>2, <1>7, <1>15 DEF s, first, rest, h, E

\* The content of a section is what is read of it.
LEMMA SectionReads ==
  ASSUME NEW body \in Seq(Lines), NEW k \in DOMAIN build_toc(body), NEW at,
         at.start = build_toc(body)[k],
         at.end = Pass(body, build_toc(body))[Len(build_toc(body))].end[k]
  PROVE  LET c == Bytes(ancestor_chains(body, build_toc(body))[k]) \o section_text(body, at)
         IN  c \in Seq(Plain) /\ c # <<>> /\ Spelled(c) = Reading(body, at.start)
<1> DEFINE toc == build_toc(body)
           h == at.start
           E == at.end
           context == ancestor_chains(body, toc)[k]
           b == Bytes(context)
           x == section_text(body, at)
           chain == Kept(AllLines(body), Upper(body, h))
           own == Kept(AllLines(body), Lower(body, h))
           r == [i \in DOMAIN chain |-> Read("atx", NoMarker, body[chain[i]])]
           first == <<Read(body[h].kind, NoMarker, body[h])>>
           rest == [i \in 1 .. E - h |-> Read(body[h + i].kind, body[h + i].marker, body[h + i])]
           owns == [i \in DOMAIN own |-> Read(body[own[i]].kind, body[own[i]].marker, body[own[i]])]
<1>1. h \in DOMAIN body /\ E \in Int /\ h <= E /\ E <= Len(body)
  BY SpanCovers
<1>2. context \in Seq(Lines) /\ Spelled(b) = r
  BY ContextReads
<1>3. own = [i \in 1 .. E - h |-> h + i]
  BY OwnLines
<1>4. Reading(body, h) = (r \o first) \o owns
  BY DEF Reading, AllLines, Upper, Lower
<1>5. x \in Seq(Plain) /\ Len(x) = E - h + 1 /\ Spelled(x) = first \o rest
  BY <1>1, SectionTextReads
<1>6. owns = rest
  BY <1>3
<1>7. b \in Seq(Plain)
  BY <1>2, BytesType
<1>8. h \in Nat
  BY <1>1
<1> HIDE DEF toc, h, E, context, b, x, chain, own, owns
<1>9. \A c \in Seq(Plain) : c \in Seq(Lines)
  BY DEF Plain
<1>10. Spelled(b \o x) = Spelled(b) \o Spelled(x)
  BY <1>5, <1>7, <1>9, SpelledConcat
<1>11. first \in Seq(Reads)
  <2>a. body[h] \in Lines
    BY <1>1, LineTyped
  <2>1. body[h] \in Lines /\ body[h].kind \in Kinds
    BY <2>a DEF Lines
  <2>2. NoMarker \in Seq(STRING)
    BY DEF NoMarker
  <2>3. Read(body[h].kind, NoMarker, body[h]) \in Reads
    BY <2>1, <2>2, ReadType
  <2> QED BY <2>3
<1>12. rest \in Seq(Reads)
  <2>1. \A i \in 1 .. E - h : Read(body[h + i].kind, body[h + i].marker, body[h + i]) \in Reads
    <3> TAKE i \in 1 .. E - h
    <3>1. h + i \in DOMAIN body
      BY <1>1, <1>8
    <3>2. body[h + i] \in Lines /\ body[h + i].kind \in Kinds /\ body[h + i].marker \in Seq(STRING)
      BY <3>1, LineTyped DEF Lines
    <3> QED BY <3>2, ReadType
  <2>2. E - h \in Nat
    BY <1>1, <1>8
  <2> QED BY <2>1, <2>2
<1>13. r \in Seq(Reads)
  BY <1>2, <1>7, <1>9, SpelledType
<1> HIDE DEF r, first, rest
<1>14. (r \o first) \o rest = r \o (first \o rest)
  BY <1>11, <1>12, <1>13, ConcatAssociative
<1>15. Spelled(b \o x) = Reading(body, h)
  BY <1>2, <1>4, <1>5, <1>6, <1>10, <1>14
<1>16. b \o x \in Seq(Plain) /\ b \o x # <<>>
  <2>1. b \o x \in Seq(Plain) /\ Len(b \o x) = Len(b) + Len(x) /\ Len(b) \in Nat
    <3>1. b \o x \in Seq(Plain) /\ Len(b \o x) = Len(b) + Len(x)
      BY <1>5, <1>7, ConcatProperties
    <3> QED BY <3>1, <1>7
  <2>2. Len(x) >= 1
    BY <1>1, <1>5, <1>8
  <2>3. Len(b \o x) # 0
    BY <2>1, <2>2, <1>5
  <2> QED BY <2>1, <2>3
<1> QED BY <1>15, <1>16 DEF b, x, context, toc, h

-----------------------------------------------------------------------------
(* Entries and edges.                                                        *)

\* The last entry that refers to t.
Latest(entries, t) ==
  CHOOSE k \in DOMAIN entries :
    entries[k].ref = t /\ \A j \in DOMAIN entries : entries[j].ref = t => j <= k

RefersTo(entries, t) == \E k \in DOMAIN entries : entries[k].ref = t

\* The last entry for a target, and
LEMMA LatestFacts ==
  ASSUME NEW n \in Nat, NEW entries, DOMAIN entries = 1 .. n, NEW t, RefersTo(entries, t)
  PROVE  /\ Latest(entries, t) \in 1 .. n /\ entries[Latest(entries, t)].ref = t
         /\ \A j \in 1 .. n : entries[j].ref = t => j <= Latest(entries, t)
<1> DEFINE S == {k \in 1 .. n : entries[k].ref = t}
<1>1. S \in SUBSET (1 .. n) /\ S # {}
  BY DEF RefersTo
<1>2. PICK k \in S : \A j \in S : j <= k
  <2> HIDE DEF S
  <2> QED BY <1>1, HasGreatest
<1>3. \E i \in DOMAIN entries : entries[i].ref = t /\ \A j \in DOMAIN entries : entries[j].ref = t => j <= i
  BY <1>2
<1> QED BY <1>3 DEF Latest

\* that it stays the last one when the references stay.
LEMMA LatestSame ==
  ASSUME NEW n \in Nat, NEW entries, DOMAIN entries = 1 .. n, NEW after, DOMAIN after = 1 .. n,
         \A k \in 1 .. n : after[k].ref = entries[k].ref, NEW t, RefersTo(entries, t)
  PROVE  RefersTo(after, t) /\ Latest(after, t) = Latest(entries, t)
<1>1. RefersTo(after, t)
  BY DEF RefersTo
<1> DEFINE i == Latest(entries, t)
           j == Latest(after, t)
<1>2. i \in 1 .. n /\ entries[i].ref = t /\ \A k \in 1 .. n : entries[k].ref = t => k <= i
  BY LatestFacts
<1>3. j \in 1 .. n /\ after[j].ref = t /\ \A k \in 1 .. n : after[k].ref = t => k <= j
  BY <1>1, LatestFacts
<1> HIDE DEF i, j
<1>4. i <= j /\ j <= i
  BY <1>2, <1>3
<1>5. i = j
  BY <1>2, <1>3, <1>4
<1> QED BY <1>1, <1>5 DEF i, j

-----------------------------------------------------------------------------
(* A lattice has of a document what the document has.                        *)

\* An edge has what the last entry for it has seen.
LEMMA BuiltEdges ==
  ASSUME NEW d, build_lattice(d) # NotLoaded, NEW id \in DOMAIN d
  PROVE  LET l == build_lattice(d)
             entries == d[id].entries
         IN  /\ id \in DOMAIN l.nodes
             /\ DOMAIN l.nodes[id].edges = {entries[k].ref : k \in DOMAIN entries}
             /\ \A t \in DOMAIN l.nodes[id].edges :
                  /\ l.nodes[id].edges[t].resolved <=> t \in DOMAIN l.index
                  /\ l.nodes[id].edges[t].seen = entries[Latest(entries, t)].seen
<1> DEFINE sections == FileSections(d)
           index == Index(d, sections)
           entries == d[id].entries
           edges == [x \in DOMAIN d |-> _resolve_edges(d[x].entries, index)]
           l == assemble(d, sections, index, Anchored(sections), edges)
<1>1. build_lattice(d) = l
  BY DEF build_lattice, Loaded, Assembled
<1>2. /\ l.index = index
      /\ l.nodes = [x \in DOMAIN d |-> [body |-> d[x].body, edges |-> edges[x],
                                        authority |-> d[x].authority, tickets |-> d[x].tickets]]
  BY DEF assemble
<1>3. edges[id] = _resolve_edges(entries, index)
  OBVIOUS
<1>4. /\ DOMAIN _resolve_edges(entries, index) = {entries[k].ref : k \in DOMAIN entries}
      /\ \A t \in {entries[k].ref : k \in DOMAIN entries} :
           /\ _resolve_edges(entries, index)[t].resolved <=> t \in DOMAIN index
           /\ _resolve_edges(entries, index)[t].seen = entries[Latest(entries, t)].seen
  <2> HIDE DEF index, entries
  <2> QED BY DEF _resolve_edges, Latest
<1> HIDE DEF l, edges, index, entries
<1>5. DOMAIN l.nodes = DOMAIN d /\ l.nodes[id].edges = edges[id]
  BY <1>2
<1> QED BY <1>1, <1>2, <1>3, <1>4, <1>5 DEF entries

\* A section target stands where its section does.
LEMMA BuiltSection ==
  ASSUME NEW d, build_lattice(d) # NotLoaded, NEW t \in DOMAIN build_lattice(d).index, t.anchor # NoAnchor
  PROVE  LET l == build_lattice(d)
             sections == derive_file_sections(d[t.file].body)
         IN  /\ t.file \in DOMAIN d /\ l.nodes[t.file].body = d[t.file].body
             /\ l.index[t].kind = "section"
             /\ \E k \in DOMAIN sections : /\ l.index[t].start = sections[k].start
                                           /\ l.index[t].end = sections[k].end
                                           /\ l.context[t] = sections[k].context
<1> DEFINE sections == FileSections(d)
           anchored == Anchored(sections)
           index == Index(d, sections)
           edges == [x \in DOMAIN d |-> _resolve_edges(d[x].entries, index)]
           l == assemble(d, sections, index, anchored, edges)
           k == Number(sections, t)
<1>1. build_lattice(d) = l
  BY DEF build_lattice, Loaded, Assembled
<1>2. /\ l.index = index
      /\ l.nodes = [x \in DOMAIN d |-> [body |-> d[x].body, edges |-> edges[x],
                                        authority |-> d[x].authority, tickets |-> d[x].tickets]]
      /\ l.context = [x \in anchored |-> At(sections, x).context]
  BY DEF assemble
<1>3. DOMAIN sections = DOMAIN d /\ \A x \in DOMAIN d : sections[x] = derive_file_sections(d[x].body)
  BY DEF FileSections
<1>4. t \in Files(d) \cup anchored /\ t.file \in DOMAIN d
  <2> HIDE DEF sections
  <2>1. DOMAIN Index(d, sections) = Files(d) \cup Anchored(sections)
        /\ \A x \in Files(d) \cup Anchored(sections) : x.file \in DOMAIN d
    BY <1>3, IndexFacts
  <2> QED BY <1>1, <1>2, <2>1
<1>5. t \notin Files(d)
  BY TargetFacts DEF Files, FileTarget
<1>6. k \in DOMAIN sections[t.file]
  <2> HIDE DEF sections
  <2>1. PICK x \in UNION {{id} \X DOMAIN sections[id] : id \in DOMAIN sections} :
          t = SectionTarget(x[1], sections[x[1]][x[2]].anchor)
    BY <1>4, <1>5 DEF Anchored
  <2>2. t.file = x[1] /\ t = SectionTarget(t.file, sections[x[1]][x[2]].anchor)
    BY <2>1, TargetFacts
  <2>3. x[2] \in DOMAIN sections[x[1]]
    <3>1. PICK id \in DOMAIN sections : x \in {id} \X DOMAIN sections[id]
      OBVIOUS
    <3> QED BY <3>1
  <2> QED BY <2>2, <2>3 DEF Number
<1>7. /\ index[t].kind = "section" /\ index[t].start = sections[t.file][k].start
      /\ index[t].end = sections[t.file][k].end
  <2> HIDE DEF sections
  <2> QED BY <1>4, <1>5 DEF Index, At
<1>8. l.context[t] = sections[t.file][k].context
  <2> HIDE DEF sections, l
  <2> QED BY <1>2, <1>4, <1>5 DEF At
<1> HIDE DEF l, index, edges, sections, k
<1>9. l.nodes[t.file].body = d[t.file].body
  BY <1>2, <1>4
<1> QED BY <1>1, <1>2, <1>3, <1>4, <1>6, <1>7, <1>8, <1>9

\* The content of a section target is what a reader of the page finds there.
LEMMA ContentIsRead ==
  ASSUME NEW d, build_lattice(d) # NotLoaded, NEW t \in DOMAIN build_lattice(d).index, t.anchor # NoAnchor,
         \A id \in DOMAIN d : d[id].body \in Seq(Lines)
  PROVE  LET l == build_lattice(d)
             c == target_content(l, t)
         IN  t.file \in DOMAIN d /\ c \in Seq(Plain) /\ c # <<>> /\ Spelled(c) = Reading(d[t.file].body, Holder(l, t))
<1> DEFINE l == build_lattice(d)
           body == d[t.file].body
           sections == derive_file_sections(body)
           at == l.index[t]
<1>1. t.file \in DOMAIN d /\ l.nodes[t.file].body = body /\ at.kind = "section"
  BY BuiltSection
<1>2. PICK k \in DOMAIN sections :
        at.start = sections[k].start /\ at.end = sections[k].end /\ l.context[t] = sections[k].context
  BY BuiltSection
<1>3. body \in Seq(Lines)
  BY <1>1
<1> HIDE DEF body, l
<1> DEFINE toc == build_toc(body)
<1>4. /\ k \in DOMAIN toc /\ at.start = toc[k] /\ at.end = Pass(body, toc)[Len(toc)].end[k]
      /\ l.context[t] = ancestor_chains(body, toc)[k]
  BY <1>2, <1>3, SectionIs
<1>5. target_content(l, t) = Bytes(ancestor_chains(body, toc)[k]) \o section_text(body, at)
  <2> HIDE DEF toc
  <2>1. at.kind # "file"
    BY <1>1
  <2> QED BY <1>1, <1>4, <2>1 DEF target_content
<1> DEFINE c == Bytes(ancestor_chains(body, toc)[k]) \o section_text(body, at)
<1>6. c \in Seq(Plain) /\ c # <<>> /\ Spelled(c) = Reading(body, at.start)
  <2> HIDE DEF at
  <2> QED BY <1>3, <1>4, SectionReads
<1> HIDE DEF c
<1>7. target_content(l, t) = c
  BY <1>5 DEF c
<1> QED BY <1>1, <1>6, <1>7 DEF Holder, body, l

-----------------------------------------------------------------------------
(* An edit writes lines.                                                     *)

\* A new line has a number.
LEMMA FreshUid ==
  ASSUME NEW body \in Seq(Lines)
  PROVE  10 * Fresh(body) \in Nat
<1> DEFINE D == DOMAIN body
           uids == {body[i].uid : i \in D}
           f == [i \in D |-> body[i].uid]
<1>1. D = 1 .. Len(body) /\ Len(body) \in Nat
  OBVIOUS
<1>2. IsFiniteSet(D)
  BY <1>1, FS_Interval
<1>3. f \in Surjection(D, uids)
  BY DEF Surjection
<1>4. IsFiniteSet(uids)
  <2> HIDE DEF D, uids, f
  <2> QED BY <1>2, <1>3, FS_Surjection
<1>5. Cardinality(uids) \in Nat
  <2> HIDE DEF uids
  <2> QED BY <1>4, FS_CardinalityType
<1>6. Fresh(body) = 1 + Cardinality(uids)
  BY DEF Fresh
<1> HIDE DEF uids
<1> QED BY <1>5, <1>6

\* One edit writes lines, and
LEMMA ChangedType ==
  ASSUME NEW body \in Seq(Lines), NEW b \in Changed(body)
  PROVE  b \in Seq(Lines)
<1>1. \A i \in DOMAIN body, line \in Lines : Replace(body, i, line) \in Seq(Lines)
  BY DEF Replace
<1>2. \A i \in DOMAIN body : body[i] \in Lines
  OBVIOUS
<1>3. Words \subseteq Seq(STRING) /\ Markers \subseteq Seq(STRING) /\ NewText \in Seq(STRING) /\ Levels \subseteq Nat
  BY SessionAssumption
<1>4. \A i \in DOMAIN body : \A w \in Seq(STRING) :
        [body[i] EXCEPT !.text = w] \in Lines /\ [body[i] EXCEPT !.marker = w] \in Lines
  BY <1>2 DEF Lines
<1>a. \A i \in DOMAIN body : \A n \in Nat : [body[i] EXCEPT !.level = n] \in Lines
  BY <1>2 DEF Lines
<1>5. CASE b \in Touched(body)
  <2>1. PICK i \in DOMAIN body : b = Replace(body, i, [body[i] EXCEPT !.text = NewText])
    BY <1>5 DEF Touched
  <2> QED BY <1>1, <1>3, <1>4, <2>1
<1>6. CASE b \in Retitled(body)
  <2>1. PICK i \in DOMAIN body :
          b \in {Replace(body, i, [body[i] EXCEPT !.text = w]) : w \in Words}
                  \cup {Replace(body, i, [body[i] EXCEPT !.marker = m]) : m \in Markers}
                  \cup {Replace(body, i, [body[i] EXCEPT !.level = n]) : n \in Levels}
    BY <1>6 DEF Retitled
  <2>2. CASE b \in {Replace(body, i, [body[i] EXCEPT !.text = w]) : w \in Words}
    BY <1>1, <1>3, <1>4, <2>2
  <2>3. CASE b \in {Replace(body, i, [body[i] EXCEPT !.marker = m]) : m \in Markers}
    BY <1>1, <1>3, <1>4, <2>3
  <2>4. CASE b \in {Replace(body, i, [body[i] EXCEPT !.level = n]) : n \in Levels}
    <3>1. PICK n \in Levels : b = Replace(body, i, [body[i] EXCEPT !.level = n])
      BY <2>4
    <3>2. n \in Nat
      BY <1>3
    <3>3. [body[i] EXCEPT !.level = n] \in Lines
      BY <1>a, <3>2
    <3> QED BY <1>1, <3>1, <3>3
  <2> QED BY <2>1, <2>2, <2>3, <2>4
<1>7. CASE b \in Inserted(body)
  <2>1. PICK x \in (1 .. Len(body) + 1) \X Words \X Levels :
          b = InsertAt(body, x[1], Line("atx", x[3], x[2], NoMarker, 10 * Fresh(body)))
    BY <1>7 DEF Inserted
  <2> DEFINE line == Line("atx", x[3], x[2], NoMarker, 10 * Fresh(body))
             i == x[1]
  <2>2. i \in 1 .. Len(body) + 1 /\ x[2] \in Seq(STRING) /\ x[3] \in Nat
    BY <1>3
  <2>3. line \in Lines
    BY <2>2, FreshUid DEF Line, Lines, Kinds, NoMarker
  <2> HIDE DEF line, i
  <2>4. SubSeq(body, 1, i - 1) \in Seq(Lines) /\ SubSeq(body, i, Len(body)) \in Seq(Lines)
    BY <2>2
  <2>5. InsertAt(body, i, line) \in Seq(Lines)
    BY <2>3, <2>4 DEF InsertAt
  <2> QED BY <2>1, <2>5 DEF i, line
<1>8. CASE b \in Removed(body)
  <2>1. PICK i \in DOMAIN body : b = RemoveAt(body, i)
    BY <1>8 DEF Removed
  <2>2. SubSeq(body, 1, i - 1) \in Seq(Lines) /\ SubSeq(body, i + 1, Len(body)) \in Seq(Lines)
    OBVIOUS
  <2> QED BY <2>1, <2>2 DEF RemoveAt
<1> QED BY <1>5, <1>6, <1>7, <1>8 DEF Changed

\* so does a commit of two.
LEMMA BodiesType ==
  ASSUME NEW body \in Seq(Lines), NEW n, NEW b \in Bodies(body, n)
  PROVE  b \in Seq(Lines)
<1>1. CASE n = 1
  BY <1>1, ChangedType DEF Bodies
<1>2. CASE n # 1
  <2>1. PICK a \in Changed(body) : b \in Changed(a)
    BY <1>2 DEF Bodies
  <2>2. a \in Seq(Lines)
    BY ChangedType
  <2> QED BY <2>1, <2>2, ChangedType
<1> QED BY <1>1, <1>2

-----------------------------------------------------------------------------
(* What was accepted is remembered.                                          *)

Written(d) ==
  \A id \in DOMAIN d : /\ {"body", "entries"} \subseteq DOMAIN d[id] /\ d[id].body \in Seq(Lines)
                       /\ \E n \in Nat : DOMAIN d[id].entries = 1 .. n

\* The last entry that a document has for an edge, with the content c.
Seen(d, e, c) ==
  /\ e[1] \in DOMAIN d /\ RefersTo(d[e[1]].entries, e[2])
  /\ d[e[1]].entries[Latest(d[e[1]].entries, e[2])].seen = c

Remembers(d, seen) ==
  \A e \in DOMAIN seen :
    /\ e = <<e[1], e[2]>> /\ e[2].anchor # NoAnchor
    /\ \E c \in Seq(Plain) : c # <<>> /\ Seen(d, e, c) /\ seen[e] = Spelled(c)

RememberedInv == Written(docs) /\ Remembers(docs, accepted)

\* Nothing is accepted to begin with.
LEMMA RememberedInit ==
  ASSUME Init
  PROVE  RememberedInv
<1>1. docs \in Projects /\ DOMAIN accepted = {}
  BY DEF Init, NothingAccepted
<1>2. ASSUME NEW id \in DOMAIN docs
      PROVE  /\ {"body", "entries"} \subseteq DOMAIN docs[id] /\ docs[id].body \in Seq(Lines)
             /\ \E n \in Nat : DOMAIN docs[id].entries = 1 .. n
  <2>1. /\ {"body", "entries"} \subseteq DOMAIN docs[id] /\ docs[id].body \in Seq(Lines)
        /\ docs[id].entries \in Seq(Entries)
    BY <1>1, SessionAssumption
  <2>2. DOMAIN docs[id].entries = 1 .. Len(docs[id].entries) /\ Len(docs[id].entries) \in Nat
    BY <2>1
  <2> QED BY <2>1, <2>2
<1> QED BY <1>1, <1>2 DEF RememberedInv, Written, Remembers

\* A commit changes no entry.
LEMMA CommitRemembers ==
  ASSUME RememberedInv, NEW n \in 1 .. 2, Commit(n)
  PROVE  RememberedInv'
<1>1. PICK b \in Bodies(Body(docs), n) : docs' = [docs EXCEPT ![Edited].body = b]
  BY DEF Commit
<1>2. Edited \in DOMAIN docs /\ accepted' = accepted
  BY DEF Commit
<1>3. b \in Seq(Lines)
  <2>1. Body(docs) \in Seq(Lines)
    BY <1>2 DEF RememberedInv, Written, Body
  <2> QED BY <1>1, <2>1, BodiesType
<1>4. DOMAIN docs' = DOMAIN docs
  BY <1>1
<1>5. ASSUME NEW id \in DOMAIN docs
      PROVE  /\ {"body", "entries"} \subseteq DOMAIN docs'[id] /\ docs'[id].body \in Seq(Lines)
             /\ docs'[id].entries = docs[id].entries
  <2>1. docs'[id] = IF id = Edited THEN [docs[id] EXCEPT !.body = b] ELSE docs[id]
    BY <1>1
  <2>2. {"body", "entries"} \subseteq DOMAIN docs[id] /\ docs[id].body \in Seq(Lines)
    BY DEF RememberedInv, Written
  <2> QED BY <1>3, <2>1, <2>2
<1>6. Written(docs')
  <2>1. \A id \in DOMAIN docs : \E m \in Nat : DOMAIN docs[id].entries = 1 .. m
    BY DEF RememberedInv, Written
  <2> QED BY <1>4, <1>5, <2>1 DEF Written
<1>7. \A e, c : Seen(docs, e, c) => Seen(docs', e, c)
  BY <1>4, <1>5 DEF Seen
<1>8. Remembers(docs', accepted)
  BY <1>7 DEF RememberedInv, Remembers
<1> QED BY <1>2, <1>6, <1>8 DEF RememberedInv

\* What is accepted is what the entries have seen.
LEMMA ReconcileRemembers ==
  ASSUME CurrentInv, RememberedInv, Reconcile
  PROVE  RememberedInv'
<1> DEFINE l == lattice
           now == {e \in AcceptedEdges(l) : e[2].anchor # NoAnchor}
           Old(id) == docs[id].entries
           New(id) == docs'[id].entries
<1>1. l = build_lattice(docs) /\ build_lattice(docs) # NotLoaded
  BY DEF CurrentInv, Reconcile
<1>2. docs' = [id \in DOMAIN docs |-> [docs[id] EXCEPT !.entries = Acknowledged(l, id, @)]]
  BY DEF Reconcile
<1>3. accepted' = [e \in DOMAIN accepted \cup now |->
                     IF e \in now THEN Reading(docs[e[2].file].body, Holder(l, e[2])) ELSE accepted[e]]
  BY DEF Reconcile
<1>4. Written(docs) /\ Remembers(docs, accepted)
  BY DEF RememberedInv
<1>5. DOMAIN docs' = DOMAIN docs
  BY <1>2
<1>6. ASSUME NEW id \in DOMAIN docs
      PROVE  /\ {"body", "entries"} \subseteq DOMAIN docs'[id] /\ docs'[id].body = docs[id].body
             /\ New(id) = Acknowledged(l, id, Old(id))
  <2>1. docs'[id] = [docs[id] EXCEPT !.entries = Acknowledged(l, id, @)]
    BY <1>2
  <2>2. {"body", "entries"} \subseteq DOMAIN docs[id]
    BY <1>4 DEF Written
  <2> QED BY <2>1, <2>2
<1>7. ASSUME NEW id \in DOMAIN docs
      PROVE  /\ DOMAIN New(id) = DOMAIN Old(id)
             /\ \A k \in DOMAIN Old(id) :
                  LET t == Old(id)[k].ref
                  IN  New(id)[k] = IF id \in Accepted(l) /\ l.nodes[id].edges[t].resolved
                                     THEN RawEdge(t, target_content(l, t)) ELSE Old(id)[k]
  BY <1>6 DEF Acknowledged
<1>8. ASSUME NEW id \in DOMAIN docs, NEW k \in DOMAIN Old(id) PROVE New(id)[k].ref = Old(id)[k].ref
  <2>1. \A t, c : RawEdge(t, c).ref = t
    BY DEF RawEdge
  <2> DEFINE t == Old(id)[k].ref
  <2>2. New(id)[k] = RawEdge(t, target_content(l, t)) \/ New(id)[k] = Old(id)[k]
    BY <1>7
  <2> QED BY <2>1, <2>2
<1>9. Written(docs')
  <2>1. ASSUME NEW id \in DOMAIN docs'
        PROVE  /\ {"body", "entries"} \subseteq DOMAIN docs'[id] /\ docs'[id].body \in Seq(Lines)
               /\ \E n \in Nat : DOMAIN docs'[id].entries = 1 .. n
    BY <1>4, <1>5, <1>6, <1>7 DEF Written
  <2> QED BY <2>1 DEF Written
<1>10. ASSUME NEW id \in DOMAIN docs, NEW t, RefersTo(Old(id), t)
       PROVE  /\ RefersTo(New(id), t) /\ Latest(New(id), t) = Latest(Old(id), t)
              /\ Latest(Old(id), t) \in DOMAIN Old(id) /\ Old(id)[Latest(Old(id), t)].ref = t
  <2>1. PICK n \in Nat : DOMAIN Old(id) = 1 .. n
    BY <1>4 DEF Written
  <2>2. DOMAIN New(id) = 1 .. n /\ \A k \in 1 .. n : New(id)[k].ref = Old(id)[k].ref
    BY <1>7, <1>8, <2>1
  <2> DEFINE o == Old(id)
             w == New(id)
  <2>3. DOMAIN o = 1 .. n /\ DOMAIN w = 1 .. n /\ RefersTo(o, t) /\ \A k \in 1 .. n : w[k].ref = o[k].ref
    BY <1>10, <2>1, <2>2
  <2> HIDE DEF o, w
  <2>4. RefersTo(w, t) /\ Latest(w, t) = Latest(o, t)
    BY <2>3, LatestSame
  <2>5. Latest(o, t) \in 1 .. n /\ o[Latest(o, t)].ref = t
    BY <2>3, LatestFacts
  <2> QED BY <2>1, <2>4, <2>5 DEF o, w
<1>11. ASSUME NEW e \in now
       PROVE  /\ e = <<e[1], e[2]>> /\ e[2].anchor # NoAnchor /\ e[1] \in DOMAIN docs
              /\ RefersTo(Old(e[1]), e[2]) /\ e[2] \in DOMAIN l.index
              /\ e[1] \in Accepted(l) /\ l.nodes[e[1]].edges[e[2]].resolved
  <2>1. /\ e \in EdgesOf(l) /\ e[1] \in Accepted(l) /\ l.nodes[e[1]].edges[e[2]].resolved
        /\ e[2].anchor # NoAnchor
    BY DEF AcceptedEdges
  <2>2. PICK id \in DOMAIN l.nodes : e \in {id} \X DOMAIN l.nodes[id].edges
    BY <2>1 DEF EdgesOf
  <2>3. DOMAIN l.nodes = DOMAIN docs
    BY <1>1, BuiltIsCoherent DEF Coherent
  <2>4. e = <<e[1], e[2]>> /\ e[1] = id /\ e[2] \in DOMAIN l.nodes[id].edges
    BY <2>2
  <2>5. /\ DOMAIN l.nodes[id].edges = {Old(id)[k].ref : k \in DOMAIN Old(id)}
        /\ l.nodes[id].edges[e[2]].resolved <=> e[2] \in DOMAIN l.index
    BY <1>1, <2>2, <2>3, <2>4, BuiltEdges
  <2>6. RefersTo(Old(id), e[2])
    BY <2>4, <2>5 DEF RefersTo
  <2> QED BY <2>1, <2>2, <2>3, <2>4, <2>5, <2>6
<1>12. ASSUME NEW e \in now
       PROVE  /\ accepted'[e] = Reading(docs[e[2].file].body, Holder(l, e[2]))
              /\ \E c \in Seq(Plain) : c # <<>> /\ Seen(docs', e, c) /\ accepted'[e] = Spelled(c)
  <2> DEFINE id == e[1]
             t == e[2]
             c == target_content(l, t)
             i == Latest(Old(id), t)
  <2>1. accepted'[e] = Reading(docs[t.file].body, Holder(l, t))
    BY <1>3
  <2>2. /\ id \in DOMAIN docs /\ RefersTo(Old(id), t) /\ t \in DOMAIN l.index /\ t.anchor # NoAnchor
        /\ id \in Accepted(l) /\ l.nodes[id].edges[t].resolved
    BY <1>11
  <2>3. c \in Seq(Plain) /\ c # <<>> /\ Spelled(c) = Reading(docs[t.file].body, Holder(l, t))
    <3>1. \A x \in DOMAIN docs : docs[x].body \in Seq(Lines)
      BY <1>4 DEF Written
    <3> HIDE DEF id, t
    <3> QED BY <1>1, <2>2, <3>1, ContentIsRead
  <2> HIDE DEF id, t, c
  <2>4. RefersTo(New(id), t) /\ Latest(New(id), t) = i /\ i \in DOMAIN Old(id) /\ Old(id)[i].ref = t
    BY <1>10, <2>2
  <2>5. New(id)[i] = RawEdge(t, c)
    BY <1>7, <2>2, <2>4 DEF c
  <2>6. New(id)[i].seen = c
    BY <2>5 DEF RawEdge
  <2>7. Seen(docs', e, c)
    BY <1>5, <2>2, <2>4, <2>6 DEF Seen, id, t
  <2> QED BY <2>1, <2>3, <2>7 DEF t
<1>13. ASSUME NEW e \in DOMAIN accepted, e \notin now
       PROVE  /\ accepted'[e] = accepted[e] /\ e = <<e[1], e[2]>> /\ e[2].anchor # NoAnchor
              /\ \E c \in Seq(Plain) : c # <<>> /\ Seen(docs', e, c) /\ accepted'[e] = Spelled(c)
  <2> DEFINE id == e[1]
             t == e[2]
             i == Latest(Old(id), t)
  <2>1. accepted'[e] = accepted[e]
    BY <1>3, <1>13
  <2>2. e = <<id, t>> /\ t.anchor # NoAnchor
    BY <1>4 DEF Remembers
  <2>3. PICK c \in Seq(Plain) : c # <<>> /\ Seen(docs, e, c) /\ accepted[e] = Spelled(c)
    BY <1>4 DEF Remembers
  <2>4. id \in DOMAIN docs /\ RefersTo(Old(id), t) /\ Old(id)[i].seen = c
    BY <2>3 DEF Seen
  <2>5. ~ (id \in Accepted(l) /\ l.nodes[id].edges[t].resolved)
    <3>1. SUFFICES ASSUME id \in Accepted(l), l.nodes[id].edges[t].resolved PROVE e \in now
      BY <1>13
    <3>2. id \in DOMAIN l.nodes /\ t \in DOMAIN l.nodes[id].edges
      BY <1>1, <2>4, BuiltEdges DEF RefersTo
    <3>3. e \in EdgesOf(l)
      BY <2>2, <3>2 DEF EdgesOf
    <3> QED BY <2>2, <3>1, <3>3 DEF AcceptedEdges
  <2> HIDE DEF id, t
  <2>6. RefersTo(New(id), t) /\ Latest(New(id), t) = i /\ i \in DOMAIN Old(id) /\ Old(id)[i].ref = t
    BY <1>10, <2>4
  <2>7. New(id)[i] = Old(id)[i]
    BY <1>7, <2>4, <2>5, <2>6
  <2>8. Seen(docs', e, c)
    BY <1>5, <2>4, <2>6, <2>7 DEF Seen, id, t
  <2> QED BY <2>1, <2>2, <2>3, <2>8 DEF id, t
<1>14. DOMAIN accepted' = DOMAIN accepted \cup now
  BY <1>3
<1> HIDE DEF now
<1>15. Remembers(docs', accepted')
  <2> SUFFICES ASSUME NEW e \in DOMAIN accepted'
               PROVE  /\ e = <<e[1], e[2]>> /\ e[2].anchor # NoAnchor
                      /\ \E c \in Seq(Plain) : c # <<>> /\ Seen(docs', e, c) /\ accepted'[e] = Spelled(c)
    BY DEF Remembers
  <2>1. CASE e \in now
    BY <1>11, <1>12, <2>1
  <2>2. CASE e \notin now
    BY <1>13, <1>14, <2>2
  <2> QED BY <2>1, <2>2
<1> QED BY <1>9, <1>15 DEF RememberedInv

\* No step forgets it.
LEMMA RememberedStep ==
  ASSUME CurrentInv, RememberedInv, [Next]_vars
  PROVE  RememberedInv'
<1>1. CASE UNCHANGED session
  BY <1>1 DEF RememberedInv, session
<1>2. CASE Reconcile
  BY <1>2, ReconcileRemembers
<1>3. ASSUME NEW n \in 1 .. 2, Commit(n) PROVE RememberedInv'
  BY <1>3, CommitRemembers
<1>4. Start \/ AuditStep \/ UNCHANGED vars => UNCHANGED session
  <2>1. Start => UNCHANGED session
    BY DEF Start
  <2>2. Answered \/ Retry \/ GiveUp \/ Report => UNCHANGED session
    BY DEF Answered, Retry, GiveUp, Fetching, Report
  <2>3. UNCHANGED vars => UNCHANGED session
    BY DEF vars
  <2> QED BY <2>1, <2>2, <2>3 DEF AuditStep
<1>5. Edit => Reconcile \/ \E n \in 1 .. 2 : Commit(n)
  BY DEF Edit, SessionNext
<1> QED BY <1>1, <1>2, <1>3, <1>4, <1>5 DEF Next

\* An edge is OK exactly when what is seen of its target is its content.
LEMMA RememberedIsRead ==
  ASSUME CurrentInv, RememberedInv
  PROVE  OkMeansSameReading
<1> SUFFICES ASSUME lattice # NotLoaded, NEW e \in DOMAIN accepted,
                    e[2] \in DOMAIN lattice.index, e[2] \notin lattice.collisions
             PROVE  (_classify(lattice, e[1], e[2]) = "OK") <=>
                      accepted[e] = Reading(docs[e[2].file].body, Holder(lattice, e[2]))
  BY DEF OkMeansSameReading
<1> DEFINE l == lattice
           id == e[1]
           t == e[2]
           x == target_content(l, t)
<1>1. l = build_lattice(docs) /\ build_lattice(docs) # NotLoaded
  BY DEF CurrentInv
<1>2. Written(docs) /\ t.anchor # NoAnchor
  BY DEF RememberedInv, Remembers
<1>3. PICK c \in Seq(Plain) : c # <<>> /\ Seen(docs, e, c) /\ accepted[e] = Spelled(c)
  BY DEF RememberedInv, Remembers
<1>4. id \in DOMAIN docs /\ t \in {docs[id].entries[k].ref : k \in DOMAIN docs[id].entries}
  BY <1>3 DEF Seen, RefersTo
<1>5. l.nodes[id].edges[t].resolved /\ l.nodes[id].edges[t].seen = c
  BY <1>1, <1>3, <1>4, BuiltEdges DEF Seen
<1>6. x \in Seq(Plain) /\ Spelled(x) = Reading(docs[t.file].body, Holder(l, t))
  <2>1. \A y \in DOMAIN docs : docs[y].body \in Seq(Lines)
    BY <1>2 DEF Written
  <2> HIDE DEF t
  <2>2. t \in DOMAIN build_lattice(docs).index
    BY <1>1 DEF t
  <2> QED BY <1>1, <1>2, <2>1, <2>2, ContentIsRead
<1> HIDE DEF id, t, x
<1>7. (_classify(l, id, t) = "OK") <=> c = x
  <2>1. t \notin l.collisions /\ c # NoHash
    BY <1>3 DEF t, NoHash
  <2> QED BY <1>5, <2>1 DEF _classify, x
<1>8. (c = x) <=> (Spelled(c) = Spelled(x))
  BY <1>3, <1>6, SpelledSame
<1> QED BY <1>3, <1>6, <1>7, <1>8 DEF id, t

\* Whatever was edited since it was reconciled, an edge into a section that is not ambiguous
\* is OK exactly when a reader of the page finds there what was accepted, for every project
\* and every edit: check hashes all that is read of a section and nothing else.
THEOREM OkIsSameReading == Spec => []OkMeansSameReading
<1>1. AuditInit => CurrentInv /\ RememberedInv
  BY CurrentInit, RememberedInit DEF AuditInit
<1>2. CurrentInv /\ RememberedInv /\ [Next]_vars => (CurrentInv /\ RememberedInv)'
  <2> SUFFICES ASSUME CurrentInv, RememberedInv, [Next]_vars PROVE CurrentInv' /\ RememberedInv'
    OBVIOUS
  <2> QED BY CurrentStep, RememberedStep
<1>3. CurrentInv /\ RememberedInv => OkMeansSameReading
  BY RememberedIsRead
<1> QED BY <1>1, <1>2, <1>3, PTL DEF Spec

-----------------------------------------------------------------------------
(* An edit of a line of text.                                                *)

\* Line i of the body has another text, and is no heading.
Retouched(body, i, b) ==
  /\ i \in DOMAIN body /\ ~ Heading(body[i]) /\ b # body
  /\ b = Replace(body, i, [body[i] EXCEPT !.text = NewText])

\* Two bodies whose lines are of the same kinds and levels, and whose headings are the same.
Alike(body, b) ==
  /\ b \in Seq(Lines) /\ Len(b) = Len(body) /\ DOMAIN b = DOMAIN body
  /\ \A j \in DOMAIN body : /\ b[j].kind = body[j].kind /\ b[j].level = body[j].level
                            /\ Heading(body[j]) => b[j] = body[j]

\* An edit of a line of text keeps all of that.
LEMMA RetouchedIsAlike ==
  ASSUME NEW body \in Seq(Lines), NEW i, NEW b, Retouched(body, i, b)
  PROVE  /\ Alike(body, b) /\ i \in DOMAIN body
         /\ \A j \in DOMAIN body : j # i => b[j] = body[j]
         /\ b[i].text # body[i].text
<1> DEFINE line == [body[i] EXCEPT !.text = NewText]
<1>1. i \in DOMAIN body /\ ~ Heading(body[i]) /\ b # body /\ b = [body EXCEPT ![i] = line]
  BY DEF Retouched, Replace
<1>2. body[i] \in Lines
  BY <1>1, LineTyped
<1>3. /\ line \in Lines /\ line.kind = body[i].kind /\ line.level = body[i].level
      /\ line.marker = body[i].marker /\ line.uid = body[i].uid /\ line.text = NewText
  BY <1>2, SessionAssumption DEF Lines
<1>4. (line.text = body[i].text) => line = body[i]
  <2>1. \A x \in Lines : x = [kind |-> x.kind, level |-> x.level, text |-> x.text, marker |-> x.marker, uid |-> x.uid]
    BY DEF Lines
  <2> HIDE DEF line
  <2> QED BY <1>2, <1>3, <2>1
<1> HIDE DEF line
<1>5. b \in Seq(Lines) /\ Len(b) = Len(body) /\ DOMAIN b = DOMAIN body
  BY <1>1, <1>3
<1>6. b[i] = line /\ \A j \in DOMAIN body : j # i => b[j] = body[j]
  BY <1>1
<1>7. line # body[i]
  <2>1. SUFFICES ASSUME line = body[i] PROVE b = body
    BY <1>1
  <2> QED BY <1>1, <2>1
<1>8. \A j \in DOMAIN body : /\ b[j].kind = body[j].kind /\ b[j].level = body[j].level
                             /\ Heading(body[j]) => b[j] = body[j]
  BY <1>1, <1>3, <1>6
<1> QED BY <1>1, <1>4, <1>5, <1>6, <1>7, <1>8 DEF Alike

\* The lines of each kind are the same,
LEMMA SameLines ==
  ASSUME NEW body \in Seq(Lines), NEW b, Alike(body, b), NEW kinds
  PROVE  Numbers(b, kinds) = Numbers(body, kinds)
<1>1. {i \in DOMAIN b : b[i].kind \in kinds} = {i \in DOMAIN body : body[i].kind \in kinds}
  BY DEF Alike
<1>2. [i \in DOMAIN b |-> i] = [i \in DOMAIN body |-> i]
  BY DEF Alike
<1> QED BY <1>1, <1>2 DEF Numbers

\* so are the ids of headings,
LEMMA SameIds ==
  ASSUME NEW body \in Seq(Lines), NEW b, Alike(body, b), NEW kinds \in SUBSET HeadingKinds
  PROVE  inventory(b, Numbers(b, kinds)) = inventory(body, Numbers(body, kinds))
<1> DEFINE numbers == Numbers(body, kinds)
<1>1. Numbers(b, kinds) = numbers
  BY SameLines
<1>2. Members(numbers) = {i \in DOMAIN body : body[i].kind \in kinds}
  BY NumbersFacts
<1> HIDE DEF numbers
<1>3. ASSUME NEW k \in DOMAIN numbers PROVE b[numbers[k]] = body[numbers[k]]
  <2>1. numbers[k] \in Members(numbers)
    BY DEF Members
  <2>2. numbers[k] \in DOMAIN body /\ Heading(body[numbers[k]])
    BY <1>2, <2>1 DEF Heading
  <2> QED BY <2>2 DEF Alike
<1>4. [k \in DOMAIN numbers |-> github_slug(b[numbers[k]])] = [k \in DOMAIN numbers |-> github_slug(body[numbers[k]])]
  BY <1>3
<1> QED BY <1>1, <1>4 DEF inventory, numbers

\* what a heading covers,
LEMMA SameCovers ==
  ASSUME NEW body \in Seq(Lines), NEW b, Alike(body, b), NEW h \in DOMAIN body, NEW i \in DOMAIN body
  PROVE  Covers(b, h, i) <=> Covers(body, h, i)
<1>1. \A j \in h + 1 .. i : j \in DOMAIN body
  OBVIOUS
<1>2. \A j \in DOMAIN body : (Addressable(b[j]) <=> Addressable(body[j])) /\ b[j].level = body[j].level
  BY DEF Alike, Addressable
<1> QED BY <1>1, <1>2 DEF Covers

\* where its section ends
LEMMA SameEnds ==
  ASSUME NEW body \in Seq(Lines), NEW b, Alike(body, b), NEW k \in DOMAIN build_toc(body)
  PROVE  LET toc == build_toc(body)
         IN  Pass(b, toc)[Len(toc)].end[k] = Pass(body, toc)[Len(toc)].end[k]
<1> DEFINE toc == build_toc(body)
           h == toc[k]
           E == Pass(body, toc)[Len(toc)].end[k]
           F == Pass(b, toc)[Len(toc)].end[k]
<1>1. build_toc(b) = toc
  BY SameLines DEF build_toc
<1>2. b \in Seq(Lines) /\ DOMAIN b = DOMAIN body /\ Len(b) = Len(body)
  BY DEF Alike
<1>3. /\ h \in DOMAIN body /\ E \in Int /\ h <= E /\ E <= Len(body)
      /\ \A i \in DOMAIN body : i >= h => (Covers(body, h, i) <=> i <= E)
  BY SpanCovers
<1>4. /\ F \in Int /\ h <= F /\ F <= Len(body)
      /\ \A i \in DOMAIN body : i >= h => (Covers(b, h, i) <=> i <= F)
  <2>1. k \in DOMAIN build_toc(b)
    BY <1>1
  <2>2. LET t == build_toc(b)
        IN  /\ Pass(b, t)[Len(t)].end[k] \in Int /\ t[k] <= Pass(b, t)[Len(t)].end[k]
            /\ Pass(b, t)[Len(t)].end[k] <= Len(b)
            /\ \A i \in DOMAIN b : i >= t[k] => (Covers(b, t[k], i) <=> i <= Pass(b, t)[Len(t)].end[k])
    BY <1>2, <2>1, SpanCovers
  <2> HIDE DEF toc
  <2> QED BY <1>1, <1>2, <2>2
<1> HIDE DEF h, E, F
<1>5. E \in DOMAIN body /\ F \in DOMAIN body /\ E >= h /\ F >= h
  BY <1>3, <1>4
<1>6. F <= E
  BY <1>3, <1>4, <1>5, SameCovers
<1>7. E <= F
  BY <1>3, <1>4, <1>5, SameCovers
<1>8. E = F
  BY <1>3, <1>4, <1>6, <1>7
<1> QED BY <1>8 DEF E, F

\* its span
LEMMA SameSpans ==
  ASSUME NEW body \in Seq(Lines), NEW b, Alike(body, b), NEW k \in DOMAIN build_toc(body)
  PROVE  section_spans(b, build_toc(body))[k] = section_spans(body, build_toc(body))[k]
<1> DEFINE toc == build_toc(body)
           G(c) == [j \in DOMAIN toc |-> [start |-> toc[j], end |-> Pass(c, toc)[Len(toc)].end[j]]]
<1>1. section_spans(b, toc) = Listed(G(b)) /\ section_spans(body, toc) = Listed(G(body))
  BY SpansUnfolded
<1>2. \A j \in DOMAIN toc : Pass(b, toc)[Len(toc)].end[j] = Pass(body, toc)[Len(toc)].end[j]
  BY SameEnds
<1> HIDE DEF toc
<1>3. G(b) = G(body)
  BY <1>2
<1> HIDE DEF G
<1> QED BY <1>1, <1>3 DEF toc

\* and what stands above it.
LEMMA SameChains ==
  ASSUME NEW body \in Seq(Lines), NEW b, Alike(body, b), NEW k \in DOMAIN build_toc(body)
  PROVE  ancestor_chains(b, build_toc(body))[k] = ancestor_chains(body, build_toc(body))[k]
<1> DEFINE toc == build_toc(body)
           n == toc[k]
           hs == Numbers(body, HeadingKinds)
           o == Higher(body, hs, n)
           p == Higher(b, hs, n)
           chain == Kept(AllLines(body), Upper(body, n))
<1>1. n \in DOMAIN body /\ Heading(body[n])
  <2>1. Members(toc) = {i \in DOMAIN body : body[i].kind \in AddressableKinds}
    BY NumbersFacts DEF build_toc
  <2>2. n \in Members(toc)
    BY DEF Members
  <2> QED BY <2>1, <2>2 DEF Heading, HeadingKinds
<1>2. b \in Seq(Lines) /\ DOMAIN b = DOMAIN body /\ Numbers(b, HeadingKinds) = hs
  BY SameLines DEF Alike
<1> HIDE DEF toc, n
<1>3. n \in DOMAIN b /\ Heading(b[n])
  BY <1>1, <1>2 DEF Alike, Heading
<1>4. Upper(b, n) = Upper(body, n) /\ AllLines(b) = AllLines(body)
  <2>1. \A j \in DOMAIN body : (Heading(b[j]) <=> Heading(body[j])) /\ b[j].level = body[j].level
    BY DEF Alike, Heading
  <2>2. ASSUME NEW h \in DOMAIN body PROVE Above(b, h, n) <=> Above(body, h, n)
    <3>1. \A j \in h + 1 .. n - 1 : j \in DOMAIN body
      BY <1>1
    <3> QED BY <1>1, <2>1, <3>1 DEF Above
  <2> QED BY <1>2, <2>2 DEF Upper, AllLines
<1>5. o \in Seq(Stacked) /\ chain = [i \in DOMAIN o |-> o[i].at]
  BY <1>1, HigherIsAbove
<1>6. p \in Seq(Stacked) /\ chain = [i \in DOMAIN p |-> p[i].at]
  <2>1. LET o2 == Higher(b, Numbers(b, HeadingKinds), n)
        IN  o2 \in Seq(Stacked) /\ Kept(AllLines(b), Upper(b, n)) = [i \in DOMAIN o2 |-> o2[i].at]
    BY <1>2, <1>3, HigherIsAbove
  <2> HIDE DEF hs
  <2> QED BY <1>2, <1>4, <2>1
<1>7. Members(chain) \subseteq Upper(body, n)
  BY LineNumbers
<1>8. /\ ancestor_chains(body, toc)[k] = [i \in DOMAIN o |-> _render_ancestor(body[o[i].at])]
      /\ ancestor_chains(b, toc)[k] = [i \in DOMAIN p |-> _render_ancestor(b[p[i].at])]
  BY <1>2, ChainsUnfolded DEF ancestor_chains, n, toc
<1> HIDE DEF o, p, chain, hs
<1>9. DOMAIN o = DOMAIN p /\ DOMAIN o = DOMAIN chain
  BY <1>5, <1>6
<1>10. ASSUME NEW i \in DOMAIN o
       PROVE  _render_ancestor(b[p[i].at]) = _render_ancestor(body[o[i].at])
  <2>1. o[i].at = chain[i] /\ p[i].at = chain[i]
    BY <1>5, <1>6, <1>9
  <2>2. chain[i] \in Upper(body, n)
    BY <1>7, <1>9 DEF Members
  <2>3. chain[i] \in DOMAIN body /\ Heading(body[chain[i]])
    BY <2>2 DEF Upper, Above
  <2> QED BY <2>1, <2>3 DEF Alike
<1>11. ancestor_chains(b, toc)[k] = ancestor_chains(body, toc)[k]
  BY <1>8, <1>9, <1>10
<1> QED BY <1>11 DEF toc

\* So are the sections.
LEMMA SameSections ==
  ASSUME NEW body \in Seq(Lines), NEW b, Alike(body, b)
  PROVE  derive_file_sections(b) = derive_file_sections(body)
<1> DEFINE toc == build_toc(body)
           addressable == addressable_heading_inventory(body)
           spans(c) == section_spans(c, toc)
           chains(c) == ancestor_chains(c, toc)
           members == _collision_members_by_line(full_heading_inventory(body), addressable)
           marked(c, k) == c[toc[k]].marker # NoMarker
           section(c, k) ==
             [anchor |-> IF marked(c, k) THEN c[toc[k]].marker ELSE addressable[k].id,
              start |-> spans(c)[k].start, end |-> spans(c)[k].end,
              collision |-> IF marked(c, k) \/ toc[k] \notin DOMAIN members THEN {} ELSE members[toc[k]],
              context |-> chains(c)[k]]
<1>1. build_toc(b) = toc
  BY SameLines DEF build_toc
<1>2. addressable_heading_inventory(b) = addressable /\ full_heading_inventory(b) = full_heading_inventory(body)
  <2>1. AddressableKinds \in SUBSET HeadingKinds /\ RenderedKinds \in SUBSET HeadingKinds
    BY DEF HeadingKinds
  <2> QED BY <2>1, SameIds DEF addressable_heading_inventory, full_heading_inventory, build_toc, _rendered_headings
<1>3. derive_file_sections(body) = Listed([k \in DOMAIN toc |-> section(body, k)])
  BY DEF derive_file_sections
<1>4. derive_file_sections(b) = Listed([k \in DOMAIN toc |-> section(b, k)])
  <2> DEFINE toc2 == build_toc(b)
             addressable2 == addressable_heading_inventory(b)
             members2 == _collision_members_by_line(full_heading_inventory(b), addressable2)
             section2(k) ==
               [anchor |-> IF b[toc2[k]].marker # NoMarker THEN b[toc2[k]].marker ELSE addressable2[k].id,
                start |-> section_spans(b, toc2)[k].start, end |-> section_spans(b, toc2)[k].end,
                collision |-> IF b[toc2[k]].marker # NoMarker \/ toc2[k] \notin DOMAIN members2
                                THEN {} ELSE members2[toc2[k]],
                context |-> ancestor_chains(b, toc2)[k]]
  <2>1. derive_file_sections(b) = Listed([k \in DOMAIN toc2 |-> section2(k)])
    BY DEF derive_file_sections
  <2>2. toc2 = toc /\ addressable2 = addressable /\ members2 = members
    BY <1>1, <1>2
  <2>3. ASSUME NEW k PROVE section2(k) = section(b, k)
    <3> HIDE DEF toc2, addressable2, members2, toc, addressable, members
    <3> QED BY <2>2
  <2> HIDE DEF section2, section, toc2, toc
  <2> QED BY <2>1, <2>2, <2>3
<1>5. ASSUME NEW k \in DOMAIN toc PROVE section(b, k) = section(body, k)
  <2>1. Members(toc) = {i \in DOMAIN body : body[i].kind \in AddressableKinds} /\ toc \in Seq(Nat)
    BY NumbersFacts DEF build_toc
  <2>2. toc[k] \in Members(toc)
    BY DEF Members
  <2>3. b[toc[k]] = body[toc[k]]
    <3>1. toc[k] \in DOMAIN body /\ Heading(body[toc[k]])
      BY <2>1, <2>2 DEF Heading, HeadingKinds
    <3> QED BY <3>1 DEF Alike
  <2>4. chains(b)[k] = chains(body)[k]
    BY SameChains
  <2>5. spans(b)[k] = spans(body)[k]
    BY SameSpans
  <2> HIDE DEF toc, chains, spans, members, addressable
  <2> QED BY <2>3, <2>4, <2>5
<1>6. [k \in DOMAIN toc |-> section(b, k)] = [k \in DOMAIN toc |-> section(body, k)]
  <2> HIDE DEF section, toc
  <2> QED BY <1>5
<1> QED BY <1>3, <1>4, <1>6

-----------------------------------------------------------------------------
(* The lattice after an edit of a line of text.                              *)

\* Everything but the body is as it was.
LEMMA BuiltAgain ==
  ASSUME NEW d, build_lattice(d) # NotLoaded, Written(d), NEW X \in DOMAIN d, NEW b, Alike(d[X].body, b)
  PROVE  LET l == build_lattice(d)
             e == [d EXCEPT ![X].body = b]
             m == build_lattice(e)
         IN  /\ m.index = l.index /\ m.collisions = l.collisions /\ m.context = l.context
             /\ \A id \in DOMAIN d : /\ m.nodes[id].edges = l.nodes[id].edges
                                     /\ m.nodes[id].body = IF id = X THEN b ELSE d[id].body
<1> DEFINE e == [d EXCEPT ![X].body = b]
           sections == FileSections(d)
           anchored == Anchored(sections)
           index == Index(d, sections)
           edges(c) == [id \in DOMAIN c |-> _resolve_edges(c[id].entries, index)]
           l == assemble(d, sections, index, anchored, edges(d))
           m == assemble(e, sections, index, anchored, edges(e))
<1>1. DOMAIN e = DOMAIN d /\ e[X] = [d[X] EXCEPT !.body = b] /\ \A id \in DOMAIN d : id # X => e[id] = d[id]
  OBVIOUS
<1>2. \A id \in DOMAIN d : {"body", "entries"} \subseteq DOMAIN d[id] /\ d[id].body \in Seq(Lines)
  BY DEF Written
<1> HIDE DEF e
<1>3. \A id \in DOMAIN d : e[id].body = (IF id = X THEN b ELSE d[id].body) /\ e[id].entries = d[id].entries
  BY <1>1, <1>2
<1>4. FileSections(e) = sections
  <2>1. derive_file_sections(b) = derive_file_sections(d[X].body)
    BY <1>2, SameSections
  <2>2. \A id \in DOMAIN d : derive_file_sections(e[id].body) = derive_file_sections(d[id].body)
    BY <1>3, <2>1
  <2> QED BY <1>1, <2>2 DEF FileSections
<1>5. _register(sections) /\ build_lattice(d) = l
  BY DEF build_lattice, Loaded, Assembled
<1>6. Index(e, sections) = index
  <2>1. Files(e) = Files(d)
    BY <1>1 DEF Files
  <2>2. \A t \in Files(d) : Len(e[t.file].body) = Len(d[t.file].body)
    <3> TAKE t \in Files(d)
    <3>1. t.file \in DOMAIN d
      BY TargetFacts DEF Files, FileTarget
    <3> QED BY <3>1, <1>3 DEF Alike
  <2> HIDE DEF sections
  <2> QED BY <2>1, <2>2 DEF Index
<1>7. build_lattice(e) = m
  <2> HIDE DEF sections, index
  <2> QED BY <1>4, <1>5, <1>6 DEF build_lattice, Loaded, Assembled
<1> HIDE DEF sections, anchored, index
<1>8. edges(e) = edges(d)
  BY <1>1, <1>3
<1>9. /\ m.index = l.index /\ m.collisions = l.collisions /\ m.context = l.context
      /\ l.nodes = [id \in DOMAIN d |-> [body |-> d[id].body, edges |-> edges(d)[id],
                                         authority |-> d[id].authority, tickets |-> d[id].tickets]]
      /\ m.nodes = [id \in DOMAIN e |-> [body |-> e[id].body, edges |-> edges(e)[id],
                                         authority |-> e[id].authority, tickets |-> e[id].tickets]]
  <2> HIDE DEF edges
  <2> QED BY DEF assemble
<1> HIDE DEF l, m, edges
<1>10. \A id \in DOMAIN d : /\ m.nodes[id].edges = l.nodes[id].edges
                            /\ m.nodes[id].body = IF id = X THEN b ELSE d[id].body
  BY <1>1, <1>3, <1>8, <1>9
<1> QED BY <1>5, <1>7, <1>9, <1>10 DEF e

\* A target without an anchor is a file.
LEMMA BuiltFile ==
  ASSUME NEW d, build_lattice(d) # NotLoaded, NEW t \in DOMAIN build_lattice(d).index, t.anchor = NoAnchor
  PROVE  LET l == build_lattice(d)
         IN  t.file \in DOMAIN d /\ l.nodes[t.file].body = d[t.file].body /\ l.index[t].kind = "file"
<1> DEFINE sections == FileSections(d)
           index == Index(d, sections)
           edges == [x \in DOMAIN d |-> _resolve_edges(d[x].entries, index)]
           l == assemble(d, sections, index, Anchored(sections), edges)
<1>1. build_lattice(d) = l
  BY DEF build_lattice, Loaded, Assembled
<1>2. /\ l.index = index
      /\ l.nodes = [x \in DOMAIN d |-> [body |-> d[x].body, edges |-> edges[x],
                                        authority |-> d[x].authority, tickets |-> d[x].tickets]]
  BY DEF assemble
<1>3. DOMAIN sections = DOMAIN d
  BY DEF FileSections
<1>4. t \in Files(d) \cup Anchored(sections) /\ t.file \in DOMAIN d
  <2> HIDE DEF sections
  <2>1. DOMAIN Index(d, sections) = Files(d) \cup Anchored(sections)
        /\ \A x \in Files(d) \cup Anchored(sections) : x.file \in DOMAIN d
    BY <1>3, IndexFacts
  <2> QED BY <1>1, <1>2, <2>1
<1>5. t \notin Anchored(sections)
  <2> HIDE DEF sections
  <2>1. SUFFICES ASSUME t \in Anchored(sections) PROVE FALSE
    OBVIOUS
  <2>2. PICK x \in UNION {{id} \X DOMAIN sections[id] : id \in DOMAIN sections} :
          t = SectionTarget(x[1], sections[x[1]][x[2]].anchor)
    BY <2>1 DEF Anchored
  <2>3. t.anchor = <<sections[x[1]][x[2]].anchor>>
    BY <2>2, TargetFacts
  <2> DEFINE a == sections[x[1]][x[2]].anchor
  <2>4. <<a>> # <<>>
    <3> HIDE DEF a
    <3> QED OBVIOUS
  <2>5. t.anchor = <<>>
    BY DEF NoAnchor
  <2> QED BY <2>3, <2>4, <2>5
<1>6. index[t].kind = "file"
  <2> HIDE DEF sections
  <2> QED BY <1>4, <1>5 DEF Index
<1> HIDE DEF l, index, edges, sections
<1> QED BY <1>1, <1>2, <1>4, <1>6

\* What follows the same beginning.
LEMMA ConcatCancel ==
  ASSUME NEW V, NEW s \in Seq(V), NEW c \in Seq(V), NEW e \in Seq(V), s \o c = s \o e
  PROVE  c = e
<1>1. /\ Len(s \o c) = Len(s) + Len(c) /\ Len(s \o e) = Len(s) + Len(e)
      /\ \A k \in 1 .. Len(s) + Len(c) : (s \o c)[k] = IF k <= Len(s) THEN s[k] ELSE c[k - Len(s)]
      /\ \A k \in 1 .. Len(s) + Len(e) : (s \o e)[k] = IF k <= Len(s) THEN s[k] ELSE e[k - Len(s)]
  BY ConcatProperties
<1>2. Len(c) = Len(e) /\ Len(c) \in Nat /\ Len(s) \in Nat
  BY <1>1
<1>3. ASSUME NEW k \in 1 .. Len(c) PROVE c[k] = e[k]
  <2> DEFINE n == Len(s) + k
  <2>1. n \in 1 .. Len(s) + Len(c) /\ ~ (n <= Len(s)) /\ n - Len(s) = k
    BY <1>2
  <2> HIDE DEF n
  <2>2. (s \o c)[n] = c[k] /\ (s \o e)[n] = e[k]
    BY <1>1, <1>2, <2>1
  <2> QED BY <2>2
<1> QED BY <1>2, <1>3, SeqEqual

\* The text of a section changes if the line is one of its lines.
LEMMA SectionTextTouched ==
  ASSUME NEW body \in Seq(Lines), NEW i, NEW b, Retouched(body, i, b),
         NEW at, at.start \in DOMAIN body, Heading(body[at.start]), at.end \in Int,
         at.start <= at.end, at.end <= Len(body)
  PROVE  section_text(b, at) # section_text(body, at) <=> i \in at.start .. at.end
<1> DEFINE h == at.start
           E == at.end
           c == section_text(body, at)
           e == section_text(b, at)
<1>1. /\ b \in Seq(Lines) /\ DOMAIN b = DOMAIN body /\ Len(b) = Len(body) /\ i \in DOMAIN body
      /\ \A j \in DOMAIN body : j # i => b[j] = body[j]
      /\ b[i].text # body[i].text
  BY RetouchedIsAlike DEF Alike
<1>2. i # h
  BY DEF Retouched
<1>3. DOMAIN body = 1 .. Len(body) /\ Len(body) \in Nat
  OBVIOUS
<1>4. CASE i \notin h .. E
  <2>1. SubSeq(b, h, E) = SubSeq(body, h, E)
    <3>1. h .. E \subseteq DOMAIN body
      BY <1>3
    <3>2. \A j \in h .. E : b[j] = body[j]
      BY <1>1, <1>4, <3>1
    <3>3. h \in Nat /\ h >= 1 /\ E \in Nat /\ E - h \in Nat /\ E <= Len(body)
      BY <1>3
    <3> HIDE DEF h, E
    <3> DEFINE s == SubSeq(body, h, E)
               t == SubSeq(b, h, E)
    <3>4. s \in Seq(Lines) /\ Len(s) = E - h + 1 /\ \A j \in 1 .. E - h + 1 : s[j] = body[h + j - 1]
      BY <1>3, <3>3
    <3>5. t \in Seq(Lines) /\ Len(t) = E - h + 1 /\ \A j \in 1 .. E - h + 1 : t[j] = b[h + j - 1]
      BY <1>1, <1>3, <3>3
    <3> HIDE DEF s, t
    <3>6. ASSUME NEW j \in 1 .. Len(s) PROVE s[j] = t[j]
      <4>1. j \in 1 .. E - h + 1 /\ h + j - 1 \in h .. E
        BY <3>3, <3>4
      <4> QED BY <3>2, <3>4, <3>5, <4>1
    <3>7. s = t
      BY <3>4, <3>5, <3>6, SeqEqual
    <3> QED BY <3>7 DEF s, t
  <2>2. e = c
    BY <2>1 DEF section_text
  <2> QED BY <1>4, <2>2
<1>5. CASE i \in h .. E
  <2> DEFINE n == E - h
             F == [j \in 1 .. n |-> Read(body[h + j].kind, body[h + j].marker, body[h + j])]
             G == [j \in 1 .. n |-> Read(b[h + j].kind, b[h + j].marker, b[h + j])]
             first == Read(body[h].kind, NoMarker, body[h])
  <2>1. n \in Nat /\ h \in DOMAIN b /\ E <= Len(b)
    BY <1>1, <1>3
  <2>2. Spelled(c) = <<first>> \o F
    BY SectionTextReads
  <2>3. Spelled(e) = <<Read(b[h].kind, NoMarker, b[h])>> \o G
    BY <1>1, <2>1, SectionTextReads
  <2>4. b[h] = body[h]
    BY <1>1, <1>2
  <2>5. F \in Seq(Reads) /\ G \in Seq(Reads) /\ <<first>> \in Seq(Reads)
    <3>1. \A line \in Lines : line.kind \in Kinds /\ line.marker \in Seq(STRING)
      BY DEF Lines
    <3>2. \A j \in 1 .. n : h + j \in DOMAIN body
      BY <1>3
    <3>3. \A j \in 1 .. n : body[h + j] \in Lines /\ b[h + j] \in Lines
      BY <1>1, <3>2
    <3>4. \A j \in 1 .. n : /\ Read(body[h + j].kind, body[h + j].marker, body[h + j]) \in Reads
                            /\ Read(b[h + j].kind, b[h + j].marker, b[h + j]) \in Reads
      BY <3>1, <3>3, ReadType
    <3>5. first \in Reads
      <4>1. body[h] \in Lines /\ NoMarker \in Seq(STRING)
        BY LineTyped DEF NoMarker
      <4> QED BY <3>1, <4>1, ReadType
    <3> HIDE DEF n, first
    <3> QED BY <2>1, <3>4, <3>5
  <2>6. F[i - h] # G[i - h] /\ i - h \in 1 .. n
    <3>1. i - h \in 1 .. n /\ h + (i - h) = i
      BY <1>1, <1>2, <1>3, <1>5
    <3>2. F[i - h] = Read(body[i].kind, body[i].marker, body[i]) /\ G[i - h] = Read(b[i].kind, b[i].marker, b[i])
      BY <3>1
    <3> QED BY <1>1, <3>1, <3>2 DEF Read
  <2>7. SUFFICES ASSUME e = c PROVE FALSE
    BY <1>5
  <2> HIDE DEF F, G, first, c, e
  <2>8. <<first>> \o F = <<first>> \o G
    BY <2>2, <2>3, <2>4, <2>7 DEF first
  <2>9. F = G
    BY <2>5, <2>8, ConcatCancel
  <2> QED BY <2>6, <2>9
<1> QED BY <1>4, <1>5

\* The target t is the document X or a section of it that line i is in.
Holds(l, X, i, t) == t.file = X /\ (t.anchor = NoAnchor \/ i \in l.index[t].start .. l.index[t].end)

\* Its content changes if the line is in it.
LEMMA ContentTouched ==
  ASSUME NEW d, build_lattice(d) # NotLoaded, Written(d), NEW X \in DOMAIN d,
         NEW i, NEW b, Retouched(d[X].body, i, b),
         NEW t \in DOMAIN build_lattice(d).index
  PROVE  LET l == build_lattice(d)
             m == build_lattice([d EXCEPT ![X].body = b])
         IN  target_content(m, t) # target_content(l, t) <=> Holds(l, X, i, t)
<1> DEFINE l == build_lattice(d)
           m == build_lattice([d EXCEPT ![X].body = b])
           body == d[t.file].body
           body2 == m.nodes[t.file].body
           at == l.index[t]
<1>1. \A id \in DOMAIN d : d[id].body \in Seq(Lines)
  BY DEF Written
<1>2. Alike(d[X].body, b) /\ b \in Seq(Lines) /\ b[i].text # d[X].body[i].text /\ i \in DOMAIN b
  BY <1>1, RetouchedIsAlike DEF Alike
<1>3. /\ m.index = l.index /\ m.context = l.context
      /\ \A id \in DOMAIN d : m.nodes[id].body = IF id = X THEN b ELSE d[id].body
  <2>1. \A id \in DOMAIN d : /\ m.nodes[id].edges = l.nodes[id].edges
                             /\ m.nodes[id].body = IF id = X THEN b ELSE d[id].body
    BY <1>2, BuiltAgain
  <2>2. m.index = l.index /\ m.context = l.context
    BY <1>2, BuiltAgain
  <2> HIDE DEF l, m
  <2> QED BY <2>1, <2>2
<1>4. CASE t.anchor = NoAnchor
  <2>1. t.file \in DOMAIN d /\ l.nodes[t.file].body = body /\ at.kind = "file"
    BY <1>4, BuiltFile
  <2>2. body \in Seq(Lines)
    BY <1>1, <2>1
  <2>3. target_content(l, t) = Bytes(body) /\ target_content(m, t) = Bytes(body2)
    <3> HIDE DEF l, m
    <3> QED BY <1>3, <2>1 DEF target_content
  <2>4. body2 = IF t.file = X THEN b ELSE body
    BY <1>3, <2>1
  <2> HIDE DEF body, body2, l, m
  <2>5. t.file = X => Bytes(body2) # Bytes(body)
    <3>1. SUFFICES ASSUME t.file = X PROVE Bytes(b) # Bytes(body)
      BY <2>4
    <3>2. i \in 1 .. Len(b) /\ i \in 1 .. Len(body)
      BY <1>2, <2>2, <3>1 DEF Alike, body
    <3>3. Bytes(b)[i].text = b[i].text
      BY <1>2, <3>2, BytesType
    <3>4. Bytes(body)[i].text = body[i].text
      BY <2>2, <3>2, BytesType
    <3> QED BY <1>2, <3>1, <3>3, <3>4 DEF body
  <2>6. Holds(l, X, i, t) <=> t.file = X
    BY <1>4 DEF Holds
  <2>7. target_content(m, t) # target_content(l, t) <=> t.file = X
    BY <2>3, <2>4, <2>5
  <2> QED BY <2>6, <2>7 DEF l, m
<1>5. CASE t.anchor # NoAnchor
  <2> DEFINE sections == derive_file_sections(body)
             toc == build_toc(body)
  <2>1. t.file \in DOMAIN d /\ l.nodes[t.file].body = body /\ at.kind = "section"
    BY <1>5, BuiltSection
  <2>2. PICK k \in DOMAIN sections :
          at.start = sections[k].start /\ at.end = sections[k].end /\ l.context[t] = sections[k].context
    BY <1>5, BuiltSection
  <2>3. body \in Seq(Lines)
    BY <1>1, <2>1
  <2>4. body2 = IF t.file = X THEN b ELSE body
    BY <1>3, <2>1
  <2> HIDE DEF body, body2, l, m
  <2>5. /\ k \in DOMAIN toc /\ at.start = toc[k] /\ at.end = Pass(body, toc)[Len(toc)].end[k]
        /\ l.context[t] = ancestor_chains(body, toc)[k]
    BY <2>2, <2>3, SectionIs
  <2>6. /\ at.start \in DOMAIN body /\ at.end \in Int /\ at.start <= at.end /\ at.end <= Len(body)
    BY <2>3, <2>5, SpanCovers
  <2>7. Heading(body[at.start])
    <3>1. Members(toc) = {j \in DOMAIN body : body[j].kind \in AddressableKinds}
      BY <2>3, NumbersFacts DEF build_toc
    <3>2. toc[k] \in Members(toc)
      BY <2>5 DEF Members
    <3> QED BY <2>5, <3>1, <3>2 DEF Heading, HeadingKinds
  <2>8. /\ target_content(l, t) = Bytes(l.context[t]) \o section_text(body, at)
        /\ target_content(m, t) = Bytes(l.context[t]) \o section_text(body2, at)
    <3>1. at.kind # "file"
      BY <2>1
    <3> HIDE DEF toc
    <3> QED BY <1>3, <2>1, <3>1 DEF target_content, body2
  <2>9. CASE t.file # X
    <3>1. target_content(l, t) = target_content(m, t) /\ ~ Holds(l, X, i, t)
      BY <2>4, <2>8, <2>9 DEF Holds
    <3> QED BY <3>1 DEF l, m
  <2>10. CASE t.file = X
    <3> DEFINE c == section_text(body, at)
               e == section_text(b, at)
               s == Bytes(l.context[t])
    <3>1. e # c <=> i \in at.start .. at.end
      BY <2>3, <2>6, <2>7, <2>10, SectionTextTouched DEF body
    <3>2. s \in Seq(Plain)
      BY <2>3, <2>5, ContextReads, BytesType
    <3>3. c \in Seq(Plain)
      BY <2>3, <2>6, SectionTextReads
    <3>4. e \in Seq(Plain)
      <4>1. at.start \in DOMAIN b /\ at.end <= Len(b)
        BY <1>2, <2>6, <2>10 DEF Alike, body
      <4> QED BY <1>2, <2>6, <4>1, SectionTextReads
    <3>5. target_content(l, t) = s \o c /\ target_content(m, t) = s \o e
      BY <2>4, <2>8, <2>10
    <3> HIDE DEF s, c, e
    <3>6. s \o c = s \o e <=> c = e
      BY <3>2, <3>3, <3>4, ConcatCancel
    <3>7. Holds(l, X, i, t) <=> i \in at.start .. at.end
      BY <1>5, <2>10 DEF Holds
    <3> HIDE DEF at
    <3> QED BY <3>1, <3>5, <3>6, <3>7 DEF l, m
  <2> QED BY <2>9, <2>10 DEF l, m
<1> QED BY <1>4, <1>5

-----------------------------------------------------------------------------
(* The sections that enclose one.                                            *)

\* Section j ends no earlier than any from j to k.
Lasts(s, j, k) == \A m \in j + 1 .. k : s[j].end >= s[m].end
Lasting(s, k) == {j \in 1 .. k : Lasts(s, j, k)}

NoEarlier(s, k) == {j \in DOMAIN s : s[j].end >= s[k].end}

EnclosureOf(s, f) ==
  f = [k \in 0 .. Len(s) |-> IF k = 0 THEN <<>> ELSE Append(Kept(f[k - 1], NoEarlier(s, k)), k)]
Enclosure(s) == CHOOSE f : EnclosureOf(s, f)

LEMMA AncestorsUnfolded ==
  ASSUME NEW s
  PROVE  _record_ancestors(s) =
           [k \in DOMAIN s |-> {s[j].anchor : j \in {Enclosure(s)[k][i] : i \in 1 .. Len(Enclosure(s)[k]) - 1}}]
  BY DEF _record_ancestors, Enclosure, EnclosureOf, NoEarlier

LEMMA EnclosureExists ==
  ASSUME NEW V, NEW s \in Seq(V)
  PROVE  \E f : EnclosureOf(s, f)
<1> DEFINE N == Len(s)
           T == Seq(Nat)
           step == [x \in (1 .. N) \X T |-> Append(Kept(x[2], NoEarlier(s, x[1])), x[1])]
<1>1. \A q \in T : \A S : Kept(q, S) \in T
  BY KeptMembers
<1>2. step \in [(1 .. N) \X T -> T]
  BY <1>1
<1>3. \A n \in 1 .. N, q \in T : step[<<n, q>>] = Append(Kept(q, NoEarlier(s, n)), n)
  OBVIOUS
<1>4. <<>> \in T /\ N \in Nat
  OBVIOUS
<1> HIDE DEF step, T, N
<1>5. PICK f : Trace(T, <<>>, step, N, f)
  BY <1>2, <1>4, Iterated
<1>6. f \in [0 .. N -> T] /\ f[0] = <<>>
  BY <1>5 DEF Trace
<1>7. ASSUME NEW n \in 1 .. N PROVE f[n] = Append(Kept(f[n - 1], NoEarlier(s, n)), n)
  <2>1. f[n - 1] \in T
    <3>1. n - 1 \in 0 .. N
      BY <1>4
    <3> QED BY <3>1, <1>6
  <2>2. f[n] = step[<<n, f[n - 1]>>]
    BY <1>5 DEF Trace
  <2> QED BY <2>1, <2>2, <1>3, Zenon
<1>8. \A n \in 0 .. N : f[n] = IF n = 0 THEN <<>> ELSE Append(Kept(f[n - 1], NoEarlier(s, n)), n)
  <2> TAKE n \in 0 .. N
  <2>1. n = 0 \/ n \in 1 .. N
    BY <1>4
  <2> QED BY <2>1, <1>6, <1>7
<1> QED BY <1>6, <1>8 DEF EnclosureOf, N

\* The stack holds the sections that end no earlier than those that came after them.
LEMMA EnclosureHolds ==
  ASSUME NEW V, NEW s \in Seq(V), \A j \in DOMAIN s : s[j].end \in Int
  PROVE  /\ \A k \in 0 .. Len(s) : Enclosure(s)[k] \in Seq(Nat) /\ Members(Enclosure(s)[k]) = Lasting(s, k)
         /\ \A k \in 1 .. Len(s) :
              Enclosure(s)[k] = Append(Kept(Enclosure(s)[k - 1], NoEarlier(s, k)), k)
<1> DEFINE N == Len(s)
           f == Enclosure(s)
           P == {k \in 0 .. N : f[k] \in Seq(Nat) /\ Members(f[k]) = Lasting(s, k)}
<1>1. EnclosureOf(s, f)
  BY EnclosureExists DEF Enclosure
<1>2. N \in Nat /\ DOMAIN s = 1 .. N
  OBVIOUS
<1> HIDE DEF f
<1>3. \A n \in 0 .. N : f[n] = IF n = 0 THEN <<>> ELSE Append(Kept(f[n - 1], NoEarlier(s, n)), n)
  BY <1>1 DEF EnclosureOf
<1> HIDE DEF N
<1>4. 0 \in 0 .. N
  BY <1>2
<1>5. f[0] = <<>>
  BY <1>3, <1>4, Zenon
<1>6. ASSUME NEW n \in 1 .. N PROVE f[n] = Append(Kept(f[n - 1], NoEarlier(s, n)), n)
  <2>1. n \in 0 .. N /\ n # 0
    BY <1>2
  <2> QED BY <2>1, <1>3, Zenon
<1>7. 0 \in P
  <2>1. <<>> \in Seq(Nat) /\ Members(<<>>) = {} /\ Lasting(s, 0) = {}
    BY DEF Members, Lasting
  <2> QED BY <2>1, <1>4, <1>5
<1>8. ASSUME NEW k \in 1 .. N, k - 1 \in P PROVE k \in P
  <2> DEFINE q == Kept(f[k - 1], NoEarlier(s, k))
  <2>1. k \in 0 .. N /\ k \in Nat /\ k \in DOMAIN s
    BY <1>2
  <2>2. f[k - 1] \in Seq(Nat) /\ Members(f[k - 1]) = Lasting(s, k - 1)
    BY <1>8
  <2>3. q \in Seq(Nat) /\ Members(q) = Lasting(s, k - 1) \cap NoEarlier(s, k)
    BY <2>2, KeptMembers
  <2> HIDE DEF q, P
  <2>4. f[k] = Append(q, k)
    BY <1>6 DEF q
  <2>5. f[k] \in Seq(Nat) /\ Members(f[k]) = (Lasting(s, k - 1) \cap NoEarlier(s, k)) \cup {k}
    BY <2>1, <2>3, <2>4, AppendMembers
  <2>6. \A j \in 1 .. k - 1 : Lasts(s, j, k) <=> (Lasts(s, j, k - 1) /\ s[j].end >= s[k].end)
    <3> TAKE j \in 1 .. k - 1
    <3>1. j + 1 .. k = (j + 1 .. k - 1) \cup {k}
      BY <2>1
    <3> QED BY <3>1 DEF Lasts
  <2>7. Lasts(s, k, k)
    BY <2>1 DEF Lasts
  <2>8. 1 .. k = (1 .. k - 1) \cup {k} /\ \A j \in 1 .. k - 1 : j \in DOMAIN s
    BY <1>2, <2>1
  <2>9. Lasting(s, k) = (Lasting(s, k - 1) \cap NoEarlier(s, k)) \cup {k}
    BY <2>6, <2>7, <2>8 DEF Lasting, NoEarlier
  <2> QED BY <2>1, <2>5, <2>9 DEF P
<1>9. P = 0 .. N
  <2> HIDE DEF P
  <2>1. P \in SUBSET (0 .. N)
    BY DEF P
  <2> QED BY <2>1, <1>2, <1>7, <1>8, UpTo
<1>10. \A k \in 0 .. N : f[k] \in Seq(Nat) /\ Members(f[k]) = Lasting(s, k)
  BY <1>9
<1> QED BY <1>6, <1>10 DEF N, f

\* The recorded ancestors of a section are those that still last when it ends.
LEMMA AncestorsLast ==
  ASSUME NEW V, NEW s \in Seq(V), \A j \in DOMAIN s : s[j].end \in Int, NEW k \in DOMAIN s
  PROVE  _record_ancestors(s)[k] = {s[j].anchor : j \in Lasting(s, k) \ {k}}
<1> DEFINE f == Enclosure(s)
           q == Kept(f[k - 1], NoEarlier(s, k))
           front == {f[k][i] : i \in 1 .. Len(f[k]) - 1}
<1>1. k \in 1 .. Len(s) /\ k - 1 \in 0 .. Len(s) /\ k \in 0 .. Len(s) /\ Len(s) \in Nat
  OBVIOUS
<1>2. f[k] = Append(q, k) /\ f[k - 1] \in Seq(Nat) /\ Members(f[k - 1]) = Lasting(s, k - 1)
  BY <1>1, EnclosureHolds
<1>3. Members(f[k]) = Lasting(s, k)
  BY <1>1, EnclosureHolds
<1>4. _record_ancestors(s)[k] = {s[j].anchor : j \in front}
  BY AncestorsUnfolded
<1> HIDE DEF f
<1>5. q \in Seq(Nat) /\ Members(q) \subseteq Lasting(s, k - 1)
  BY <1>2, KeptMembers
<1> HIDE DEF q
<1>6. Len(f[k]) - 1 = Len(q) /\ \A i \in 1 .. Len(q) : f[k][i] = q[i]
  BY <1>1, <1>2, <1>5
<1>7. front = Members(q)
  <2>1. DOMAIN q = 1 .. Len(q)
    BY <1>5
  <2> QED BY <1>6, <2>1 DEF Members
<1>8. Members(f[k]) = Members(q) \cup {k}
  <2>1. k \in Nat /\ f[k] = Append(q, k)
    BY <1>1, <1>2 DEF q
  <2> QED BY <1>5, <2>1, AppendMembers
<1>9. k \notin Members(q)
  BY <1>1, <1>5 DEF Lasting
<1>10. front = Lasting(s, k) \ {k}
  BY <1>3, <1>7, <1>8, <1>9
<1> HIDE DEF front
<1> QED BY <1>4, <1>10

\* What covers what covers a line covers it.
LEMMA CoversCovers ==
  ASSUME NEW body \in Seq(Lines), NEW g \in DOMAIN body, NEW h \in DOMAIN body, NEW i \in DOMAIN body,
         Addressable(body[h]), g < h, Covers(body, g, h), Covers(body, h, i)
  PROVE  Covers(body, g, i)
<1>1. body[g].level \in Nat /\ body[h].level \in Nat /\ \A j \in DOMAIN body : body[j].level \in Nat
  BY LineTyped
<1>2. g <= i /\ h <= i
  BY DEF Covers
<1>3. body[h].level > body[g].level
  BY DEF Covers
<1>4. ASSUME NEW j \in g + 1 .. i, Addressable(body[j]) PROVE body[j].level > body[g].level
  <2>1. j \in DOMAIN body
    BY <1>2
  <2>2. CASE j <= h
    <3>1. j \in g + 1 .. h
      BY <2>2
    <3> QED BY <1>4, <3>1 DEF Covers
  <2>3. CASE j > h
    <3>1. j \in h + 1 .. i
      BY <2>3
    <3>2. body[j].level > body[h].level
      BY <1>4, <3>1 DEF Covers
    <3> QED BY <1>1, <1>3, <2>1, <3>2
  <2> QED BY <2>1, <2>2, <2>3
<1> QED BY <1>2, <1>4 DEF Covers

\* What a section is, in one place.
LEMMA SectionFacts ==
  ASSUME NEW body \in Seq(Lines)
  PROVE  LET s == derive_file_sections(body)
         IN  /\ \E V : s \in Seq(V)
             /\ \A k \in DOMAIN s :
                  /\ s[k].start \in DOMAIN body /\ Addressable(body[s[k].start])
                  /\ s[k].end \in DOMAIN body /\ s[k].start <= s[k].end
                  /\ \A i \in DOMAIN body : Covers(body, s[k].start, i) <=> i \in s[k].start .. s[k].end
             /\ \A j, k \in DOMAIN s : j < k <=> s[j].start < s[k].start
<1> DEFINE s == derive_file_sections(body)
           toc == build_toc(body)
           N == Len(toc)
           E(k) == Pass(body, toc)[N].end[k]
<1>1. toc \in Seq(Nat) /\ Increasing(toc) /\ Members(toc) = {i \in DOMAIN body : Addressable(body[i])}
  BY NumbersFacts DEF build_toc, Addressable
<1>2. DOMAIN s = DOMAIN toc /\ s = [k \in 1 .. N |-> s[k]]
  BY SectionIs
<1>3. \A k \in DOMAIN toc : s[k].start = toc[k] /\ s[k].end = E(k)
  BY SectionIs
<1>4. ASSUME NEW k \in DOMAIN toc
      PROVE  /\ toc[k] \in DOMAIN body /\ E(k) \in Int /\ toc[k] <= E(k) /\ E(k) <= Len(body)
             /\ \A i \in DOMAIN body : i >= toc[k] => (Covers(body, toc[k], i) <=> i <= E(k))
  BY SpanCovers
<1> HIDE DEF toc, s, E, N
<1>5. N \in Nat /\ DOMAIN toc = 1 .. N
  BY <1>1 DEF N
<1>6. s \in Seq({s[k] : k \in 1 .. N})
  BY <1>2, <1>5
<1>7. ASSUME NEW k \in DOMAIN s
      PROVE  /\ s[k].start \in DOMAIN body /\ Addressable(body[s[k].start])
             /\ s[k].end \in DOMAIN body /\ s[k].start <= s[k].end
             /\ \A i \in DOMAIN body : Covers(body, s[k].start, i) <=> i \in s[k].start .. s[k].end
  <2>1. k \in DOMAIN toc /\ s[k].start = toc[k] /\ s[k].end = E(k)
    BY <1>2, <1>3
  <2>2. toc[k] \in DOMAIN body /\ E(k) \in Int /\ toc[k] <= E(k) /\ E(k) <= Len(body)
    BY <1>4, <2>1
  <2>3. \A i \in DOMAIN body : i >= toc[k] => (Covers(body, toc[k], i) <=> i <= E(k))
    BY <1>4, <2>1
  <2>4. Addressable(body[toc[k]])
    <3>1. toc[k] \in Members(toc)
      BY <2>1 DEF Members
    <3> QED BY <1>1, <3>1
  <2>5. E(k) \in DOMAIN body
    BY <2>2
  <2>6. ASSUME NEW i \in DOMAIN body PROVE Covers(body, toc[k], i) <=> i \in toc[k] .. E(k)
    <3>1. CASE i >= toc[k]
      BY <2>2, <2>3, <3>1
    <3>2. CASE ~ (i >= toc[k])
      BY <2>2, <3>2 DEF Covers
    <3> QED BY <3>1, <3>2
  <2> QED BY <2>1, <2>2, <2>4, <2>5, <2>6
<1>8. ASSUME NEW j \in DOMAIN s, NEW k \in DOMAIN s PROVE j < k <=> s[j].start < s[k].start
  <2>1. j \in DOMAIN toc /\ k \in DOMAIN toc
    BY <1>2
  <2>2. j < k <=> toc[j] < toc[k]
    BY <1>1, <2>1, IncreasingOrder
  <2> QED BY <1>3, <2>1, <2>2
<1> QED BY <1>6, <1>7, <1>8 DEF s

\* The sections that a line is in are the innermost one of it and those that enclose that.
LEMMA AroundLine ==
  ASSUME NEW body \in Seq(Lines), NEW i \in DOMAIN body,
         NEW k \in DOMAIN derive_file_sections(body), NEW j \in DOMAIN derive_file_sections(body),
         LET h == derive_file_sections(body)[k].start
         IN  /\ Covers(body, h, i)
             /\ \A n \in h + 1 .. i : ~ (Addressable(body[n]) /\ Covers(body, n, i))
  PROVE  LET s == derive_file_sections(body)
         IN  i \in s[j].start .. s[j].end <=> j \in Lasting(s, k)
<1> DEFINE s == derive_file_sections(body)
<1>1. PICK V : s \in Seq(V)
  BY SectionFacts
<1>2. \A n \in DOMAIN s :
        /\ s[n].start \in DOMAIN body /\ Addressable(body[s[n].start])
        /\ s[n].end \in DOMAIN body /\ s[n].start <= s[n].end
  BY SectionFacts
<1>3. \A n \in DOMAIN s : \A x \in DOMAIN body : Covers(body, s[n].start, x) <=> x \in s[n].start .. s[n].end
  BY SectionFacts
<1>4. \A m, n \in DOMAIN s : m < n <=> s[m].start < s[n].start
  BY SectionFacts
<1>5. Covers(body, s[k].start, i) /\ \A n \in s[k].start + 1 .. i : ~ (Addressable(body[n]) /\ Covers(body, n, i))
  OBVIOUS
<1> HIDE DEF s
<1>6. j \in DOMAIN s /\ k \in DOMAIN s /\ DOMAIN s = 1 .. Len(s) /\ Len(s) \in Nat
  BY <1>1 DEF s
<1>7. i \in s[k].start .. s[k].end /\ \A n \in DOMAIN body : n \in Int
  BY <1>3, <1>5, <1>6
<1>8. ASSUME i \in s[j].start .. s[j].end PROVE j \in Lasting(s, k)
  <2>1. Covers(body, s[j].start, i)
    BY <1>3, <1>6, <1>8
  <2>2. j <= k
    <3>1. SUFFICES ASSUME k < j PROVE FALSE
      BY <1>6
    <3>2. s[k].start < s[j].start
      BY <1>4, <1>6, <3>1
    <3>3. s[j].start \in s[k].start + 1 .. i
      BY <1>2, <1>6, <1>8, <3>2
    <3> QED BY <1>2, <1>5, <1>6, <2>1, <3>3
  <2>3. ASSUME NEW m \in j + 1 .. k PROVE s[j].end >= s[m].end
    <3>1. m \in DOMAIN s /\ j < m /\ m <= k
      BY <1>6
    <3>2. s[j].start < s[m].start
      BY <1>4, <1>6, <3>1
    <3>3. s[m].start <= s[k].start
      <4>1. CASE m = k
        BY <1>2, <1>6, <4>1
      <4>2. CASE m < k
        BY <1>2, <1>4, <1>6, <3>1, <4>2
      <4> QED BY <3>1, <4>1, <4>2, <1>6
    <3>4. s[m].start \in s[j].start .. s[j].end
      BY <1>2, <1>6, <1>7, <1>8, <3>1, <3>2, <3>3
    <3>5. Covers(body, s[j].start, s[m].start)
      BY <1>2, <1>3, <1>6, <3>1, <3>4
    <3>6. s[m].end \in s[m].start .. s[m].end
      BY <1>2, <3>1
    <3>7. Covers(body, s[m].start, s[m].end)
      BY <1>2, <1>3, <3>1, <3>6
    <3>8. Covers(body, s[j].start, s[m].end)
      BY <1>2, <1>6, <3>1, <3>2, <3>5, <3>7, CoversCovers
    <3>9. s[m].end \in s[j].start .. s[j].end
      BY <1>2, <1>3, <1>6, <3>1, <3>8
    <3> QED BY <1>2, <1>6, <3>1, <3>9
  <2> QED BY <1>6, <2>2, <2>3 DEF Lasting, Lasts
<1>9. ASSUME j \in Lasting(s, k) PROVE i \in s[j].start .. s[j].end
  <2>1. CASE j = k
    BY <1>7, <2>1
  <2>2. CASE j # k
    <3>1. j < k /\ k \in j + 1 .. k /\ Lasts(s, j, k)
      BY <1>6, <1>9, <2>2 DEF Lasting
    <3>2. s[j].end >= s[k].end
      BY <3>1 DEF Lasts
    <3>3. s[j].start < s[k].start
      BY <1>4, <1>6, <3>1
    <3> QED BY <1>2, <1>6, <1>7, <3>2, <3>3
  <2> QED BY <2>1, <2>2
<1> QED BY <1>8, <1>9 DEF s

\* A section target is that of one section, and has its place and the sections around it.
LEMMA BuiltAnchor ==
  ASSUME NEW d, build_lattice(d) # NotLoaded, Written(d),
         NEW t \in DOMAIN build_lattice(d).index, t.anchor # NoAnchor
  PROVE  LET l == build_lattice(d)
             s == derive_file_sections(d[t.file].body)
             k == Number(FileSections(d), t)
         IN  /\ t.file \in DOMAIN d /\ k \in DOMAIN s /\ t = SectionTarget(t.file, s[k].anchor)
             /\ l.index[t].start = s[k].start /\ l.index[t].end = s[k].end
             /\ l.ancestors[t] = {SectionTarget(t.file, a) : a \in _record_ancestors(s)[k]}
<1> DEFINE sections == FileSections(d)
           anchored == Anchored(sections)
           index == Index(d, sections)
           edges == [x \in DOMAIN d |-> _resolve_edges(d[x].entries, index)]
           l == assemble(d, sections, index, anchored, edges)
           s == derive_file_sections(d[t.file].body)
           k == Number(sections, t)
           encloses == [id \in DOMAIN d |-> Listed(_record_ancestors(sections[id]))]
<1>1. build_lattice(d) = l
  BY DEF build_lattice, Loaded, Assembled
<1>2. /\ l.index = index
      /\ l.ancestors = [x \in anchored |-> {SectionTarget(x.file, a) : a \in encloses[x.file][Number(sections, x)]}]
  BY DEF assemble
<1>3. DOMAIN sections = DOMAIN d /\ \A x \in DOMAIN d : sections[x] = derive_file_sections(d[x].body)
  BY DEF FileSections
<1>4. t \in Files(d) \cup anchored /\ t.file \in DOMAIN d
  <2> HIDE DEF sections
  <2>1. DOMAIN Index(d, sections) = Files(d) \cup Anchored(sections)
        /\ \A x \in Files(d) \cup Anchored(sections) : x.file \in DOMAIN d
    BY <1>3, IndexFacts
  <2> QED BY <1>1, <1>2, <2>1
<1>5. t \notin Files(d)
  BY TargetFacts DEF Files, FileTarget
<1>6. sections[t.file] = s
  BY <1>3, <1>4
<1> HIDE DEF sections, s
<1>7. k \in DOMAIN s /\ t = SectionTarget(t.file, s[k].anchor)
  <2>1. PICK x \in UNION {{id} \X DOMAIN sections[id] : id \in DOMAIN sections} :
          t = SectionTarget(x[1], sections[x[1]][x[2]].anchor)
    BY <1>4, <1>5 DEF Anchored
  <2>2. t.file = x[1] /\ t = SectionTarget(t.file, sections[x[1]][x[2]].anchor)
    BY <2>1, TargetFacts
  <2>3. x[2] \in DOMAIN sections[x[1]]
    <3>1. PICK id \in DOMAIN sections : x \in {id} \X DOMAIN sections[id]
      OBVIOUS
    <3> QED BY <3>1
  <2> QED BY <1>6, <2>2, <2>3 DEF Number
<1>8. index[t].start = s[k].start /\ index[t].end = s[k].end
  BY <1>4, <1>5, <1>6 DEF Index, At
<1> HIDE DEF k
<1>9. encloses[t.file] = _record_ancestors(s)
  <2>1. d[t.file].body \in Seq(Lines)
    BY <1>4 DEF Written
  <2>2. PICK V : s \in Seq(V)
    BY <2>1, SectionFacts DEF s
  <2>3. DOMAIN s = 1 .. Len(s) /\ Len(s) \in Nat
    BY <2>2
  <2> DEFINE r == _record_ancestors(s)
  <2>4. r = [n \in 1 .. Len(s) |-> r[n]]
    BY <2>3, AncestorsUnfolded
  <2> HIDE DEF r
  <2>5. Listed(r) = r
    BY <2>3, <2>4, ListedFunction
  <2> QED BY <1>4, <1>6, <2>5 DEF r
<1> HIDE DEF index, edges, anchored, encloses
<1>10. l.ancestors[t] = {SectionTarget(t.file, a) : a \in _record_ancestors(s)[k]}
  <2> HIDE DEF l
  <2>1. t \in anchored
    BY <1>4, <1>5
  <2>2. l.ancestors[t] = {SectionTarget(t.file, a) : a \in encloses[t.file][Number(sections, t)]}
    BY <1>2, <2>1
  <2> QED BY <2>2, <1>9 DEF k
<1> HIDE DEF l
<1> QED BY <1>1, <1>2, <1>4, <1>7, <1>8, <1>10 DEF s, k, sections

\* The target of a section has the number of the section.
LEMMA BuiltPlace ==
  ASSUME NEW d, build_lattice(d) # NotLoaded, NEW X \in DOMAIN d,
         NEW j \in DOMAIN derive_file_sections(d[X].body)
  PROVE  LET x == SectionTarget(X, derive_file_sections(d[X].body)[j].anchor)
         IN  x \in DOMAIN build_lattice(d).index /\ Number(FileSections(d), x) = j
<1> DEFINE sections == FileSections(d)
           index == Index(d, sections)
           edges == [y \in DOMAIN d |-> _resolve_edges(d[y].entries, index)]
           l == assemble(d, sections, index, Anchored(sections), edges)
           s == derive_file_sections(d[X].body)
           x == SectionTarget(X, s[j].anchor)
<1>1. _register(sections) /\ build_lattice(d) = l /\ l.index = index
  BY DEF build_lattice, Loaded, Assembled, assemble
<1>2. DOMAIN sections = DOMAIN d /\ sections[X] = s /\ j \in DOMAIN s
  BY DEF FileSections
<1> HIDE DEF sections, s
<1>3. x \in Anchored(sections)
  <2>1. <<X, j>> \in UNION {{id} \X DOMAIN sections[id] : id \in DOMAIN sections}
    BY <1>2
  <2>2. x = SectionTarget(<<X, j>>[1], sections[<<X, j>>[1]][<<X, j>>[2]].anchor)
    BY <1>2
  <2> HIDE DEF x
  <2> QED BY <2>1, <2>2 DEF Anchored
<1>4. x \in DOMAIN index
  BY <1>3 DEF Index
<1>5. ASSUME NEW k \in DOMAIN s, SectionTarget(X, s[k].anchor) = x PROVE k = j
  <2>1. <<s[k].anchor>> = <<s[j].anchor>>
    BY <1>5, TargetFacts
  <2>2. s[k].anchor = s[j].anchor
    BY <2>1
  <2> QED BY <1>1, <1>2, <2>2 DEF _register
<1>6. x.file = X
  BY TargetFacts
<1>7. Number(sections, x) = j
  <2> HIDE DEF x
  <2>1. x = SectionTarget(X, s[j].anchor)
    BY DEF x
  <2> QED BY <1>2, <1>5, <1>6, <2>1 DEF Number
<1> HIDE DEF l, index, edges, x
<1> QED BY <1>1, <1>4, <1>7 DEF x, s, sections

\* What the lattice has of the anchors of a document are section targets.
LEMMA AnchorsGiven ==
  ASSUME NEW d, build_lattice(d) # NotLoaded, NEW X \in DOMAIN d, NEW t \in build_lattice(d).anchors[X]
  PROVE  t \in DOMAIN build_lattice(d).index /\ t.file = X /\ t.anchor # NoAnchor
<1> DEFINE sections == FileSections(d)
           index == Index(d, sections)
           edges == [y \in DOMAIN d |-> _resolve_edges(d[y].entries, index)]
           l == assemble(d, sections, index, Anchored(sections), edges)
<1>1. build_lattice(d) = l /\ l.index = index
  BY DEF build_lattice, Loaded, Assembled, assemble
<1>2. l.anchors = [id \in DOMAIN d |-> {y \in Anchored(sections) : y.file = id}]
  BY DEF assemble
<1> HIDE DEF sections
<1>3. t \in Anchored(sections) /\ t.file = X
  <2> HIDE DEF l
  <2> QED BY <1>1, <1>2
<1>4. t \in DOMAIN index
  BY <1>3 DEF Index
<1>5. t.anchor # NoAnchor
  <2>1. PICK x \in UNION {{id} \X DOMAIN sections[id] : id \in DOMAIN sections} :
          t = SectionTarget(x[1], sections[x[1]][x[2]].anchor)
    BY <1>3 DEF Anchored
  <2> DEFINE a == sections[x[1]][x[2]].anchor
  <2>2. t.anchor = <<a>>
    BY <2>1, TargetFacts
  <2> HIDE DEF a
  <2>3. <<a>> # <<>>
    OBVIOUS
  <2> QED BY <2>2, <2>3 DEF NoAnchor
<1> QED BY <1>1, <1>3, <1>4, <1>5

\* An innermost section of a line.
Inner(l, X, body, i, t) ==
  /\ t \in l.anchors[X] /\ Covers(body, Holder(l, t), i)
  /\ \A n \in Holder(l, t) + 1 .. i : ~ (Addressable(body[n]) /\ Covers(body, n, i))

\* What it is expanded to is all that the line is in.
LEMMA ExpansionHolds ==
  ASSUME NEW d, build_lattice(d) # NotLoaded, Written(d), NEW X \in DOMAIN d,
         NEW i \in DOMAIN d[X].body, NEW t, Inner(build_lattice(d), X, d[X].body, i, t)
  PROVE  LET l == build_lattice(d)
         IN  expand_targets(l, t) = {x \in DOMAIN l.index : Holds(l, X, i, x)}
<1> DEFINE l == build_lattice(d)
           body == d[X].body
           s == derive_file_sections(body)
           number(x) == Number(FileSections(d), x)
           k == number(t)
<1>1. body \in Seq(Lines) /\ i \in DOMAIN body
  BY DEF Written
<1>2. t \in DOMAIN l.index /\ t.file = X /\ t.anchor # NoAnchor
  BY AnchorsGiven DEF Inner
<1>3. Coherent(l, d)
  BY BuiltIsCoherent
<1>4. ASSUME NEW x \in DOMAIN l.index, x.file = X, x.anchor # NoAnchor
      PROVE  /\ number(x) \in DOMAIN s /\ x = SectionTarget(X, s[number(x)].anchor)
             /\ l.index[x].start = s[number(x)].start /\ l.index[x].end = s[number(x)].end
             /\ l.ancestors[x] = {SectionTarget(X, a) : a \in _record_ancestors(s)[number(x)]}
  BY <1>4, BuiltAnchor
<1>5. ASSUME NEW j \in DOMAIN s
      PROVE  SectionTarget(X, s[j].anchor) \in DOMAIN l.index /\ number(SectionTarget(X, s[j].anchor)) = j
  BY BuiltPlace
<1>6. /\ \E V : s \in Seq(V)
      /\ \A n \in DOMAIN s : s[n].end \in DOMAIN body
  BY <1>1, SectionFacts
<1>7. PICK V : s \in Seq(V)
  BY <1>6
<1>8. k \in DOMAIN s /\ t = SectionTarget(X, s[k].anchor) /\ Holder(l, t) = s[k].start
  BY <1>2, <1>4 DEF Holder
<1>9. ASSUME NEW j \in DOMAIN s PROVE i \in s[j].start .. s[j].end <=> j \in Lasting(s, k)
  <2>1. /\ Covers(body, s[k].start, i)
        /\ \A n \in s[k].start + 1 .. i : ~ (Addressable(body[n]) /\ Covers(body, n, i))
    BY <1>8 DEF Inner
  <2>2. k \in DOMAIN derive_file_sections(body) /\ j \in DOMAIN derive_file_sections(body)
    BY <1>8
  <2> HIDE DEF body, k
  <2> QED BY <1>1, <2>1, <2>2, AroundLine
<1>10. l.ancestors[t] = {SectionTarget(X, s[j].anchor) : j \in Lasting(s, k) \ {k}}
  <2>1. l.ancestors[t] = {SectionTarget(X, a) : a \in _record_ancestors(s)[k]}
    BY <1>2, <1>4
  <2> HIDE DEF s, k, l, body
  <2>2. \A j \in DOMAIN s : s[j].end \in Int
    BY <1>1, <1>6
  <2>3. _record_ancestors(s)[k] = {s[j].anchor : j \in Lasting(s, k) \ {k}}
    BY <1>7, <1>8, <2>2, AncestorsLast
  <2> QED BY <2>1, <2>3
<1>11. expand_targets(l, t) = {t, FileTarget(X)} \cup l.ancestors[t]
  BY <1>2 DEF expand_targets
<1>12. Lasting(s, k) \subseteq DOMAIN s /\ k \in Lasting(s, k)
  <2> HIDE DEF s, k
  <2>1. DOMAIN s = 1 .. Len(s) /\ Len(s) \in Nat
    BY <1>7
  <2> QED BY <1>8, <2>1 DEF Lasting, Lasts
<1> HIDE DEF l, s, k, number, body
<1>13. ASSUME NEW j \in Lasting(s, k)
       PROVE  SectionTarget(X, s[j].anchor) \in DOMAIN l.index /\ Holds(l, X, i, SectionTarget(X, s[j].anchor))
  <2> DEFINE x == SectionTarget(X, s[j].anchor)
  <2>1. x \in DOMAIN l.index /\ number(x) = j /\ j \in DOMAIN s
    BY <1>5, <1>12
  <2>2. x.file = X /\ x.anchor # NoAnchor
    <3> DEFINE a == s[j].anchor
    <3>1. x.file = X /\ x.anchor = <<a>>
      BY TargetFacts
    <3> HIDE DEF a, x
    <3>2. <<a>> # <<>>
      OBVIOUS
    <3> QED BY <3>1, <3>2 DEF NoAnchor
  <2> HIDE DEF x
  <2>3. l.index[x].start = s[j].start /\ l.index[x].end = s[j].end
    BY <1>4, <2>1, <2>2
  <2>4. i \in s[j].start .. s[j].end
    BY <1>9, <2>1
  <2>5. Holds(l, X, i, x)
    BY <2>2, <2>3, <2>4 DEF Holds
  <2> QED BY <2>1, <2>5 DEF x
<1>14. FileTarget(X) \in DOMAIN l.index /\ Holds(l, X, i, FileTarget(X))
  <2>1. FileTarget(X).file = X /\ FileTarget(X).anchor = NoAnchor
    BY TargetFacts DEF FileTarget
  <2> QED BY <1>3, <2>1 DEF Coherent, Holds
<1>15. ASSUME NEW x \in expand_targets(l, t) PROVE x \in DOMAIN l.index /\ Holds(l, X, i, x)
  <2>1. CASE x = FileTarget(X)
    BY <1>14, <2>1
  <2>2. CASE x # FileTarget(X)
    <3>1. \E j \in Lasting(s, k) : x = SectionTarget(X, s[j].anchor)
      BY <1>8, <1>10, <1>11, <1>12, <1>15, <2>2
    <3> QED BY <1>13, <3>1
  <2> QED BY <2>1, <2>2
<1>16. ASSUME NEW x \in DOMAIN l.index, Holds(l, X, i, x) PROVE x \in expand_targets(l, t)
  <2>1. x.file = X
    BY <1>16 DEF Holds
  <2>2. CASE x.anchor = NoAnchor
    <3>1. x \in {FileTarget(X)} \cup l.anchors[X]
      BY <1>3, <2>1 DEF Coherent
    <3>2. x \notin l.anchors[X]
      BY <2>2, AnchorsGiven DEF l
    <3> QED BY <1>11, <3>1, <3>2
  <2>3. CASE x.anchor # NoAnchor
    <3>1. /\ number(x) \in DOMAIN s /\ x = SectionTarget(X, s[number(x)].anchor)
          /\ l.index[x].start = s[number(x)].start /\ l.index[x].end = s[number(x)].end
      BY <1>4, <2>1, <2>3
    <3>2. i \in s[number(x)].start .. s[number(x)].end
      BY <1>16, <2>3, <3>1 DEF Holds
    <3>3. number(x) \in Lasting(s, k)
      BY <1>9, <3>1, <3>2
    <3>4. CASE number(x) = k
      BY <1>8, <1>11, <3>1, <3>4
    <3>5. CASE number(x) # k
      BY <1>10, <1>11, <3>1, <3>3, <3>5
    <3> QED BY <3>4, <3>5
  <2> QED BY <2>2, <2>3
<1>17. expand_targets(l, t) = {x \in DOMAIN l.index : Holds(l, X, i, x)}
  BY <1>15, <1>16
<1> QED BY <1>17 DEF l

\* What has an edge into the expansion of a target is in its forward audit.
LEMMA AuditedForward ==
  ASSUME NEW l, NEW d, Coherent(l, d), IsFiniteSet(DOMAIN d),
         NEW t, expand_targets(l, t) \in SUBSET DOMAIN l.index,
         NEW id \in DOMAIN d, NEW x \in DOMAIN l.nodes[id].edges, x \in expand_targets(l, t)
  PROVE  id \in DOMAIN build_from_trigger(l, t) /\ x \in build_from_trigger(l, t)[id]
<1> DEFINE N == Cardinality(DOMAIN l.nodes)
           affected == DOMAIN impact(l, t, NoLimit)
           closure == expand_targets(l, t) \cup Whole(l, affected)
           edges == {e \in EdgesOf(l) : e[1] \in affected /\ e[2] \in closure}
<1>1. DOMAIN l.nodes = DOMAIN d
  BY DEF Coherent
<1>2. N \in Nat /\ N >= 1
  <2>1. IsFiniteSet(DOMAIN l.nodes) /\ DOMAIN l.nodes # {}
    BY <1>1
  <2>2. N \in Nat /\ N # 0
    BY <2>1, FS_CardinalityType, FS_EmptySet
  <2> QED BY <2>2
<1>3. PICK w : Walks(l, t, w) /\ impact(l, t, NoLimit) = w[N].affected
  BY <1>2, ImpactWalks
<1>4. /\ w[0] = [targets |-> expand_targets(l, t), affected |-> <<>>]
      /\ \A n \in 1 .. N : w[n] = Hop(l, w[n - 1], n)
  BY <1>2, <1>3, WalksSteps
<1> HIDE DEF N
<1>5. \A n, before : DOMAIN Hop(l, before, n).affected = Dependents(l, before.targets) \cup DOMAIN before.affected
  <2> TAKE n, before
  <2> DEFINE found == Dependents(l, before.targets) \ DOMAIN before.affected
  <2>1. DOMAIN Hop(l, before, n).affected = found \cup DOMAIN before.affected
    BY DEF Hop
  <2> QED BY <2>1
<1>6. id \in Dependents(l, expand_targets(l, t))
  <2>1. id \in l.dependents[x]
    BY DEF Coherent
  <2> QED BY <2>1 DEF Dependents
<1> DEFINE P == {n \in 0 .. N : n = 0 \/ id \in DOMAIN w[n].affected}
<1>7. 0 \in P
  BY <1>2
<1>8. ASSUME NEW n \in 1 .. N, n - 1 \in P PROVE n \in P
  <2>1. n \in 0 .. N /\ w[n] = Hop(l, w[n - 1], n)
    BY <1>2, <1>4
  <2>2. DOMAIN w[n].affected = Dependents(l, w[n - 1].targets) \cup DOMAIN w[n - 1].affected
    BY <1>5, <2>1
  <2>3. CASE n - 1 = 0
    <3>1. w[n - 1].targets = expand_targets(l, t)
      BY <1>4, <2>3
    <3> QED BY <1>6, <2>1, <2>2, <3>1
  <2>4. CASE n - 1 # 0
    <3>1. id \in DOMAIN w[n - 1].affected
      BY <1>8, <2>4
    <3> QED BY <2>1, <2>2, <3>1
  <2> QED BY <2>3, <2>4
<1>9. P = 0 .. N
  <2> HIDE DEF P
  <2>1. P \in SUBSET (0 .. N)
    BY DEF P
  <2> QED BY <2>1, <1>2, <1>7, <1>8, UpTo
<1>10. id \in affected
  <2>1. N \in P /\ N # 0
    BY <1>2, <1>9
  <2> QED BY <1>3, <2>1
<1>11. <<id, x>> \in edges
  <2>1. <<id, x>> \in EdgesOf(l)
    BY <1>1 DEF EdgesOf
  <2> HIDE DEF affected
  <2> QED BY <1>10, <2>1
<1>12. build_from_trigger(l, t) = Refs(edges)
  BY DEF build_from_trigger
<1> HIDE DEF edges
<1>13. id \in DOMAIN Refs(edges)
  <2>1. DOMAIN Refs(edges) = {e[1] : e \in edges}
    BY DEF Refs
  <2>2. <<id, x>>[1] = id
    OBVIOUS
  <2> QED BY <1>11, <2>1, <2>2
<1>14. x \in Refs(edges)[id]
  <2>1. Refs(edges)[id] = {e[2] : e \in {f \in edges : f[1] = id}}
    BY <1>11 DEF Refs
  <2>2. <<id, x>> \in {f \in edges : f[1] = id} /\ <<id, x>>[2] = x
    BY <1>11
  <2> QED BY <2>1, <2>2
<1> QED BY <1>12, <1>13, <1>14

\* What drifts when a line of text of the document is edited.
LEMMA TouchIsForeseen ==
  ASSUME NEW d, build_lattice(d) # NotLoaded, Written(d), IsFiniteSet(DOMAIN d), Edited \in DOMAIN d,
         NEW b, b \in Touched(d[Edited].body), b # d[Edited].body
  PROVE  Foresees(build_lattice(d), build_lattice([d EXCEPT ![Edited].body = b]), d[Edited].body, b)
<1> DEFINE l == build_lattice(d)
           m == build_lattice([d EXCEPT ![Edited].body = b])
           body == d[Edited].body
           wasOK == {e \in EdgesOf(l) : _classify(l, e[1], e[2]) = "OK"}
           fell == {e \in wasOK : _classify(m, e[1], e[2]) # "OK"}
           line == CHOOSE i \in DOMAIN body : body[i] # b[i]
<1>1. body \in Seq(Lines)
  BY DEF Written
<1>2. PICK i \in DOMAIN body : Retouched(body, i, b)
  BY DEF Touched, Retouched
<1>3. /\ Alike(body, b) /\ b[i].text # body[i].text
      /\ \A j \in DOMAIN body : j # i => b[j] = body[j]
  BY <1>1, <1>2, RetouchedIsAlike
<1>4. line = i
  <2>1. \A j \in DOMAIN body : body[j] # b[j] <=> j = i
    BY <1>3
  <2> QED BY <2>1
<1>5. Coherent(l, d)
  BY BuiltIsCoherent
<1>6. m.collisions = l.collisions /\ \A id \in DOMAIN d : m.nodes[id].edges = l.nodes[id].edges
  <2>1. \A id \in DOMAIN d : m.nodes[id].edges = l.nodes[id].edges
    BY <1>3, BuiltAgain
  <2>2. m.collisions = l.collisions
    BY <1>3, BuiltAgain
  <2> HIDE DEF l, m
  <2> QED BY <2>1, <2>2
<1>7. ASSUME NEW x \in DOMAIN l.index PROVE target_content(m, x) # target_content(l, x) <=> Holds(l, Edited, i, x)
  BY <1>2, ContentTouched
<1>8. ASSUME NEW t, Inner(l, Edited, body, i, t)
      PROVE  expand_targets(l, t) = {x \in DOMAIN l.index : Holds(l, Edited, i, x)}
  BY <1>2, <1>8, ExpansionHolds
<1> HIDE DEF l, m, body, line
<1>9. ASSUME NEW e \in EdgesOf(l)
      PROVE  e = <<e[1], e[2]>> /\ e[1] \in DOMAIN d /\ e[2] \in DOMAIN l.nodes[e[1]].edges
  <2>1. PICK id \in DOMAIN l.nodes : e \in {id} \X DOMAIN l.nodes[id].edges
    BY DEF EdgesOf
  <2> QED BY <2>1, <1>5 DEF Coherent
<1>10. ASSUME NEW e \in wasOK
       PROVE  e[2] \in DOMAIN l.index /\ (e \in fell <=> Holds(l, Edited, i, e[2]))
  <2> DEFINE id == e[1]
             x == e[2]
             edge == l.nodes[id].edges[x]
  <2>1. id \in DOMAIN d /\ x \in DOMAIN l.nodes[id].edges
    BY <1>9
  <2>2. _classify(l, id, x) = "OK"
    OBVIOUS
  <2>3. m.nodes[id].edges[x] = edge
    BY <1>6, <2>1
  <2>4. edge.resolved /\ x \notin l.collisions /\ edge.seen # NoHash /\ edge.seen = target_content(l, x)
    <3> HIDE DEF id, x
    <3> QED BY <2>2 DEF _classify
  <2>5. x \in DOMAIN l.index
    BY <1>5, <2>1, <2>4 DEF Coherent
  <2>6. _classify(m, id, x) # "OK" <=> target_content(m, x) # target_content(l, x)
    <3> HIDE DEF id, x
    <3> QED BY <1>6, <2>3, <2>4 DEF _classify
  <2>7. e \in fell <=> _classify(m, id, x) # "OK"
    OBVIOUS
  <2> QED BY <1>7, <2>5, <2>6, <2>7
<1> HIDE DEF fell
<1>11. ASSUME NEW t \in Innermost(l, body, i)
       PROVE  /\ fell = {e \in wasOK : e[2] \in expand_targets(l, t)}
              /\ \A e \in fell : /\ e[1] \in DOMAIN build_from_trigger(l, t)
                                 /\ e[2] \in build_from_trigger(l, t)[e[1]]
  <2>1. Inner(l, Edited, body, i, t)
    BY DEF Innermost, Inner
  <2>2. expand_targets(l, t) = {x \in DOMAIN l.index : Holds(l, Edited, i, x)}
    BY <1>8, <2>1
  <2>3. fell \subseteq wasOK
    BY DEF fell
  <2>4. fell = {e \in wasOK : e[2] \in expand_targets(l, t)}
    <3> HIDE DEF wasOK
    <3> QED BY <1>10, <2>2, <2>3
  <2>5. ASSUME NEW e \in fell
        PROVE  /\ e[1] \in DOMAIN build_from_trigger(l, t)
               /\ e[2] \in build_from_trigger(l, t)[e[1]]
    <3>1. e \in EdgesOf(l) /\ e[2] \in expand_targets(l, t)
      BY <2>4
    <3>2. e[1] \in DOMAIN d /\ e[2] \in DOMAIN l.nodes[e[1]].edges
      BY <1>9, <3>1
    <3>3. expand_targets(l, t) \in SUBSET DOMAIN l.index
      BY <2>2
    <3> QED BY <1>5, <3>1, <3>2, <3>3, AuditedForward
  <2> QED BY <2>4, <2>5
<1> QED BY <1>4, <1>11 DEF Foresees, l, m, body, line, wasOK, fell

\* An edit of a line of text makes exactly those edges stale that impact and the forward
\* audit of its section name, for every project and every outline: what the queries
\* say beforehand is what check finds afterwards.
THEOREM DriftForeseen == Spec => DriftIsForeseen
<1>1. AuditInit => CurrentInv /\ RememberedInv
  BY CurrentInit, RememberedInit DEF AuditInit
<1>2. CurrentInv /\ RememberedInv /\ [Next]_vars => (CurrentInv /\ RememberedInv)'
  <2> SUFFICES ASSUME CurrentInv, RememberedInv, [Next]_vars PROVE CurrentInv' /\ RememberedInv'
    OBVIOUS
  <2> QED BY CurrentStep, RememberedStep
<1>3. CurrentInv /\ RememberedInv /\ [Next]_vars =>
        [(lattice # NotLoaded /\ Edited \in DOMAIN docs /\ Body(docs') \in Touched(Body(docs)) \ {Body(docs)}) =>
           Foresees(lattice, lattice', Body(docs), Body(docs'))]_session
  <2> SUFFICES ASSUME CurrentInv, RememberedInv, [Next]_vars, ~ UNCHANGED session,
                      lattice # NotLoaded, Edited \in DOMAIN docs,
                      Body(docs') \in Touched(Body(docs)), Body(docs') # Body(docs)
               PROVE  Foresees(lattice, lattice', Body(docs), Body(docs'))
    OBVIOUS
  <2>1. Start \/ AuditStep \/ UNCHANGED vars => UNCHANGED session
    <3>1. Start => UNCHANGED session
      BY DEF Start
    <3>2. Answered \/ Retry \/ GiveUp \/ Report => UNCHANGED session
      BY DEF Answered, Retry, GiveUp, Fetching, Report
    <3>3. UNCHANGED vars => UNCHANGED session
      BY DEF vars
    <3> QED BY <3>1, <3>2, <3>3 DEF AuditStep
  <2>2. Reconcile \/ \E n \in 1 .. 2 : Commit(n)
    BY <2>1 DEF Next, Edit, SessionNext
  <2>3. Written(docs) /\ IsFiniteSet(DOMAIN docs) /\ lattice = build_lattice(docs)
    BY DEF CurrentInv, Annotated, RememberedInv
  <2>4. "body" \in DOMAIN docs[Edited]
    BY <2>3 DEF Written
  <2>5. CASE Reconcile
    <3>1. docs' = [id \in DOMAIN docs |-> [docs[id] EXCEPT !.entries = Acknowledged(lattice, id, @)]]
      BY <2>5 DEF Reconcile
    <3>2. docs'[Edited] = [docs[Edited] EXCEPT !.entries = Acknowledged(lattice, Edited, @)]
      BY <3>1
    <3>3. docs'[Edited].body = docs[Edited].body
      BY <2>4, <3>2
    <3> QED BY <3>3 DEF Body
  <2>6. ASSUME NEW n \in 1 .. 2, Commit(n) PROVE Foresees(lattice, lattice', Body(docs), Body(docs'))
    <3>1. PICK b : docs' = [docs EXCEPT ![Edited].body = b]
      BY <2>6 DEF Commit
    <3>2. lattice' = build_lattice(docs')
      BY <2>6 DEF Commit
    <3>3. docs'[Edited].body = b
      BY <2>4, <3>1
    <3>4. b \in Touched(docs[Edited].body) /\ b # docs[Edited].body
      BY <3>3 DEF Body
    <3>5. Foresees(build_lattice(docs), build_lattice([docs EXCEPT ![Edited].body = b]), docs[Edited].body, b)
      BY <2>3, <3>4, TouchIsForeseen
    <3> QED BY <2>3, <3>1, <3>2, <3>3, <3>5 DEF Body
  <2> QED BY <2>2, <2>5, <2>6
<1> QED BY <1>1, <1>2, <1>3, PTL DEF Spec, DriftIsForeseen
=============================================================================
