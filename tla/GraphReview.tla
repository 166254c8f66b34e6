----------------------------- MODULE GraphReview -----------------------------
(***************************************************************************)
(* Human review of the causal graph (reasoning/review.py), additions by    *)
(* hand and the links inferred for them (reasoning/authoring.py), growth   *)
(* by a model (pipeline/graph_ops.py), outcome nodes kept in line with the *)
(* decision anchor (reasoning/anchor_service.py), and the theories derived *)
(* from what review left standing (reasoning/theories.py).                 *)
(*                                                                         *)
(* Rows are never deleted, so a row is its place in a sequence.  Status    *)
(* "rejected" stands for both excluded statuses, "accepted" for those that *)
(* keep an element in the graph.  An override stands for every other field *)
(* a review may change.  A session is one HTTP request: it holds each row   *)
(* as it first read it (db/session.py keeps expire_on_commit off) and      *)
(* writes, when it commits, the columns it changed.  Every read that       *)
(* something is decided on is a step of its own, so that requests overlap  *)
(* between it and the commit; growth, and what saving an anchor does to    *)
(* outcome nodes, read and write in one.  What a model answers is a        *)
(* choice.                                                                 *)
(*                                                                         *)
(* Definitions marked (slip) are not the code: each is the form a          *)
(* plausible mistake would give the definition that follows it.            *)
(***************************************************************************)
EXTENDS Naturals, Sequences, FiniteSets

CONSTANTS
    Sessions,       \* requests that may be served at once
    Seed,           \* the rows an analysis left
    Outcomes,       \* keys an anchor may name as outcomes
    Overrides,      \* strengths a reviewer may set
    Changes,        \* what one review may ask for
    None,           \* a field left alone, a state that was not recorded
    MaxRows,        \* bound: rows ever
    MaxRevision,    \* bound: revisions, and operations in the audit log
    MaxTheories,    \* bound: generations that succeed
    MaxGrown,       \* bound: links a model was asked to grow
    MaxLinks,       \* bound: links one inference finds
    MaxOverlap      \* bound: rows, operations and revisions over which requests overlap

Statuses == {"accepted", "rejected", "uncertain"}

\* The fields of CLAIM_REVIEW_FIELDS and EDGE_REVIEW_FIELDS.
Review == [status : Statuses, active : BOOLEAN, override : Overrides \cup {None}]

Change == [status : Statuses \cup {None}, active : BOOLEAN \cup {None},
           override : Overrides \cup {None}, clear : BOOLEAN]

Row == [kind : {"claim", "outcome", "edge"}, key : Outcomes \cup {None},
        from : Nat, to : Nat, review : Review,
        via : {"pipeline", "user", "inferred", "grown", "frame"}]

ASSUME NoneIsApart ==
    None \notin Statuses /\ None \notin BOOLEAN /\ None \notin Overrides /\ None \notin Review

ASSUME BoundsAreNumbers ==
    MaxRows \in Nat /\ MaxRevision \in Nat \ {0} /\ MaxTheories \in Nat /\ MaxGrown \in Nat /\ MaxLinks \in Nat
    /\ MaxOverlap \in Nat

ASSUME ChangesAreChanges == Changes \subseteq Change

\* Every row an analysis saves is accepted and active, by the columns' defaults.
Accepted == [status |-> "accepted", active |-> TRUE, override |-> None]

Claims(g) == {i \in 1..Len(g) : g[i].kind # "edge"}
Edges(g) == {i \in 1..Len(g) : g[i].kind = "edge"}
Pair(row) == <<row.from, row.to>>

\* An edge joins two claims, by its foreign keys, and an outcome has a key.
ASSUME SeedIsRows ==
    /\ Seed \in Seq(Row) /\ Len(Seed) <= MaxRows
    /\ \A i \in 1..Len(Seed) :
        /\ Seed[i].review = Accepted /\ Seed[i].via # "inferred"
        /\ Seed[i].kind = "outcome" => Seed[i].key # None
    /\ \A e \in Edges(Seed) : {Seed[e].from, Seed[e].to} \subseteq Claims(Seed)

VARIABLES
    rows,           \* Claim and CausalEdge, by order of insertion
    log,            \* GraphOperation, by order of insertion
    revision,       \* Project.graph_revision
    anchor,         \* the outcomes of Project.decision_anchor
    theories,       \* the theory set of each generation
    request,        \* what each session is doing
    crossed,        \* history: rows written, or added, on a read that was outdated
    overtaken       \* history: a revision was taken from one that had passed

vars == <<rows, log, revision, anchor, theories, request, crossed, overtaken>>

Idle == [op |-> "idle"]

Init ==
    /\ rows = Seed
    /\ log = <<>>
    /\ revision = 1
    /\ anchor = {Seed[i].key : i \in {i \in 1..Len(Seed) : Seed[i].kind = "outcome"}}
    /\ theories = <<>>
    /\ request = [s \in Sessions |-> Idle]
    /\ crossed = {}
    /\ overtaken = FALSE

-----------------------------------------------------------------------------
(* The effective graph. *)

Standing(row) == row.review.active /\ row.review.status # "rejected"

EffectiveClaims(g) == {i \in Claims(g) : Standing(g[i])}

EffectiveEdges(g) ==
    {i \in Edges(g) : Standing(g[i]) /\ {g[i].from, g[i].to} \subseteq EffectiveClaims(g)}

Effective(g) == {<<i, g[i].review.override>> : i \in EffectiveClaims(g) \cup EffectiveEdges(g)}

-----------------------------------------------------------------------------
(* What every writer shares. *)

Served(s) ==
    /\ request[s] = Idle
    /\ (\E q \in Sessions : request[q] # Idle) => Len(rows) + Len(log) + revision <= MaxOverlap

Start(s, r) ==
    /\ Served(s)
    /\ request' = [request EXCEPT ![s] = r]
    /\ UNCHANGED <<rows, log, revision, anchor, theories, crossed, overtaken>>

\* A read: what the session holds from now on.
Read(s, r) ==
    /\ request' = [request EXCEPT ![s] = r]
    /\ UNCHANGED <<rows, log, revision, anchor, theories, crossed, overtaken>>

Finish(s) == request' = [request EXCEPT ![s] = Idle]

\* What is known of a set of theories that nothing asks about: it is stale, or
\* retired, or the graph moved before it was there to be marked.
Forgotten == [basis |-> {}, size |-> 0, stale |-> TRUE, current |-> TRUE, outrun |-> FALSE]
Outrun == [Forgotten EXCEPT !.stale = FALSE, !.outrun = TRUE]

\* mark_theories_stale, by a statement that ran when there were m sets: what was
\* generated since is not marked.
Staled(sets, m) ==
    [k \in 1..Len(sets) |->
        IF ~sets[k].current \/ sets[k].stale THEN sets[k]
        ELSE IF k <= m THEN Forgotten ELSE Outrun]

\* The statement ran after the session's last read and before its commit.
Mark(s) == \E m \in request[s].seen..Len(theories) : theories' = Staled(theories, m)

\* The session writes the revision it read, plus one.
Bump(s) ==
    /\ request[s].rev < MaxRevision
    /\ revision' = request[s].rev + 1
    /\ overtaken' = (overtaken \/ revision # request[s].rev)

Record(s, target, before, after, undoes) ==
    LET op == [target |-> target, before |-> before, after |-> after,
               from |-> request[s].rev, to |-> request[s].rev + 1, undone |-> FALSE, undoes |-> undoes]
        told == [n \in 1..Len(log) |-> IF n = undoes THEN [log[n] EXCEPT !.undone = TRUE] ELSE log[n]]
    IN /\ Len(log) < MaxRevision
       /\ log' = Append(told, op)

-----------------------------------------------------------------------------
(* Reviews. *)

\* The route reads the project, and checks expected_graph_revision against it;
\* what is asked for is a choice of the steps that follow.
Open(s) ==
    Start(s, [op |-> "edit", rev |-> revision, seen |-> Len(theories), undoes |-> 0,
              undone |-> FALSE, target |-> 0, was |-> None, link |-> <<0, 0>>])

Asked(s) == request[s].op = "edit" /\ request[s].target = 0 /\ request[s].link = <<0, 0>>

\* undo_operation reads the operation, and refuses one that is undone.
CheckUndone(s, n) ==
    /\ Asked(s) /\ request[s].undoes = 0
    /\ ~log[n].undone
    /\ Read(s, [request[s] EXCEPT !.undoes = n, !.undone = log[n].undone])

\* The element is read; for an undo, that of the operation.
ReadTarget(s, t) ==
    /\ Asked(s)
    /\ request[s].undoes # 0 => t = log[request[s].undoes].target
    /\ Read(s, [request[s] EXCEPT !.target = t, !.was = rows[t].review, !.seen = Len(theories)])

Reviewed(was, c) ==
    LET status == IF c.status = None THEN was.status ELSE c.status
    IN [status |-> IF c.active = TRUE /\ status = "rejected" THEN "uncertain" ELSE status,
        active |-> IF c.active # None THEN c.active
                   ELSE IF c.status = "rejected" THEN FALSE ELSE was.active,
        override |-> IF c.clear THEN None
                     ELSE IF c.override # None THEN c.override ELSE was.override]

\* An UPDATE holds the columns that are not as they were read.
Written(review, was, now) ==
    [status |-> IF now.status # was.status THEN now.status ELSE review.status,
     active |-> IF now.active # was.active THEN now.active ELSE review.active,
     override |-> IF now.override # was.override THEN now.override ELSE review.override]

\* Whether something else has been done to the element, or the operation undone,
\* since the session read them.
Outdated(s) ==
    LET r == request[s]
    IN \/ rows[r.target].review # r.was
       \/ r.undoes # 0 /\ log[r.undoes].undone # r.undone

\* The element's new state, its audit entry, the revision and the stale marks.
Rewrite(s, now, before) ==
    LET r == request[s]
    IN /\ rows' = [rows EXCEPT ![r.target].review = Written(@, r.was, now)]
       /\ Record(s, r.target, before, now, r.undoes)
       /\ crossed' = IF Outdated(s) THEN crossed \cup {r.target} ELSE crossed
       /\ Bump(s)
       /\ Mark(s)
       /\ Finish(s)
       /\ UNCHANGED anchor

ReadTo(s, undo) ==
    request[s].op = "edit" /\ request[s].target # 0 /\ (request[s].undoes # 0 <=> undo)

\* A claim has no strength.
Applies(t, c) == rows[t].kind # "edge" => c.override = None /\ ~c.clear

\* (slip) the state before is captured after the change.
ReviewCapturedLate(s, c) ==
    /\ ReadTo(s, FALSE)
    /\ Applies(request[s].target, c)
    /\ LET now == Reviewed(request[s].was, c) IN Rewrite(s, now, now)

ApplyReview(s, c) ==
    /\ ReadTo(s, FALSE)
    /\ Applies(request[s].target, c)
    /\ Rewrite(s, Reviewed(request[s].was, c), request[s].was)

\* What undoing an operation leaves: an addition recorded no state before it, so
\* its undo replays nothing.
Replayed(op, was) == IF op.before = None THEN was ELSE op.before

UndoOperation(s) ==
    /\ ReadTo(s, TRUE)
    /\ Rewrite(s, Replayed(log[request[s].undoes], request[s].was), request[s].was)

-----------------------------------------------------------------------------
(* Additions by hand. *)

NewClaim(via) ==
    [kind |-> "claim", key |-> None, from |-> 0, to |-> 0, review |-> Accepted, via |-> via]

NewNode(key) ==
    [kind |-> "outcome", key |-> key, from |-> 0, to |-> 0, review |-> Accepted, via |-> "frame"]

NewEdge(i, j, via) ==
    [kind |-> "edge", key |-> None, from |-> i, to |-> j, review |-> Accepted, via |-> via]

AddRow(s, row) ==
    /\ Len(rows) < MaxRows
    /\ rows' = Append(rows, row)
    /\ Record(s, Len(rows) + 1, None, None, 0)
    /\ Bump(s)
    /\ Mark(s)
    /\ Finish(s)
    /\ UNCHANGED <<anchor, crossed>>

AddClaim(s) == Asked(s) /\ request[s].undoes = 0 /\ AddRow(s, NewClaim("user"))

Linked(i, j) == \E e \in Edges(rows) : Pair(rows[e]) = <<i, j>> /\ rows[e].review.active

\* add_edge looks for the link, and refuses a second one.
CheckLink(s, i, j) ==
    /\ Asked(s) /\ request[s].undoes = 0
    /\ i # j
    /\ ~Linked(i, j)
    /\ Read(s, [request[s] EXCEPT !.link = <<i, j>>, !.seen = Len(theories)])

AddEdge(s) ==
    /\ request[s].op = "edit" /\ request[s].link # <<0, 0>>
    /\ AddRow(s, NewEdge(request[s].link[1], request[s].link[2], "user"))

-----------------------------------------------------------------------------
(* infer_links_for_new_claims: the claims are read before the model is     *)
(* asked, the links that exist after it answered.                          *)

ActiveClaims == {i \in Claims(rows) : rows[i].review.active}

\* The links a judgement may confirm: they join a new claim with another, and
\* never leave an outcome.
Candidates(known, new) ==
    {p \in known \X known :
        p[1] # p[2] /\ {p[1], p[2]} \cap new # {} /\ rows[p[1]].kind # "outcome"}

\* One judgement for each two claims, one direction for each judgement.
Judgements(known, new) ==
    {f \in UNION {[1..n -> Candidates(known, new)] : n \in 0..MaxLinks} :
        \A k, l \in DOMAIN f : k # l => {f[k][1], f[k][2]} # {f[l][1], f[l][2]}}

\* (slip) only a link that is active counts as present.
PresentIfActive == {Pair(rows[e]) : e \in {e \in Edges(rows) : rows[e].review.active}}

\* Rejected links too: the human decision is left alone.
Present == {Pair(rows[e]) : e \in Edges(rows)}

Asking(op, rev, new, known, changed) ==
    [op |-> op, rev |-> rev, new |-> new, known |-> known, changed |-> changed,
     answered |-> FALSE, pairs |-> {}, seen |-> 0]

OpenInfer(s, i) ==
    /\ i \in ActiveClaims
    /\ ActiveClaims # {i}
    /\ Start(s, Asking("infer", revision, {i}, ActiveClaims, FALSE))

\* The model answered: the links that exist now are what its own are held against.
ReadPairs(s) ==
    /\ request[s].op \in {"infer", "link"} /\ ~request[s].answered
    /\ Read(s, [request[s] EXCEPT !.answered = TRUE, !.pairs = Present, !.seen = Len(theories)])

\* What is created: the judged links that were not there, in the order of the
\* judgements.
Creatable(r) ==
    {f \in Judgements(r.known, r.new) : \A k \in DOMAIN f : f[k] \notin r.pairs}

\* (slip) inferred links leave the theories as they are.
SaveLinksQuietly(s, created) ==
    LET new == Len(rows) + 1..Len(rows) + Len(created)
    IN /\ Len(rows) + Len(created) <= MaxRows
       /\ rows' = rows \o [k \in 1..Len(created) |-> NewEdge(created[k][1], created[k][2], "inferred")]
       /\ crossed' = IF Present # request[s].pairs THEN crossed \cup new ELSE crossed
       /\ IF created = <<>> THEN UNCHANGED <<revision, overtaken>> ELSE Bump(s)
       /\ UNCHANGED theories

\* The links, the revision and the stale marks, if anything was created.
SaveLinks(s, created) ==
    LET new == Len(rows) + 1..Len(rows) + Len(created)
    IN /\ Len(rows) + Len(created) <= MaxRows
       /\ rows' = rows \o [k \in 1..Len(created) |-> NewEdge(created[k][1], created[k][2], "inferred")]
       /\ crossed' = IF Present # request[s].pairs THEN crossed \cup new ELSE crossed
       /\ IF created = <<>>
          THEN UNCHANGED <<revision, overtaken, theories>>
          ELSE Bump(s) /\ Mark(s)

\* The links are committed, with what a model was asked to judge for an operation.
Judged(s, op) ==
    /\ request[s].op = op /\ request[s].answered
    /\ \E created \in Creatable(request[s]) : SaveLinks(s, created)
    /\ UNCHANGED <<log, anchor>>

InferLinks(s) == Judged(s, "infer") /\ Finish(s)

-----------------------------------------------------------------------------
(* expand and trace_back, one consequence or cause at a time: a claim of   *)
(* its own, or one that is there already.                                  *)

G == INSTANCE Graphs

\* _would_create_cycle: over every link, whatever review made of it.
WouldCycle(i, j) ==
    LET ends == UNION {{rows[e].from, rows[e].to} : e \in Edges(rows)}
    IN /\ {i, j} \subseteq ends
       /\ G!ConnectionsIn([node |-> ends, edge |-> Present])[j, i]

OpenGrow(s) ==
    /\ Cardinality({e \in Edges(rows) : rows[e].via = "grown"}) < MaxGrown
    /\ Start(s, [op |-> "grow"])

\* What was added by hand, or for an anchor saved later, has no embedding.
Embedded == {i \in Claims(rows) : rows[i].via \in {"pipeline", "grown"}}

\* expand links the claim to its consequence, trace_back its cause to the claim.
Ends(outward, i, other) == IF outward THEN <<i, other>> ELSE <<other, i>>

GrowNew(i, outward) ==
    LET p == Ends(outward, i, Len(rows) + 1)
    IN /\ Len(rows) + 2 <= MaxRows
       /\ rows' = rows \o <<NewClaim("grown"), NewEdge(p[1], p[2], "grown")>>

Converge(i, outward) ==
    \E other \in Embedded :
        LET p == Ends(outward, i, other)
        IN IF WouldCycle(p[1], p[2])
           THEN UNCHANGED rows
           ELSE Len(rows) < MaxRows /\ rows' = Append(rows, NewEdge(p[1], p[2], "grown"))

Grow(s, i, outward) ==
    /\ request[s].op = "grow"
    /\ GrowNew(i, outward) \/ Converge(i, outward)
    /\ Finish(s)
    /\ UNCHANGED <<log, revision, anchor, theories, crossed, overtaken>>

-----------------------------------------------------------------------------
(* save_anchor: the anchor, the outcome nodes, links for new nodes, and    *)
(* the stale marks if the anchor is not the one that was there before.     *)

OpenAnchor(s, wanted) ==
    /\ Served(s)
    /\ request' = [request EXCEPT ![s] =
           [op |-> "sync", rev |-> revision, wanted |-> wanted, changed |-> wanted # anchor]]
    /\ anchor' = wanted
    /\ UNCHANGED <<rows, log, revision, theories, crossed, overtaken>>

Nodes == {i \in 1..Len(rows) : rows[i].kind = "outcome"}

\* A node is active if its outcome is wanted, whoever made it otherwise.
Synced(wanted) ==
    [i \in 1..Len(rows) |->
        IF i \in Nodes THEN [rows[i] EXCEPT !.review.active = rows[i].key \in wanted] ELSE rows[i]]

Orders(keys) == {f \in UNION {[1..n -> keys] : n \in 0..MaxRows} :
                    /\ {f[k] : k \in DOMAIN f} = keys
                    /\ \A k, l \in DOMAIN f : k # l => f[k] # f[l]}

SyncOutcomes(s) ==
    /\ request[s].op = "sync"
    /\ \E missing \in Orders(request[s].wanted \ {rows[i].key : i \in Nodes}) :
        LET new == Len(rows) + 1..Len(rows) + Len(missing)
            moved == rows' # rows
            rev == IF moved THEN request[s].rev + 1 ELSE request[s].rev
        IN /\ Len(rows) + Len(missing) <= MaxRows
           /\ request[s].rev < MaxRevision
           /\ rows' = Synced(request[s].wanted) \o [k \in 1..Len(missing) |-> NewNode(missing[k])]
           /\ IF moved THEN Bump(s) ELSE UNCHANGED <<revision, overtaken>>
           /\ request' = [request EXCEPT ![s] =
                  IF new = {}
                  THEN [op |-> "rescore", changed |-> @.changed]
                  ELSE Asking("link", rev, new,
                              {i \in 1..Len(rows') : rows'[i].kind # "edge" /\ rows'[i].review.active},
                              @.changed)]
    /\ UNCHANGED <<log, anchor, theories, crossed>>

LinkOutcomes(s) ==
    /\ Judged(s, "link")
    /\ request' = [request EXCEPT ![s] = [op |-> "rescore", changed |-> @.changed]]

Rescore(s) ==
    /\ request[s].op = "rescore"
    /\ theories' = IF request[s].changed THEN Staled(theories, Len(theories)) ELSE theories
    /\ Finish(s)
    /\ UNCHANGED <<rows, log, revision, anchor, crossed, overtaken>>

-----------------------------------------------------------------------------
(* generate_theories: the graph and the current theories are read before   *)
(* the model is asked, and replaced after it answered.                     *)

Current == {k \in 1..Len(theories) : theories[k].current}

\* What the effective graph holds of claims and the links between them.
Plain(i) ==
    IF rows[i].kind = "edge" THEN {rows[i].from, rows[i].to} \cap Nodes = {} ELSE i \notin Nodes

\* The graph is what was read of it, and what a model asked to expand a claim
\* has added; outcome nodes and their links aside.
RestsOn(basis, size) ==
    LET now == {e \in Effective(rows) : Plain(e[1])}
    IN /\ {e \in now : e[1] <= size} = {e \in basis : Plain(e[1])}
       /\ \A e \in now : e[1] > size => rows[e[1]].via = "grown"

OpenGenerate(s) ==
    /\ EffectiveClaims(rows) # {}
    /\ Start(s, [op |-> "generate", basis |-> Effective(rows),
                 size |-> Len(rows), previous |-> Current])

\* A set of theories is known by what it was generated from, unless that is no
\* longer the graph: it is committed as fresh all the same.
Generated(r) ==
    IF RestsOn(r.basis, r.size)
    THEN [basis |-> r.basis, size |-> r.size, stale |-> FALSE, current |-> TRUE, outrun |-> FALSE]
    ELSE Outrun

Retired(sets, ks) ==
    [k \in 1..Len(sets) |-> IF k \in ks THEN [Forgotten EXCEPT !.current = FALSE] ELSE sets[k]]

CommitTheories(s) ==
    /\ request[s].op = "generate"
    /\ Len(theories) < MaxTheories
    /\ theories' = Append(Retired(theories, request[s].previous), Generated(request[s]))
    /\ Finish(s)
    /\ UNCHANGED <<rows, log, revision, anchor, crossed, overtaken>>

\* The request is refused (409 for a revision that moved on or an operation undone
\* already, 422 for a link that exists), the model fails, nothing it said survives
\* validation, or the process dies: what was committed stays, the rest is gone.
Abandon(s) ==
    /\ request[s] # Idle
    /\ Finish(s)
    /\ UNCHANGED <<rows, log, revision, anchor, theories, crossed, overtaken>>

-----------------------------------------------------------------------------
Serve(s) ==
    \/ Open(s)
    \/ \E n \in 1..Len(log) : CheckUndone(s, n)
    \/ \E t \in 1..Len(rows) : ReadTarget(s, t)
    \/ \E c \in Changes : ApplyReview(s, c)
    \/ UndoOperation(s)
    \/ AddClaim(s)
    \/ \E i, j \in Claims(rows) : CheckLink(s, i, j)
    \/ AddEdge(s)
    \/ \E i \in Claims(rows) : OpenInfer(s, i)
    \/ ReadPairs(s)
    \/ InferLinks(s)
    \/ OpenGrow(s)
    \/ \E i \in Claims(rows), outward \in BOOLEAN : Grow(s, i, outward)
    \/ \E wanted \in SUBSET Outcomes : OpenAnchor(s, wanted)
    \/ SyncOutcomes(s)
    \/ LinkOutcomes(s)
    \/ Rescore(s)
    \/ OpenGenerate(s)
    \/ CommitTheories(s)
    \/ Abandon(s)

Next == \E s \in Sessions : Serve(s)

Spec == Init /\ [][Next]_vars

-----------------------------------------------------------------------------
(* Properties. *)

TypeOK ==
    /\ rows \in Seq(Row) /\ Len(rows) <= MaxRows
    /\ Len(log) <= MaxRevision
    /\ \A n \in 1..Len(log) :
        /\ log[n].target \in 1..Len(rows)
        /\ {log[n].before, log[n].after} \subseteq Review \cup {None}
        /\ log[n].undoes \in 0..n - 1
    /\ revision \in Nat \ {0}
    /\ anchor \subseteq Outcomes
    /\ Len(theories) <= MaxTheories
    /\ crossed \subseteq 1..Len(rows)
    /\ \A s \in Sessions : request[s].op \in {"edit", "infer", "link"} =>
        request[s].rev \in 1..MaxRevision

Touching(t) == {n \in 1..Len(log) : log[n].target = t}
Newest(ops) == CHOOSE n \in ops : \A m \in ops : m <= n

\* What the last of these operations left of an element.
Left(ops) ==
    IF ops = {} \/ log[Newest(ops)].after = None THEN Accepted ELSE log[Newest(ops)].after

\* The audit log accounts for every element: each operation found what the one
\* before it on the same element left, and the element is as the last one left
\* it; and no two operations share a revision.  Not so for an element that a
\* request wrote over what another had written since it read it, and for
\* revisions once a request has taken its own from one that had passed.  Outcome
\* nodes are left out: saving an anchor moves them without an operation.
HistoryExplainsRows ==
    /\ \A t \in (1..Len(rows)) \ crossed : rows[t].kind # "outcome" =>
        /\ rows[t].review = Left(Touching(t))
        /\ \A n \in Touching(t) : log[n].before # None =>
            log[n].before = Left({m \in Touching(t) : m < n})
    /\ ~overtaken => \A n \in 1..Len(log) :
        /\ log[n].to <= revision
        /\ n > 1 => log[n - 1].to <= log[n].from

\* An undo records as its result what the operation it names found, whatever
\* happened in between, and marks it; and no operation is undone twice, unless
\* two undos had both checked before either committed.
UndoIsExact ==
    /\ \A n \in 1..Len(log) : log[n].undoes # 0 =>
        LET u == log[n].undoes
        IN /\ log[u].undone /\ log[u].target = log[n].target
           /\ log[n].target \notin crossed =>
                \A m \in 1..Len(log) : log[m].undoes = u => m = n
           /\ log[u].before # None => log[n].after = log[u].before
    /\ \A n \in 1..Len(log) : log[n].undone => \E m \in 1..Len(log) : log[m].undoes = n

\* Whatever is reviewed, restored and undone in whatever order, an element that
\* is rejected is not active, and so counts nowhere, unless requests crossed on
\* it: one that rejects what it read as inactive writes the status only.  Saving
\* an anchor may reactivate an outcome node without looking at its status.
ExcludedIsInactive ==
    \A i \in (1..Len(rows)) \ crossed :
        rows[i].kind # "outcome" /\ rows[i].review.status = "rejected" => ~rows[i].review.active

\* Inference never brings a link back: it adds none between two claims that
\* have one already, active or not, unless a link was added between its reading
\* them and its commit.
InferenceRepeatsNothing ==
    \A e \in Edges(rows) \ crossed : rows[e].via = "inferred" =>
        \A f \in Edges(rows) : f < e => Pair(rows[f]) # Pair(rows[e])

\* The audit log tells what happened to the graph: each entry what it found and
\* left, through any order of reviews, restores and undos by requests that
\* overlap, but for the elements on which two crossed (apply_review,
\* undo_operation).
AuditLogIsExact == HistoryExplainsRows /\ UndoIsExact

\* What a user has taken out stays out, whichever operations follow, and
\* whichever overlap on other elements (apply_review,
\* infer_links_for_new_claims).
RejectedStaysOut == ExcludedIsInactive /\ InferenceRepeatsNothing

\* Current theories that are not marked stale rest on the graph as it is: what
\* they were generated from is what review leaves standing now, and only a model
\* asked to expand a claim has added to it.  Not so where an edit committed while
\* the model was asked, or had made its marks before the theories were there:
\* they are saved as fresh and nothing marks them.  Outcome nodes are left out: a
\* save that breaks off leaves them ahead of the marks.  So is the strength a
\* model gave, which a client may overwrite in place (routes/graph.py:463, 585)
\* with no operation, no revision and no mark.
FreshTheoriesMatchReview ==
    \A k \in Current :
        ~theories[k].stale /\ ~theories[k].outrun => RestsOn(theories[k].basis, theories[k].size)
=============================================================================
