---------------------------- MODULE AnalysisRun ----------------------------
(***************************************************************************)
(* One project, the requests that start or resume its analysis, and the    *)
(* background runs they launch: CausalPipeline.run of                      *)
(* pipeline/orchestrator.py, _run_pipeline and the handlers of             *)
(* api/routes/analysis.py and api/routes/intake.py.                        *)
(*                                                                         *)
(* The database is `project`, `claims` and `edges`: what is committed.     *)
(* Everything a run knows by itself (the checkpoint it read, the claims    *)
(* and edges it holds in memory) dies with it.  Each action is what one    *)
(* run does from one commit to the next; requests, other runs and a        *)
(* restart of the process fall in between.                                 *)
(*                                                                         *)
(* A row stands for a batch: the rows one save inserts live and change     *)
(* together.  Definitions marked (slip) are not the code: each is the form *)
(* a plausible mistake would give the definition that follows it.          *)
(***************************************************************************)
EXTENDS Naturals, FiniteSets

CONSTANTS
    Clients,        \* who may be inside a request at the same time
    Runs,           \* slots for background tasks alive at the same time
    MaxLayers,      \* max_layers of CausalPipeline.run
    MaxRows,        \* bound: batches of rows ever inserted
    Restarts,       \* whether the process may die and come back
    Misconfigured,  \* whether get_llm_client may raise
    Outages         \* whether the database may refuse the status of a failed run

ASSUME LayersAssumption == MaxLayers \in Nat
ASSUME RowsAssumption == MaxRows \in Nat
ASSUME SwitchesAssumption == {Restarts, Misconfigured, Outages} \subseteq BOOLEAN

VARIABLES
    project,        \* the Project row: [row, status, checkpoint]
    claims,         \* committed batches of claims: [id, kind, embedded]
    edges,          \* committed batches of edges: [id, layer, audited, evidence]
    fresh,          \* the next unused batch id
    request,        \* where each client's request is
    pc,             \* where each run is
    ckpt,           \* the checkpoint a run read when it began
    mine,           \* ids of the claims a run holds in memory
    links,          \* ids of the edges a run holds in memory
    fed,            \* ... of those, the ones with evidence in memory
    new,            \* id of the edges inferred for the current layer, or 0
    layer,          \* the discovery layer a run is at
    raced,          \* history: an overtaken request launched over "processing"
    lost            \* history: a run was gone before it could set a status

database == <<project, claims, edges, fresh>>
memory == <<ckpt, mine, links, fed, new, layer>>
history == <<raced, lost>>
vars == <<database, request, pc, memory, history>>

-----------------------------------------------------------------------------
(* Stages and checkpoints. *)

\* _STAGE_ORDER, as the place of each stage in it.
StageOrder ==
    [claim_extraction |-> 1, causal_inference |-> 2, blind_scoring |-> 3,
     bias_audit |-> 4, evidence_grounding |-> 5, statistical_validation |-> 6,
     discovery |-> 7, dag_construction |-> 8, belief_propagation |-> 9]

\* The stages _save_checkpoint is ever called with, and no checkpoint yet.
Checkpoints ==
    {"none", "claim_extraction", "blind_scoring", "bias_audit",
     "evidence_grounding"}

Reached(checkpoint) == IF checkpoint = "none" THEN 0 ELSE StageOrder[checkpoint]

\* _stage_completed
StageCompleted(stage, checkpoint) ==
    checkpoint # "none" /\ StageOrder[stage] <= StageOrder[checkpoint]

Pipeline ==
    {"scheduled", "claims", "embed", "outcomes", "checkpoint", "edges",
     "audit", "ground", "discover", "incremental", "layerAudit",
     "layerGround", "finish"}

Places == Pipeline \cup {"free", "downstream"}

Present == project.row = "present"
Ids(rows) == {x.id : x \in rows}

\* A run that holds a claim without an embedding cannot compare claims.
Unreadable(r) == \E c \in claims : c.id \in mine[r] /\ ~c.embedded

Active(r) == pc[r] \in Pipeline

Init ==
    /\ project = [row |-> "absent", status |-> "pending", checkpoint |-> "none"]
    /\ claims = {}
    /\ edges = {}
    /\ fresh = 1
    /\ request = [c \in Clients |-> "idle"]
    /\ pc = [r \in Runs |-> "free"]
    /\ ckpt = [r \in Runs |-> "none"]
    /\ mine = [r \in Runs |-> {}]
    /\ links = [r \in Runs |-> {}]
    /\ fed = [r \in Runs |-> {}]
    /\ new = [r \in Runs |-> 0]
    /\ layer = [r \in Runs |-> 0]
    /\ raced = FALSE
    /\ lost = FALSE

-----------------------------------------------------------------------------
(* Requests. *)

\* background_tasks.add_task(_run_pipeline, ...)
Schedule(r) ==
    /\ pc[r] = "free"
    /\ pc' = [pc EXCEPT ![r] = "scheduled"]

\* POST /intake: the row, and no run yet.
CreateIntake ==
    /\ project.row = "absent"
    /\ project' = [project EXCEPT !.row = "present", !.status = "pending"]
    /\ UNCHANGED <<claims, edges, fresh, request, pc, memory, history>>

\* POST /analyze: the row, already "processing", and its run.
Analyze(r) ==
    /\ project.row = "absent"
    /\ project' = [project EXCEPT !.row = "present", !.status = "processing"]
    /\ Schedule(r)
    /\ UNCHANGED <<claims, edges, fresh, request, memory, history>>

\* (slip) the guard of a run in progress is left out.
CheckNothing(c) ==
    /\ request[c] = "idle"
    /\ Present
    /\ request' = [request EXCEPT ![c] = "admitted"]
    /\ UNCHANGED <<database, pc, memory, history>>

\* POST /analyze/{id}/resume and /intake/{id}/start read the status first and
\* answer 409 to "processing"; no checkpoint is ever "belief_propagation", so
\* the second guard of resume_analysis never applies.  What follows (saving the
\* answers, the commit) is awaited.
Check(c) ==
    /\ request[c] = "idle"
    /\ Present
    /\ project.status # "processing"
    /\ request' = [request EXCEPT ![c] = "admitted"]
    /\ UNCHANGED <<database, pc, memory, history>>

\* The request of c is over.  Whoever was let in before this launch acts on a
\* status that is no longer there (history: the code tells "admitted" and
\* "overtaken" apart nowhere).
Overtake(c) ==
    request' = [d \in Clients |->
        IF d = c THEN "idle" ELSE IF request[d] = "idle" THEN "idle" ELSE "overtaken"]

\* (slip) the run is scheduled without taking the project first.
LaunchUnclaimed(c) ==
    /\ request[c] # "idle"
    /\ Present
    /\ request' = [request EXCEPT ![c] = "idle"]
    /\ \E r \in Runs : Schedule(r)
    /\ UNCHANGED <<database, memory, history>>

\* The commit of "processing", and the run.  The status is not read again: if
\* another client launched since the check, there are two runs.
Launch(c) ==
    /\ request[c] # "idle"
    /\ Present
    /\ Overtake(c)
    /\ project' = [project EXCEPT !.status = "processing"]
    /\ raced' = (raced \/ (request[c] = "overtaken" /\ project.status = "processing"))
    /\ \E r \in Runs : Schedule(r)
    /\ UNCHANGED <<claims, edges, fresh, memory, lost>>

\* The project was deleted since the check: the update matches no row.
LaunchRefused(c) ==
    /\ request[c] # "idle"
    /\ ~Present
    /\ request' = [request EXCEPT ![c] = "idle"]
    /\ UNCHANGED <<database, pc, memory, history>>

\* DELETE /projects/{id}: everything the project owns goes with it.
Delete ==
    /\ Present
    /\ project' = [row |-> "deleted", status |-> "pending", checkpoint |-> "none"]
    /\ claims' = {}
    /\ edges' = {}
    /\ UNCHANGED <<fresh, request, pc, memory, history>>

-----------------------------------------------------------------------------
(* A run, stage by stage. *)

At(r, place) == pc[r] = place /\ Present
Goto(r, place) == pc' = [pc EXCEPT ![r] = place]

\* A run that is over keeps nothing.
Forget(r) ==
    /\ ckpt' = [ckpt EXCEPT ![r] = "none"]
    /\ mine' = [mine EXCEPT ![r] = {}]
    /\ links' = [links EXCEPT ![r] = {}]
    /\ fed' = [fed EXCEPT ![r] = {}]
    /\ new' = [new EXCEPT ![r] = 0]
    /\ layer' = [layer EXCEPT ![r] = 0]

Insert(row, rows) == rows \cup {row}
Save(stage) == project' = [project EXCEPT !.checkpoint = stage]

\* The checkpoint is read once, then the anchor is resolved.
Begin(r) ==
    /\ At(r, "scheduled")
    /\ ckpt' = [ckpt EXCEPT ![r] = project.checkpoint]
    /\ Goto(r, "claims")
    /\ UNCHANGED <<database, request, mine, links, fed, new, layer, history>>

\* (slip) the checkpoint is saved on both branches.
LoadClaimsAndSave(r) ==
    /\ At(r, "claims")
    /\ StageCompleted("claim_extraction", ckpt[r])
    /\ mine' = [mine EXCEPT ![r] = Ids(claims)]
    /\ Save("claim_extraction")
    /\ Goto(r, "edges")
    /\ UNCHANGED <<claims, edges, fresh, request, ckpt, links, fed, new, layer, history>>

LoadClaims(r) ==
    /\ At(r, "claims")
    /\ StageCompleted("claim_extraction", ckpt[r])
    /\ mine' = [mine EXCEPT ![r] = Ids(claims)]
    /\ Goto(r, "edges")
    /\ UNCHANGED <<database, request, ckpt, links, fed, new, layer, history>>

\* Phase A: the claims are shown before they are embedded.
ExtractClaims(r) ==
    /\ At(r, "claims")
    /\ ~StageCompleted("claim_extraction", ckpt[r])
    /\ fresh <= MaxRows
    /\ claims' = Insert([id |-> fresh, kind |-> "seed", embedded |-> FALSE], claims)
    /\ fresh' = fresh + 1
    /\ mine' = [mine EXCEPT ![r] = {fresh}]
    /\ Goto(r, "embed")
    /\ UNCHANGED <<project, edges, request, ckpt, links, fed, new, layer, history>>

\* Phase B: embeddings written, restatements deleted, one commit.
EmbedClaims(r) ==
    /\ At(r, "embed")
    /\ claims' = {[c EXCEPT !.embedded = c.embedded \/ c.id \in mine[r]] : c \in claims}
    /\ Goto(r, "outcomes")
    /\ UNCHANGED <<project, edges, fresh, request, memory, history>>

\* One claim per outcome of the anchor, if there is one.
SaveOutcomes(r) ==
    /\ At(r, "outcomes")
    /\ Goto(r, "checkpoint")
    /\ \/ UNCHANGED <<claims, fresh, mine>>
       \/ /\ fresh <= MaxRows
          /\ claims' = Insert([id |-> fresh, kind |-> "outcome", embedded |-> TRUE], claims)
          /\ fresh' = fresh + 1
          /\ mine' = [mine EXCEPT ![r] = @ \cup {fresh}]
    /\ UNCHANGED <<project, edges, request, ckpt, links, fed, new, layer, history>>

\* (slip) the pipeline pauses for questions in a status nothing resumes from.
PauseForQuestions(r) ==
    /\ At(r, "checkpoint")
    /\ project' = [project EXCEPT !.checkpoint = "claim_extraction",
                                  !.status = "awaiting_input"]
    /\ Goto(r, "edges")
    /\ UNCHANGED <<claims, edges, fresh, request, memory, history>>

SaveExtraction(r) ==
    /\ At(r, "checkpoint")
    /\ Save("claim_extraction")
    /\ Goto(r, "edges")
    /\ UNCHANGED <<claims, edges, fresh, request, memory, history>>

\* _load_edges_from_db: the rows, without the evidence that belongs to them.
LoadEdges(r) ==
    /\ At(r, "edges")
    /\ StageCompleted("causal_inference", ckpt[r])
    /\ links' = [links EXCEPT ![r] = Ids(edges)]
    /\ Goto(r, "audit")
    /\ UNCHANGED <<database, request, ckpt, mine, fed, new, layer, history>>

\* Inference and blind re-scoring; edges and checkpoint in one commit.
InferEdges(r) ==
    /\ At(r, "edges")
    /\ ~StageCompleted("causal_inference", ckpt[r])
    /\ ~Unreadable(r)
    /\ \/ /\ links' = [links EXCEPT ![r] = {}]
          /\ UNCHANGED <<edges, fresh>>
       \/ /\ fresh <= MaxRows
          /\ edges' = Insert([id |-> fresh, layer |-> 0, audited |-> FALSE, evidence |-> 0], edges)
          /\ fresh' = fresh + 1
          /\ links' = [links EXCEPT ![r] = {fresh}]
    /\ Save("blind_scoring")
    /\ Goto(r, "audit")
    /\ UNCHANGED <<claims, request, ckpt, mine, fed, new, layer, history>>

Audited(ids) == {[e EXCEPT !.audited = e.audited \/ e.id \in ids] : e \in edges}

SkipAudit(r) ==
    /\ At(r, "audit")
    /\ StageCompleted("bias_audit", ckpt[r])
    /\ Goto(r, "ground")
    /\ UNCHANGED <<database, request, memory, history>>

\* (slip) the checkpoint lands before the edges it stands for.
SaveAuditFirst(r) ==
    /\ At(r, "audit")
    /\ ~StageCompleted("bias_audit", ckpt[r])
    /\ Save("bias_audit")
    /\ Goto(r, "ground")
    /\ UNCHANGED <<claims, edges, fresh, request, memory, history>>

AuditEdges(r) ==
    /\ At(r, "audit")
    /\ ~StageCompleted("bias_audit", ckpt[r])
    /\ edges' = Audited(links[r])
    /\ Save("bias_audit")
    /\ Goto(r, "ground")
    /\ UNCHANGED <<claims, fresh, request, memory, history>>

\* Bound: how often the same edge's evidence is told apart (saved twice is
\* already once too many).
MaxEvidence == 2

WithEvidence(ids) ==
    {[e EXCEPT !.evidence =
         IF e.id \in ids /\ e.evidence < MaxEvidence THEN @ + 1 ELSE @] : e \in edges}

\* Grounding already done, or nothing to ground (and then no checkpoint).
SkipGrounding(r) ==
    /\ At(r, "ground")
    /\ StageCompleted("evidence_grounding", ckpt[r]) \/ links[r] = {}
    /\ Goto(r, "discover")
    /\ UNCHANGED <<database, request, memory, history>>

\* (slip) the evidence is committed and the checkpoint left to a later commit.
GroundWithoutCheckpoint(r) ==
    /\ At(r, "ground")
    /\ ~StageCompleted("evidence_grounding", ckpt[r])
    /\ links[r] # {}
    /\ \E found \in SUBSET links[r] :
        /\ edges' = WithEvidence(found)
        /\ fed' = [fed EXCEPT ![r] = found]
    /\ Goto(r, "discover")
    /\ UNCHANGED <<project, claims, fresh, request, ckpt, mine, links, new, layer, history>>

\* Evidence for whatever was grounded before the timeout, all or none of it
\* included; evidence and checkpoint in one commit.  Statistical validation
\* follows and changes nothing told apart here.
GroundEdges(r) ==
    /\ At(r, "ground")
    /\ ~StageCompleted("evidence_grounding", ckpt[r])
    /\ links[r] # {}
    /\ \E found \in SUBSET links[r] :
        /\ edges' = WithEvidence(found)
        /\ fed' = [fed EXCEPT ![r] = found]
    /\ Save("evidence_grounding")
    /\ Goto(r, "discover")
    /\ UNCHANGED <<claims, fresh, request, ckpt, mine, links, new, layer, history>>

\* (slip) edges without evidence are read too.
DiscoverFromAnything(r) ==
    /\ At(r, "discover")
    /\ layer[r] < MaxLayers
    /\ links[r] # {}
    /\ fresh <= MaxRows
    /\ claims' = Insert([id |-> fresh, kind |-> "found", embedded |-> TRUE], claims)
    /\ fresh' = fresh + 1
    /\ mine' = [mine EXCEPT ![r] = @ \cup {fresh}]
    /\ layer' = [layer EXCEPT ![r] = @ + 1]
    /\ Goto(r, "incremental")
    /\ UNCHANGED <<project, edges, request, ckpt, links, fed, new, history>>

\* A layer that finds something: only edges with evidence in memory are read.
Discover(r) ==
    /\ At(r, "discover")
    /\ layer[r] < MaxLayers
    /\ fed[r] # {}
    /\ fresh <= MaxRows
    /\ claims' = Insert([id |-> fresh, kind |-> "found", embedded |-> TRUE], claims)
    /\ fresh' = fresh + 1
    /\ mine' = [mine EXCEPT ![r] = @ \cup {fresh}]
    /\ layer' = [layer EXCEPT ![r] = @ + 1]
    /\ Goto(r, "incremental")
    /\ UNCHANGED <<project, edges, request, ckpt, links, fed, new, history>>

\* (slip) the loop is left only when the layers are used up.
ConvergeAtTheLimit(r) ==
    /\ At(r, "discover")
    /\ layer[r] = MaxLayers
    /\ Goto(r, "finish")
    /\ UNCHANGED <<database, request, memory, history>>

\* No new claim, or no layer left.
Converge(r) ==
    /\ At(r, "discover")
    /\ Goto(r, "finish")
    /\ UNCHANGED <<database, request, memory, history>>

\* infer_incremental and the edge budget.  No edge at all ends the loop when
\* the layer found a single claim.
InferNewEdges(r) ==
    /\ At(r, "incremental")
    /\ ~Unreadable(r)
    /\ \/ /\ fresh <= MaxRows
          /\ edges' = Insert([id |-> fresh, layer |-> layer[r],
                              audited |-> FALSE, evidence |-> 0], edges)
          /\ fresh' = fresh + 1
          /\ new' = [new EXCEPT ![r] = fresh]
          /\ Goto(r, "layerAudit")
       \/ /\ \E next \in {"discover", "finish"} : Goto(r, next)
          /\ UNCHANGED <<edges, fresh, new>>
    /\ UNCHANGED <<project, claims, request, ckpt, mine, links, fed, layer, history>>

AuditNewEdges(r) ==
    /\ At(r, "layerAudit")
    /\ edges' = Audited({new[r]})
    /\ Goto(r, "layerGround")
    /\ UNCHANGED <<project, claims, fresh, request, memory, history>>

GroundNewEdges(r) ==
    /\ At(r, "layerGround")
    /\ \E found \in SUBSET {new[r]} :
        /\ edges' = WithEvidence(found)
        /\ fed' = [fed EXCEPT ![r] = @ \cup found]
    /\ links' = [links EXCEPT ![r] = @ \cup {new[r]}]
    /\ new' = [new EXCEPT ![r] = 0]
    /\ Goto(r, "discover")
    /\ UNCHANGED <<project, claims, fresh, request, ckpt, mine, layer, history>>

\* (slip) the run ends and the status is left to whoever polls.
CompleteQuietly(r) ==
    /\ At(r, "finish")
    /\ Goto(r, "downstream")
    /\ Forget(r)
    /\ UNCHANGED <<database, request, history>>

\* The graph is built, beliefs are propagated, and the project is completed.
Complete(r) ==
    /\ At(r, "finish")
    /\ project' = [project EXCEPT !.status = "completed"]
    /\ Goto(r, "downstream")
    /\ Forget(r)
    /\ UNCHANGED <<claims, edges, fresh, request, history>>

\* _generate_downstream: every failure of its stages is swallowed.
EndDownstream(r) ==
    /\ At(r, "downstream")
    /\ Goto(r, "free")
    /\ UNCHANGED <<database, request, memory, history>>

\* The two except clauses of run(): status "failed", in the session of the run.
\* It is rolled back only if it is broken; what else was written and not yet
\* committed lands with the status.  Between its writes and its commit only
\* EmbedClaims can raise on its own (an index past the rows), and a batch of which
\* some claims got their embedding is not an embedded one.
EndFailed(r) ==
    /\ project' = [project EXCEPT !.status = "failed"]
    /\ Goto(r, "free")
    /\ Forget(r)
    /\ UNCHANGED <<claims, edges, fresh, request, history>>

\* Comparing claims raises when one of them has no embedding.
Comparing(r) ==
    \/ At(r, "edges") /\ ~StageCompleted("causal_inference", ckpt[r])
    \/ At(r, "incremental")

InferRaises(r) ==
    /\ Comparing(r) /\ Unreadable(r)
    /\ EndFailed(r)

\* The bound: an insert past MaxRows is one that the database refuses.
OutOfRows(r) ==
    /\ fresh > MaxRows
    /\ At(r, "claims") /\ ~StageCompleted("claim_extraction", ckpt[r])
    /\ EndFailed(r)

\* A run whose project is gone: nothing it writes lands, and it raises or ends.
EndOrphaned(r) ==
    /\ ~Present
    /\ pc[r] # "free"
    /\ Goto(r, "free")
    /\ Forget(r)
    /\ UNCHANGED <<database, request, history>>

-----------------------------------------------------------------------------
(* What goes wrong. *)

\* The project is left without a run and without a status that says so.
Lose == lost' = (lost \/ (Present /\ project.status = "processing"))

\* A model, search or database call of a stage raises, and need not have.
StageFails(r) ==
    /\ Active(r) /\ pc[r] # "scheduled" /\ Present
    /\ ~(Comparing(r) /\ Unreadable(r))
    /\ EndFailed(r)

\* get_llm_client raises before there is a pipeline: no status is written.
NeverStarts(r) ==
    /\ Misconfigured
    /\ At(r, "scheduled")
    /\ Goto(r, "free")
    /\ Lose
    /\ UNCHANGED <<database, request, memory, raced>>

\* A stage raises, and "failed" cannot be written even after the rollback.
Unrecorded(r) ==
    /\ Outages
    /\ Active(r) /\ pc[r] # "scheduled" /\ Present
    /\ Goto(r, "free")
    /\ Forget(r)
    /\ Lose
    /\ UNCHANGED <<database, request, raced>>

\* The process dies and comes back: what is committed is all that is left.
Restart ==
    /\ Restarts
    /\ pc' = [r \in Runs |-> "free"]
    /\ request' = [c \in Clients |-> "idle"]
    /\ ckpt' = [r \in Runs |-> "none"]
    /\ mine' = [r \in Runs |-> {}]
    /\ links' = [r \in Runs |-> {}]
    /\ fed' = [r \in Runs |-> {}]
    /\ new' = [r \in Runs |-> 0]
    /\ layer' = [r \in Runs |-> 0]
    /\ Lose
    /\ UNCHANGED <<database, raced>>

-----------------------------------------------------------------------------

Seed(r) ==
    \/ LoadClaims(r) \/ ExtractClaims(r) \/ EmbedClaims(r)
    \/ SaveOutcomes(r) \/ SaveExtraction(r)
    \/ LoadEdges(r) \/ InferEdges(r)
    \/ SkipAudit(r) \/ AuditEdges(r)
    \/ SkipGrounding(r) \/ GroundEdges(r)

Layer(r) ==
    \/ Discover(r) \/ Converge(r)
    \/ InferNewEdges(r) \/ AuditNewEdges(r) \/ GroundNewEdges(r)

Step(r) ==
    \/ Begin(r) \/ Seed(r) \/ Layer(r)
    \/ Complete(r) \/ EndDownstream(r)
    \/ InferRaises(r) \/ OutOfRows(r) \/ EndOrphaned(r)

Fault == Restart \/ \E r \in Runs : StageFails(r) \/ NeverStarts(r) \/ Unrecorded(r)
Bounded == \E r \in Runs : OutOfRows(r)

Serve(c) == Check(c) \/ Launch(c) \/ LaunchRefused(c)

Next ==
    \/ CreateIntake
    \/ \E r \in Runs : Analyze(r)
    \/ \E c \in Clients : Serve(c)
    \/ Delete
    \/ \E r \in Runs : Step(r)
    \/ Fault

Spec == Init /\ [][Next]_vars

\* Every await of a run comes back: model and search calls have timeouts, and
\* the event loop resumes every task that is ready.
RunsProgress == \A r \in Runs : WF_vars(Step(r))

\* A client that goes on resuming, and a server that answers.
ClientsPersist == \A c \in Clients : WF_vars(Serve(c))

FairSpec == Spec /\ RunsProgress /\ ClientsPersist

-----------------------------------------------------------------------------
(* Properties. *)

\* The types of the committed rows, of the requests and of a run's memory.
TypeOK ==
    /\ project \in [row : {"absent", "present", "deleted"},
                    status : {"pending", "processing", "completed", "failed"},
                    checkpoint : Checkpoints]
    /\ claims \in SUBSET [id : 1..MaxRows, kind : {"seed", "outcome", "found"},
                          embedded : BOOLEAN]
    /\ edges \in SUBSET [id : 1..MaxRows, layer : 0..MaxLayers,
                         audited : BOOLEAN, evidence : 0..MaxEvidence]
    /\ fresh \in 1..(MaxRows + 1)
    /\ request \in [Clients -> {"idle", "admitted", "overtaken"}]
    /\ pc \in [Runs -> Places]
    /\ ckpt \in [Runs -> Checkpoints]
    /\ mine \in [Runs -> SUBSET (1..MaxRows)]
    /\ links \in [Runs -> SUBSET (1..MaxRows)]
    /\ fed \in [Runs -> SUBSET (1..MaxRows)]
    /\ new \in [Runs -> 0..MaxRows]
    /\ layer \in [Runs -> 0..MaxLayers]
    /\ {raced, lost} \subseteq BOOLEAN

\* The 409 ("Pipeline is already running", "Analysis already running") does keep
\* two runs from working on one project, through failures, restarts, resumes and
\* deletion, unless two requests overlap: what both read before either committed
\* (intake.py:163, analysis.py:487-495) lets the second launch over the first.
\* From such a launch on (raced) nothing is claimed, here and below.
OneRun == \A r, s \in Runs : Active(r) /\ Active(s) => r = s
OneRunAtATime == ~raced => OneRun

\* Whatever a run was doing when it failed or died, the checkpoint in the
\* database never claims more than the rows beside it: claims are embedded by
\* the extraction checkpoint, the seed edges are audited by the audit's, and
\* no edge has evidence before it was audited and that audit was committed.
CheckpointIsHonest == ~raced =>
    /\ Reached(project.checkpoint) >= Reached("claim_extraction")
         => \E c \in claims : c.kind = "seed" /\ c.embedded
    /\ Reached(project.checkpoint) < Reached("blind_scoring") => edges = {}
    /\ Reached(project.checkpoint) >= Reached("bias_audit")
         => \A e \in edges : e.layer = 0 => e.audited
    /\ \A e \in edges : e.evidence > 0
         => e.audited /\ project.checkpoint = "evidence_grounding"

\* However often a run is failed, killed and resumed, the evidence of an edge
\* is saved at most once: belief would otherwise count a source twice.
GroundedOnce == \A e \in edges : e.evidence <= 1
EvidenceSavedOnce == ~raced => GroundedOnce

\* Claims of a discovery layer come from evidence that was committed before
\* them, and edges of that layer only after its claims.
LayersRooted ==
    /\ (\E c \in claims : c.kind = "found") => \E e \in edges : e.evidence > 0
    /\ (\E e \in edges : e.layer > 0) => \E c \in claims : c.kind = "found"
LayersRestOnEvidence == ~raced => LayersRooted

\* While the project exists its checkpoint only moves forward, whatever fails,
\* dies or is resumed from it: each run writes from the one it read when it began
\* (orchestrator.py:327).  Two runs at a time may set it back; there are none
\* unless two launches overlapped (raced).
CheckpointNeverRegresses ==
    [][~raced' /\ project'.row = "present"
         => Reached(project'.checkpoint) >= Reached(project.checkpoint)]_vars

\* A run always ends, whatever fails in it and whoever deletes its project.
RunEnds == \A r \in Runs : Active(r) ~> ~Active(r)

\* A project does not stay "processing": it is completed, failed or deleted,
\* unless its run was lost, with the process (analysis.py:73), before there was a
\* pipeline to set a status (90), or with a database that refused it
\* (orchestrator.py:1441).  There it stays, since resume refuses it, although
\* HANDOVER.md:728-732 says that a failed run is marked and can be resumed.
ProcessingEnds ==
    project.status = "processing" ~> project.status # "processing" \/ lost

-----------------------------------------------------------------------------
(* What the code or its documents say and a run of the model contradicts.  *)

\* "The project is marked failed, committed checkpoints survive, and /resume
\* picks up from the last stage" (HANDOVER.md): once nothing goes wrong any
\* more, a failed project whose client resumes it is completed or deleted.
FailedIsResumable ==
    <>[][~(Fault \/ Bounded)]_vars =>
        (project.status = "failed" ~> project.status = "completed" \/ ~Present)

-----------------------------------------------------------------------------
\* AnalysisRun implements the state machine a client may rely on.
Phase ==
    IF raced THEN "contended"
    ELSE CASE project.row = "absent" -> "absent"
           [] project.row = "deleted" -> "gone"
           [] OTHER -> IF project.status # "processing" THEN "idle"
                       ELSE IF \E r \in Runs : Active(r) THEN "running"
                       ELSE "stranded"

Abstract == INSTANCE ResumableRun WITH
    LastMark <- StageOrder["evidence_grounding"],
    phase <- Phase,
    mark <- Reached(project.checkpoint)

ImplementsResumableRun == Abstract!Spec
=============================================================================
