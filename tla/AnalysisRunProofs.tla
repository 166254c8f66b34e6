-------------------------- MODULE AnalysisRunProofs --------------------------
(***************************************************************************)
(* An analysis, its run and the graph it ends with.                        *)
(*                                                                         *)
(* For any clients, run slots, layers and rows: the types of AnalysisRun,  *)
(* that it implements ResumableRun and, until a request launches over one  *)
(* that came in between (raced), that no two runs work on one project,     *)
(* that the checkpoint is honest and only moves forward, that no evidence  *)
(* is saved twice and that layers rest on evidence.  OneRunAtATime is not  *)
(* inductive: that a launch finds no other run rests on what the status    *)
(* says of the runs, and on what a client that passed the check and was    *)
(* not overtaken may still rely on.  Exclusive is the conjunction that is. *)
(*                                                                         *)
(* For any claims, links and answers of the model: that each claim of      *)
(* GraphBuild is asked about once and that the graph that is built has no  *)
(* cycle.  What breaks the cycles takes one link per round; that it takes  *)
(* any rests on a path that leads back to a node on a cycle (CycleHasPath) *)
(* and that the last round leaves no cycle on the number of links.         *)
(***************************************************************************)
EXTENDS AnalysisRun, GraphBuild, IndicesProofs

-----------------------------------------------------------------------------
(* Types. *)

ProjectRecords ==
    [row : {"absent", "present", "deleted"},
     status : {"pending", "processing", "completed", "failed"},
     checkpoint : Checkpoints]

ClaimRecords ==
    [id : 1..MaxRows, kind : {"seed", "outcome", "found"}, embedded : BOOLEAN]

EdgeRecords ==
    [id : 1..MaxRows, layer : 0..MaxLayers, audited : BOOLEAN,
     evidence : 0..MaxEvidence]

LEMMA InitType == Init => TypeOK
  <1> SUFFICES ASSUME Init PROVE TypeOK
    OBVIOUS
  <1>1. "none" \in Checkpoints /\ "free" \in Places
    BY DEF Checkpoints, Places
  <1>2. project \in ProjectRecords /\ fresh \in 1..(MaxRows + 1)
    BY <1>1, RowsAssumption DEF Init, ProjectRecords
  <1>3. pc \in [Runs -> Places] /\ ckpt \in [Runs -> Checkpoints]
    BY <1>1 DEF Init
  <1>4. new \in [Runs -> 0..MaxRows] /\ layer \in [Runs -> 0..MaxLayers]
    BY RowsAssumption, LayersAssumption DEF Init
  <1> QED
    BY <1>2, <1>3, <1>4 DEF Init, TypeOK, ProjectRecords

\* What a run has learnt is forgotten: its memory is typed whatever it was.
LEMMA ForgetType ==
    ASSUME TypeOK, NEW r \in Runs, Forget(r)
    PROVE  /\ ckpt' \in [Runs -> Checkpoints]
           /\ mine' \in [Runs -> SUBSET (1..MaxRows)]
           /\ links' \in [Runs -> SUBSET (1..MaxRows)]
           /\ fed' \in [Runs -> SUBSET (1..MaxRows)]
           /\ new' \in [Runs -> 0..MaxRows]
           /\ layer' \in [Runs -> 0..MaxLayers]
  BY RowsAssumption, LayersAssumption DEF Forget, TypeOK, Checkpoints

\* Updating the rows of a table in place keeps their type.
LEMMA EmbedType ==
    ASSUME NEW S \in SUBSET ClaimRecords, NEW ids
    PROVE  {[c EXCEPT !.embedded = c.embedded \/ c.id \in ids] : c \in S}
             \in SUBSET ClaimRecords
  <1> SUFFICES ASSUME NEW c \in S
               PROVE  [c EXCEPT !.embedded = c.embedded \/ c.id \in ids] \in ClaimRecords
    OBVIOUS
  <1>1. c \in ClaimRecords
    OBVIOUS
  <1>2. (c.embedded \/ c.id \in ids) \in BOOLEAN
    OBVIOUS
  <1> QED
    BY <1>1, <1>2 DEF ClaimRecords

LEMMA AuditType ==
    ASSUME TypeOK, NEW ids
    PROVE  Audited(ids) \in SUBSET EdgeRecords
  <1> SUFFICES ASSUME NEW e \in edges
               PROVE  [e EXCEPT !.audited = e.audited \/ e.id \in ids] \in EdgeRecords
    BY DEF Audited
  <1>1. e \in EdgeRecords
    BY DEF TypeOK, EdgeRecords
  <1>2. (e.audited \/ e.id \in ids) \in BOOLEAN
    OBVIOUS
  <1> QED
    BY <1>1, <1>2 DEF EdgeRecords

LEMMA EvidenceType ==
    ASSUME TypeOK, NEW ids
    PROVE  WithEvidence(ids) \in SUBSET EdgeRecords
  <1> DEFINE count(e) == IF e.id \in ids /\ e.evidence < MaxEvidence
                         THEN e.evidence + 1 ELSE e.evidence
  <1> SUFFICES ASSUME NEW e \in edges
               PROVE  [e EXCEPT !.evidence = count(e)] \in EdgeRecords
    BY DEF WithEvidence
  <1>1. e \in EdgeRecords
    BY DEF TypeOK, EdgeRecords
  <1>2. count(e) \in 0..MaxEvidence
    BY <1>1 DEF EdgeRecords, MaxEvidence
  <1> QED
    BY <1>1, <1>2 DEF EdgeRecords

\* A row inserted under the next unused id is well typed.
LEMMA FreshType ==
    ASSUME TypeOK, fresh <= MaxRows
    PROVE  fresh \in 1..MaxRows /\ fresh + 1 \in 1..(MaxRows + 1)
  BY RowsAssumption DEF TypeOK

LEMMA InsertClaimType ==
    ASSUME TypeOK, fresh <= MaxRows, NEW k \in {"seed", "outcome", "found"},
           NEW b \in BOOLEAN
    PROVE  Insert([id |-> fresh, kind |-> k, embedded |-> b], claims)
             \in SUBSET ClaimRecords
  <1>1. [id |-> fresh, kind |-> k, embedded |-> b] \in ClaimRecords
    BY FreshType DEF ClaimRecords
  <1> QED
    BY <1>1 DEF Insert, TypeOK, ClaimRecords

LEMMA InsertEdgeType ==
    ASSUME TypeOK, fresh <= MaxRows, NEW l \in 0..MaxLayers
    PROVE  Insert([id |-> fresh, layer |-> l, audited |-> FALSE, evidence |-> 0], edges)
             \in SUBSET EdgeRecords
  <1>1. 0 \in 0..MaxEvidence
    BY DEF MaxEvidence
  <1>2. [id |-> fresh, layer |-> l, audited |-> FALSE, evidence |-> 0] \in EdgeRecords
    BY <1>1, FreshType DEF EdgeRecords
  <1> QED
    BY <1>2 DEF Insert, TypeOK, EdgeRecords

LEMMA RequestType ==
    ASSUME TypeOK,
           \/ CreateIntake \/ Delete
           \/ \E r \in Runs : Analyze(r)
           \/ \E c \in Clients : Serve(c)
    PROVE  TypeOK'
  <1>1. CASE CreateIntake
    BY <1>1 DEF CreateIntake, TypeOK, memory, history
  <1>2. CASE Delete
    BY <1>2 DEF Delete, TypeOK, memory, history, Checkpoints
  <1>3. ASSUME NEW r \in Runs, Analyze(r) PROVE TypeOK'
    BY <1>3 DEF Analyze, Schedule, TypeOK, memory, history, Places, Pipeline
  <1>4. ASSUME NEW c \in Clients, Check(c) PROVE TypeOK'
    BY <1>4 DEF Check, TypeOK, memory, history, database
  <1>5. ASSUME NEW c \in Clients, Launch(c) PROVE TypeOK'
    BY <1>5 DEF Launch, Overtake, Schedule, TypeOK, memory, Places, Pipeline
  <1>6. ASSUME NEW c \in Clients, LaunchRefused(c) PROVE TypeOK'
    BY <1>6 DEF LaunchRefused, TypeOK, memory, history, database
  <1> QED
    BY <1>1, <1>2, <1>3, <1>4, <1>5, <1>6 DEF Serve

LEMMA SeedType ==
    ASSUME TypeOK, NEW r \in Runs, Begin(r) \/ Seed(r)
    PROVE  TypeOK'
  <1> USE DEF At, Goto, memory, database, history, Places, Pipeline
  <1>1. CASE Begin(r)
    BY <1>1 DEF Begin, TypeOK
  <1>2. CASE LoadClaims(r)
    <2>1. Ids(claims) \in SUBSET (1..MaxRows)
      BY DEF Ids, TypeOK
    <2> QED
      BY <1>2, <2>1 DEF LoadClaims, TypeOK
  <1>3. CASE ExtractClaims(r)
    <2>1. claims' \in SUBSET ClaimRecords
      BY <1>3, InsertClaimType DEF ExtractClaims
    <2>2. fresh \in 1..MaxRows /\ fresh' \in 1..(MaxRows + 1)
      BY <1>3, FreshType DEF ExtractClaims
    <2> QED
      BY <1>3, <2>1, <2>2 DEF ExtractClaims, TypeOK, ClaimRecords
  <1>4. CASE EmbedClaims(r)
    <2>1. claims' \in SUBSET ClaimRecords
      BY <1>4, EmbedType DEF EmbedClaims, TypeOK, ClaimRecords
    <2> QED
      BY <1>4, <2>1 DEF EmbedClaims, TypeOK, ClaimRecords
  <1>5. CASE SaveOutcomes(r)
    <2>1. CASE UNCHANGED <<claims, fresh, mine>>
      BY <1>5, <2>1 DEF SaveOutcomes, TypeOK
    <2>2. CASE ~UNCHANGED <<claims, fresh, mine>>
      <3>1. /\ fresh <= MaxRows /\ fresh' = fresh + 1
            /\ claims' = Insert([id |-> fresh, kind |-> "outcome", embedded |-> TRUE], claims)
            /\ mine' = [mine EXCEPT ![r] = mine[r] \cup {fresh}]
        BY <1>5, <2>2 DEF SaveOutcomes
      <3>2. claims' \in SUBSET ClaimRecords
        BY <3>1, InsertClaimType
      <3>3. fresh \in 1..MaxRows /\ fresh' \in 1..(MaxRows + 1)
        BY <3>1, FreshType
      <3> QED
        BY <1>5, <3>1, <3>2, <3>3 DEF SaveOutcomes, TypeOK, ClaimRecords
    <2> QED
      BY <2>1, <2>2
  <1>6. CASE SaveExtraction(r)
    BY <1>6 DEF SaveExtraction, Save, TypeOK, Checkpoints
  <1>7. CASE LoadEdges(r)
    <2>1. Ids(edges) \in SUBSET (1..MaxRows)
      BY DEF Ids, TypeOK
    <2> QED
      BY <1>7, <2>1 DEF LoadEdges, TypeOK
  <1>8. CASE InferEdges(r)
    <2>1. CASE /\ links' = [links EXCEPT ![r] = {}]
               /\ UNCHANGED <<edges, fresh>>
      BY <1>8, <2>1 DEF InferEdges, Save, TypeOK, Checkpoints
    <2>2. CASE /\ fresh <= MaxRows /\ fresh' = fresh + 1
               /\ edges' = Insert([id |-> fresh, layer |-> 0, audited |-> FALSE, evidence |-> 0], edges)
               /\ links' = [links EXCEPT ![r] = {fresh}]
      <3>1. edges' \in SUBSET EdgeRecords
        BY <2>2, InsertEdgeType, LayersAssumption
      <3>2. fresh \in 1..MaxRows /\ fresh' \in 1..(MaxRows + 1)
        BY <2>2, FreshType
      <3> QED
        BY <1>8, <2>2, <3>1, <3>2
           DEF InferEdges, Save, TypeOK, Checkpoints, EdgeRecords
    <2> QED
      BY <1>8, <2>1, <2>2 DEF InferEdges
  <1>9. CASE SkipAudit(r)
    BY <1>9 DEF SkipAudit, TypeOK
  <1>10. CASE AuditEdges(r)
    <2>1. edges' \in SUBSET EdgeRecords
      BY <1>10, AuditType DEF AuditEdges
    <2> QED
      BY <1>10, <2>1 DEF AuditEdges, Save, TypeOK, Checkpoints, EdgeRecords
  <1>11. CASE SkipGrounding(r)
    BY <1>11 DEF SkipGrounding, TypeOK
  <1>12. CASE GroundEdges(r)
    <2>1. PICK filled \in SUBSET links[r] :
            /\ edges' = WithEvidence(filled)
            /\ fed' = [fed EXCEPT ![r] = filled]
      BY <1>12 DEF GroundEdges
    <2>2. edges' \in SUBSET EdgeRecords
      BY <2>1, EvidenceType
    <2>3. filled \in SUBSET (1..MaxRows)
      BY <2>1 DEF TypeOK
    <2> QED
      BY <1>12, <2>1, <2>2, <2>3
         DEF GroundEdges, Save, TypeOK, Checkpoints, EdgeRecords
  <1> QED
    BY <1>1, <1>2, <1>3, <1>4, <1>5, <1>6, <1>7, <1>8, <1>9, <1>10, <1>11, <1>12
       DEF Seed

\* The edges a layer's audit and grounding work on have been saved.
NewEdgesSaved ==
    \A r \in Runs : pc[r] \in {"layerAudit", "layerGround"} => new[r] # 0

LEMMA LayerType ==
    ASSUME TypeOK, NewEdgesSaved, NEW r \in Runs, Layer(r)
    PROVE  TypeOK'
  <1> USE DEF At, Goto, memory, database, history, Places, Pipeline
  <1>1. CASE Discover(r)
    <2>1. claims' \in SUBSET ClaimRecords
      BY <1>1, InsertClaimType DEF Discover
    <2>2. fresh \in 1..MaxRows /\ fresh' \in 1..(MaxRows + 1)
      BY <1>1, FreshType DEF Discover
    <2>3. layer[r] + 1 \in 0..MaxLayers
      BY <1>1, LayersAssumption DEF Discover, TypeOK
    <2> QED
      BY <1>1, <2>1, <2>2, <2>3 DEF Discover, TypeOK, ClaimRecords
  <1>2. CASE Converge(r)
    BY <1>2 DEF Converge, TypeOK
  <1>3. CASE InferNewEdges(r)
    <2>1. CASE /\ \E next \in {"discover", "finish"} : Goto(r, next)
               /\ UNCHANGED <<edges, fresh, new>>
      BY <1>3, <2>1 DEF InferNewEdges, TypeOK
    <2>2. CASE /\ fresh <= MaxRows /\ fresh' = fresh + 1
               /\ edges' = Insert([id |-> fresh, layer |-> layer[r],
                                   audited |-> FALSE, evidence |-> 0], edges)
               /\ new' = [new EXCEPT ![r] = fresh]
               /\ Goto(r, "layerAudit")
      <3>1. edges' \in SUBSET EdgeRecords
        BY <2>2, InsertEdgeType DEF TypeOK
      <3>2. fresh \in 0..MaxRows /\ fresh' \in 1..(MaxRows + 1)
        BY <2>2, FreshType, RowsAssumption
      <3> QED
        BY <1>3, <2>2, <3>1, <3>2 DEF InferNewEdges, TypeOK, EdgeRecords
    <2> QED
      BY <1>3, <2>1, <2>2 DEF InferNewEdges
  <1>4. CASE AuditNewEdges(r)
    <2>1. edges' \in SUBSET EdgeRecords
      BY <1>4, AuditType DEF AuditNewEdges
    <2> QED
      BY <1>4, <2>1 DEF AuditNewEdges, TypeOK, EdgeRecords
  <1>5. CASE GroundNewEdges(r)
    <2>1. new[r] \in 1..MaxRows
      BY <1>5, RowsAssumption DEF GroundNewEdges, NewEdgesSaved, TypeOK
    <2>2. PICK filled \in SUBSET {new[r]} :
            /\ edges' = WithEvidence(filled)
            /\ fed' = [fed EXCEPT ![r] = fed[r] \cup filled]
      BY <1>5 DEF GroundNewEdges
    <2>3. edges' \in SUBSET EdgeRecords
      BY <2>2, EvidenceType
    <2>4. /\ fed[r] \cup filled \in SUBSET (1..MaxRows)
          /\ links[r] \cup {new[r]} \in SUBSET (1..MaxRows)
      BY <2>1, <2>2 DEF TypeOK
    <2>5. 0 \in 0..MaxRows
      BY RowsAssumption
    <2> QED
      BY <1>5, <2>2, <2>3, <2>4, <2>5 DEF GroundNewEdges, TypeOK, EdgeRecords
  <1> QED
    BY <1>1, <1>2, <1>3, <1>4, <1>5 DEF Layer

\* The ways a run is over: completed, failed, swallowed or killed.
LEMMA EndType ==
    ASSUME TypeOK,
           \/ Restart
           \/ \E r \in Runs :
                \/ Complete(r) \/ EndDownstream(r) \/ EndOrphaned(r)
                \/ NeverStarts(r) \/ Unrecorded(r) \/ EndFailed(r)
    PROVE  TypeOK'
  <1> USE DEF At, Goto, database, history, Places, Pipeline
  <1>1. CASE Restart
    <2>1. "none" \in Checkpoints /\ 0 \in 0..MaxRows /\ 0 \in 0..MaxLayers
      BY RowsAssumption, LayersAssumption DEF Checkpoints
    <2> QED
      BY <1>1, <2>1 DEF Restart, Lose, TypeOK
  <1>2. ASSUME NEW r \in Runs, Complete(r) PROVE TypeOK'
    <2>1. Forget(r)
      BY <1>2 DEF Complete
    <2> QED
      BY <1>2, <2>1, ForgetType DEF Complete, TypeOK
  <1>3. ASSUME NEW r \in Runs, EndDownstream(r) PROVE TypeOK'
    BY <1>3 DEF EndDownstream, TypeOK, memory
  <1>4. ASSUME NEW r \in Runs, EndOrphaned(r) PROVE TypeOK'
    <2>1. Forget(r)
      BY <1>4 DEF EndOrphaned
    <2> QED
      BY <1>4, <2>1, ForgetType DEF EndOrphaned, TypeOK
  <1>5. ASSUME NEW r \in Runs, NeverStarts(r) PROVE TypeOK'
    BY <1>5 DEF NeverStarts, Lose, TypeOK, memory
  <1>7. ASSUME NEW r \in Runs, Unrecorded(r) PROVE TypeOK'
    <2>1. Forget(r)
      BY <1>7 DEF Unrecorded
    <2> QED
      BY <1>7, <2>1, ForgetType DEF Unrecorded, Lose, TypeOK
  <1>6. ASSUME NEW r \in Runs, EndFailed(r) PROVE TypeOK'
    <2>1. Forget(r)
      BY <1>6 DEF EndFailed
    <2> QED
      BY <1>6, <2>1, ForgetType DEF EndFailed, TypeOK
  <1> QED
    BY <1>1, <1>2, <1>3, <1>4, <1>5, <1>6, <1>7

\* Every step is a request's, a stage's, or the end of a run.
LEMMA NextCases ==
    ASSUME Next
    PROVE  \/ \/ CreateIntake \/ Delete
              \/ \E r \in Runs : Analyze(r)
              \/ \E c \in Clients : Serve(c)
           \/ \E r \in Runs : Begin(r) \/ Seed(r)
           \/ \E r \in Runs : Layer(r)
           \/ \/ Restart
              \/ \E r \in Runs :
                   \/ Complete(r) \/ EndDownstream(r) \/ EndOrphaned(r)
                   \/ NeverStarts(r) \/ Unrecorded(r) \/ EndFailed(r)
  BY DEF Next, Step, Fault, InferRaises, OutOfRows, StageFails

LEMMA NewEdgesStep ==
    ASSUME TypeOK, NewEdgesSaved, [Next]_vars
    PROVE  NewEdgesSaved'
  <1> USE DEF NewEdgesSaved, TypeOK, At, Goto, memory, database, history, Places, Pipeline
  <1>1. CASE UNCHANGED vars
    BY <1>1 DEF vars
  <1>2. CASE \/ CreateIntake \/ Delete
             \/ \E r \in Runs : Analyze(r)
             \/ \E c \in Clients : Serve(c)
    BY <1>2 DEF CreateIntake, Delete, Analyze, Schedule, Serve, Check, Launch, LaunchRefused
  <1>3. ASSUME NEW r \in Runs, Begin(r) \/ Seed(r)
        PROVE  NewEdgesSaved'
    BY <1>3 DEF Begin, Seed, LoadClaims, ExtractClaims, EmbedClaims, SaveOutcomes,
       SaveExtraction, LoadEdges, InferEdges, SkipAudit, AuditEdges, SkipGrounding,
       GroundEdges
  <1>4. ASSUME NEW r \in Runs, Layer(r)
        PROVE  NewEdgesSaved'
    BY <1>4 DEF Layer, Discover, Converge, InferNewEdges, AuditNewEdges, GroundNewEdges
  <1>5. CASE \/ Restart
             \/ \E r \in Runs :
                   \/ Complete(r) \/ EndDownstream(r) \/ EndOrphaned(r)
                   \/ NeverStarts(r) \/ Unrecorded(r) \/ EndFailed(r)
    BY <1>5 DEF Restart, Complete, EndDownstream, EndOrphaned, NeverStarts, Unrecorded,
       EndFailed, Forget
  <1> QED
    BY <1>1, <1>2, <1>3, <1>4, <1>5, NextCases

LEMMA StepType ==
    ASSUME TypeOK, NewEdgesSaved, [Next]_vars
    PROVE  TypeOK'
  <1>1. CASE UNCHANGED vars
    BY <1>1 DEF vars, database, memory, history, TypeOK
  <1>2. CASE Next
    BY <1>2, NextCases, RequestType, SeedType, LayerType, EndType
  <1> QED
    BY <1>1, <1>2

\* The types hold in every state of every behaviour of CausalPipeline.run, its
\* requests and its faults.
THEOREM TypeCorrect == Spec => []TypeOK
  <1>1. Init => TypeOK /\ NewEdgesSaved
    BY InitType DEF Init, NewEdgesSaved
  <1>2. TypeOK /\ NewEdgesSaved /\ [Next]_vars => TypeOK' /\ NewEdgesSaved'
    BY StepType, NewEdgesStep
  <1> QED
    BY <1>1, <1>2, PTL DEF Spec

-----------------------------------------------------------------------------
(* One run at a time. *)

\* A project with a run is "processing" or deleted; a request that was admitted
\* and not overtaken, on the contrary, belongs to a project that is not (or is
\* deleted).
Exclusive ==
    /\ OneRun
    /\ \A r \in Runs : Active(r) =>
          \/ project.row = "deleted"
          \/ project.row = "present" /\ project.status = "processing"
    /\ \A c \in Clients : request[c] = "admitted" =>
          \/ project.row = "deleted"
          \/ project.row = "present" /\ project.status # "processing"

\* A stage moves its own run and leaves status and requests alone.
Moves(r) ==
    /\ Active(r)
    /\ \E place \in Places : pc' = [pc EXCEPT ![r] = place]
    /\ project'.row = project.row /\ project'.status = project.status
    /\ UNCHANGED request

LEMMA StagesMove ==
    ASSUME TypeOK, NEW r \in Runs, Begin(r) \/ Seed(r) \/ Layer(r)
    PROVE  Moves(r)
  <1> USE DEF TypeOK, At, Goto, Active, Moves, memory, database, Places, Pipeline
  <1>1. CASE Begin(r) \/ LoadClaims(r) \/ ExtractClaims(r) \/ EmbedClaims(r)
             \/ SaveOutcomes(r) \/ LoadEdges(r) \/ SkipAudit(r) \/ SkipGrounding(r)
    BY <1>1 DEF Begin, LoadClaims, ExtractClaims, EmbedClaims, SaveOutcomes,
       LoadEdges, SkipAudit, SkipGrounding
  <1>2. CASE SaveExtraction(r) \/ InferEdges(r) \/ AuditEdges(r) \/ GroundEdges(r)
    BY <1>2 DEF SaveExtraction, InferEdges, AuditEdges, GroundEdges, Save
  <1>3. CASE Layer(r)
    BY <1>3 DEF Layer, Discover, Converge, InferNewEdges, AuditNewEdges, GroundNewEdges
  <1> QED
    BY <1>1, <1>2, <1>3 DEF Seed

LEMMA MoveExclusive ==
    ASSUME TypeOK, Exclusive, NEW r \in Runs, Moves(r)
    PROVE  Exclusive'
  BY DEF Moves, Exclusive, OneRun, Active, TypeOK

\* Only a launch over a run begins a race.
LEMMA RaceBegins ==
    ASSUME TypeOK, [Next]_vars, raced' # raced
    PROVE  \E c \in Clients :
              Launch(c) /\ raced' /\ Present /\ project.status = "processing"
  <1> USE DEF history, TypeOK
  <1>1. CASE UNCHANGED vars
    BY <1>1 DEF vars
  <1>2. CASE \/ CreateIntake \/ Delete
             \/ \E r \in Runs : Analyze(r)
             \/ \E c \in Clients : Check(c) \/ LaunchRefused(c)
    BY <1>2 DEF CreateIntake, Delete, Analyze, Check, LaunchRefused
  <1>3. ASSUME NEW r \in Runs, Begin(r) \/ Seed(r)
        PROVE  raced' = raced
    BY <1>3 DEF Begin, Seed, LoadClaims, ExtractClaims, EmbedClaims, SaveOutcomes,
       SaveExtraction, LoadEdges, InferEdges, SkipAudit, AuditEdges, SkipGrounding,
       GroundEdges
  <1>4. ASSUME NEW r \in Runs, Layer(r)
        PROVE  raced' = raced
    BY <1>4 DEF Layer, Discover, Converge, InferNewEdges, AuditNewEdges, GroundNewEdges
  <1>5. CASE \/ Restart
             \/ \E r \in Runs :
                   \/ Complete(r) \/ EndDownstream(r) \/ EndOrphaned(r)
                   \/ NeverStarts(r) \/ Unrecorded(r) \/ EndFailed(r)
    BY <1>5 DEF Restart, Complete, EndDownstream, EndOrphaned, NeverStarts, Unrecorded,
       EndFailed
  <1>6. ASSUME NEW c \in Clients, Launch(c)
        PROVE  raced' /\ Present /\ project.status = "processing"
    BY <1>6 DEF Launch
  <1> QED
    BY <1>1, <1>2, <1>3, <1>4, <1>5, <1>6, NextCases DEF Serve

\* Where there is no race now there was none before.
LEMMA RacedStays ==
    ASSUME TypeOK, [Next]_vars, ~raced'
    PROVE  ~raced
  BY RaceBegins DEF TypeOK

LEMMA RequestExclusive ==
    ASSUME TypeOK, Exclusive, ~raced',
           \/ CreateIntake \/ Delete
           \/ \E r \in Runs : Analyze(r)
           \/ \E c \in Clients : Serve(c)
    PROVE  Exclusive'
  <1> USE DEF Exclusive, OneRun, Active, TypeOK, Present, Pipeline
  <1>1. CASE CreateIntake
    BY <1>1 DEF CreateIntake
  <1>2. CASE Delete
    BY <1>2 DEF Delete
  <1>3. ASSUME NEW r \in Runs, Analyze(r) PROVE Exclusive'
    BY <1>3 DEF Analyze, Schedule
  <1>4. ASSUME NEW c \in Clients, Check(c) PROVE Exclusive'
    BY <1>4 DEF Check, database
  <1>5. ASSUME NEW c \in Clients, Launch(c) PROVE Exclusive'
    <2>1. project.row = "present" /\ project.status # "processing"
      BY <1>5 DEF Launch
    <2>2. \A r \in Runs : ~Active(r)
      BY <2>1
    <2>3. \A d \in Clients : request'[d] # "admitted"
      BY <1>5 DEF Launch, Overtake
    <2> QED
      BY <1>5, <2>2, <2>3 DEF Launch, Schedule
  <1>6. ASSUME NEW c \in Clients, LaunchRefused(c) PROVE Exclusive'
    BY <1>6 DEF LaunchRefused, database
  <1> QED
    BY <1>1, <1>2, <1>3, <1>4, <1>5, <1>6 DEF Serve

LEMMA EndExclusive ==
    ASSUME TypeOK, Exclusive, NEW r \in Runs,
           \/ Complete(r) \/ EndDownstream(r) \/ EndOrphaned(r) \/ NeverStarts(r)
           \/ Unrecorded(r) \/ InferRaises(r) \/ OutOfRows(r) \/ StageFails(r)
    PROVE  Exclusive'
  <1> USE DEF Exclusive, OneRun, Active, TypeOK, Present, Pipeline, At, Goto
  <1>1. CASE EndDownstream(r) \/ EndOrphaned(r) \/ NeverStarts(r) \/ Unrecorded(r)
    BY <1>1 DEF EndDownstream, EndOrphaned, NeverStarts, Unrecorded, database
  <1>2. CASE Complete(r)
    BY <1>2 DEF Complete
  <1>3. CASE InferRaises(r) \/ OutOfRows(r) \/ StageFails(r)
    <2>1. Active(r) /\ Present /\ EndFailed(r)
      BY <1>3 DEF InferRaises, OutOfRows, StageFails, Comparing
    <2> QED
      BY <2>1 DEF EndFailed
  <1> QED
    BY <1>1, <1>2, <1>3

LEMMA ExclusiveStep ==
    ASSUME TypeOK, Exclusive, [Next]_vars, ~raced'
    PROVE  Exclusive'
  <1>1. CASE UNCHANGED vars
    BY <1>1 DEF vars, database, Exclusive, OneRun, Active
  <1>2. CASE \/ CreateIntake \/ Delete
             \/ \E r \in Runs : Analyze(r)
             \/ \E c \in Clients : Serve(c)
    BY <1>2, RequestExclusive
  <1>3. ASSUME NEW r \in Runs, Begin(r) \/ Seed(r) \/ Layer(r)
        PROVE  Exclusive'
    BY <1>3, StagesMove, MoveExclusive
  <1>4. ASSUME NEW r \in Runs,
               \/ Complete(r) \/ EndDownstream(r) \/ EndOrphaned(r) \/ NeverStarts(r)
               \/ Unrecorded(r) \/ InferRaises(r) \/ OutOfRows(r) \/ StageFails(r)
        PROVE  Exclusive'
    BY <1>4, EndExclusive
  <1>5. CASE Restart
    BY <1>5 DEF Restart, database, Exclusive, OneRun, Active, Pipeline
  <1> QED
    BY <1>1, <1>2, <1>3, <1>4, <1>5 DEF Next, Step, Fault

\* However many clients there are, whatever fails and whenever, no two runs are
\* ever between their start and their end on the same project, unless a request
\* launched over one that came in between its check and its commit: the guard
\* "Pipeline is already running" (analysis.py:487) is enough for the others.
THEOREM RunsDoNotOverlap == Spec => []OneRunAtATime
  <1> DEFINE I == TypeOK /\ NewEdgesSaved /\ (~raced => Exclusive)
  <1>1. Init => I
    BY InitType DEF Init, NewEdgesSaved, Exclusive, OneRun, Active, Pipeline
  <1>2. I /\ [Next]_vars => I'
    BY StepType, NewEdgesStep, RacedStays, ExclusiveStep
  <1>3. I => OneRunAtATime
    BY DEF Exclusive, OneRunAtATime
  <1> QED
    BY <1>1, <1>2, <1>3, PTL DEF Spec

-----------------------------------------------------------------------------
(***************************************************************************)
(* The checkpoint in the database is honest after every commit, for any    *)
(* clients, slots, layers and rows, whatever fails and whenever, as long   *)
(* as no launch raced.                                                     *)
(*                                                                         *)
(* CheckpointIsHonest is not inductive: it says nothing of what a run      *)
(* still holds.  RowsMatch strengthens it on the side of the database (no  *)
(* edge of a layer before the evidence is committed, no evidence in memory *)
(* either), and InStep(r) says, for the place a run is at, how the         *)
(* checkpoint it read relates to the one that is there now.  That no other *)
(* run moves it meanwhile is Exclusive.                                    *)
(***************************************************************************)

P == project.checkpoint

EmbeddedSeed == \E c \in claims : c.kind = "seed" /\ c.embedded
HeldSeed(r) == \E c \in claims : c.id \in mine[r] /\ c.kind = "seed"

RowsMatch ==
    /\ P # "none" => EmbeddedSeed
    /\ P \in {"none", "claim_extraction"} => edges = {}
    /\ P \in {"bias_audit", "evidence_grounding"}
         => \A e \in edges : e.layer = 0 => e.audited
    /\ P # "evidence_grounding" => \A e \in edges : e.layer = 0
    /\ \A e \in edges : e.evidence > 0 => e.audited /\ P = "evidence_grounding"
    /\ \A r \in Runs : fed[r] # {} =>
          project.row = "deleted" \/ P = "evidence_grounding"

InStep(r) ==
    /\ pc[r] = "claims" => ckpt[r] = P
    /\ pc[r] \in {"embed", "outcomes", "checkpoint"} => ckpt[r] = "none" /\ P = "none"
    /\ pc[r] = "embed" => HeldSeed(r)
    /\ pc[r] \in {"outcomes", "checkpoint"} => EmbeddedSeed
    /\ pc[r] = "edges" =>
         IF ckpt[r] \in {"none", "claim_extraction"}
         THEN P = "claim_extraction" ELSE P = ckpt[r]
    /\ pc[r] = "audit" =>
         IF ckpt[r] \in {"bias_audit", "evidence_grounding"}
         THEN P = ckpt[r] ELSE P = "blind_scoring" /\ links[r] = Ids(edges)
    /\ pc[r] = "ground" =>
         IF ckpt[r] = "evidence_grounding"
         THEN P = "evidence_grounding" ELSE P = "bias_audit"
    /\ pc[r] \in {"incremental", "layerAudit", "layerGround"} =>
         P = "evidence_grounding" /\ layer[r] # 0
    /\ pc[r] = "layerGround" => \A e \in edges : e.id = new[r] => e.audited

Consistent ==
    /\ RowsMatch
    /\ project.row = "present" => \A r \in Runs : InStep(r)

-----------------------------------------------------------------------------
(* Lemmas: the order of the stages, and what the updates of a table do. *)

\* _stage_completed, checkpoint by checkpoint.
LEMMA CompletedMeans ==
    ASSUME NEW c \in Checkpoints
    PROVE  /\ StageCompleted("claim_extraction", c) <=> c # "none"
           /\ StageCompleted("causal_inference", c) <=> c \notin {"none", "claim_extraction"}
           /\ StageCompleted("bias_audit", c) <=> c \in {"bias_audit", "evidence_grounding"}
           /\ StageCompleted("evidence_grounding", c) <=> c = "evidence_grounding"
  BY DEF StageCompleted, StageOrder, Checkpoints

LEMMA ReachedMeans ==
    ASSUME NEW c \in Checkpoints
    PROVE  /\ Reached(c) >= Reached("claim_extraction") <=> c # "none"
           /\ Reached(c) < Reached("blind_scoring") <=> c \in {"none", "claim_extraction"}
           /\ Reached(c) >= Reached("bias_audit") <=> c \in {"bias_audit", "evidence_grounding"}
  BY DEF Reached, StageOrder, Checkpoints

LEMMA SaveMeans ==
    ASSUME TypeOK, NEW stage, Save(stage)
    PROVE  /\ P' = stage
           /\ project'.row = project.row
  BY DEF TypeOK, Save, P

\* Embedding the claims of a run embeds the seed among them, and loses none.
LEMMA EmbedMeans ==
    ASSUME TypeOK, NEW ids, NEW c \in claims,
           claims' = {[d EXCEPT !.embedded = d.embedded \/ d.id \in ids] : d \in claims},
           c.kind = "seed", c.embedded \/ c.id \in ids
    PROVE  EmbeddedSeed'
  <1> DEFINE x == [c EXCEPT !.embedded = c.embedded \/ c.id \in ids]
  <1>1. x \in claims'
    OBVIOUS
  <1>2. c \in ClaimRecords
    BY DEF TypeOK, ClaimRecords
  <1>3. x.kind = "seed" /\ x.embedded
    BY <1>2 DEF ClaimRecords
  <1> QED
    BY <1>1, <1>3 DEF EmbeddedSeed

\* An audit marks the edges it was given and changes nothing else.
LEMMA AuditMeans ==
    ASSUME TypeOK, NEW ids, NEW x \in Audited(ids)
    PROVE  \E e \in edges :
              /\ x.id = e.id /\ x.layer = e.layer /\ x.evidence = e.evidence
              /\ x.audited = (e.audited \/ e.id \in ids)
  <1>1. PICK e \in edges : x = [e EXCEPT !.audited = e.audited \/ e.id \in ids]
    BY DEF Audited
  <1>2. e \in EdgeRecords
    BY DEF TypeOK, EdgeRecords
  <1>3. /\ x.id = e.id /\ x.layer = e.layer /\ x.evidence = e.evidence
        /\ x.audited = (e.audited \/ e.id \in ids)
    BY <1>1, <1>2 DEF EdgeRecords
  <1> QED
    BY <1>3

\* Evidence is added to the edges it was found for and to no other.
LEMMA EvidenceMeans ==
    ASSUME TypeOK, NEW ids, NEW x \in WithEvidence(ids)
    PROVE  \E e \in edges :
              /\ x.id = e.id /\ x.layer = e.layer /\ x.audited = e.audited
              /\ x.evidence > 0 => e.evidence > 0 \/ e.id \in ids
  <1> DEFINE count(e) == IF e.id \in ids /\ e.evidence < MaxEvidence
                         THEN e.evidence + 1 ELSE e.evidence
  <1>1. PICK e \in edges : x = [e EXCEPT !.evidence = count(e)]
    BY DEF WithEvidence
  <1>2. e \in EdgeRecords
    BY DEF TypeOK, EdgeRecords
  <1>3. /\ x.id = e.id /\ x.layer = e.layer /\ x.audited = e.audited
        /\ x.evidence = count(e)
    BY <1>1, <1>2 DEF EdgeRecords
  <1>4. count(e) > 0 => e.evidence > 0 \/ e.id \in ids
    BY <1>2 DEF EdgeRecords
  <1> QED
    BY <1>3, <1>4

-----------------------------------------------------------------------------
(* The stages. *)

LEMMA SeedMatches ==
    ASSUME TypeOK, RowsMatch, NEW r \in Runs, InStep(r), Present,
           Begin(r) \/ Seed(r)
    PROVE  RowsMatch' /\ InStep(r)'
  <1> USE DEF At, Goto, memory, database
  <1>0. P \in Checkpoints /\ ckpt[r] \in Checkpoints /\ pc \in [Runs -> Places]
    BY DEF TypeOK, P
  <1>1. CASE Begin(r)
    BY <1>1 DEF Begin, TypeOK, RowsMatch, InStep, P, EmbeddedSeed
  <1>2. CASE LoadClaims(r)
    BY <1>0, <1>2, CompletedMeans
       DEF LoadClaims, TypeOK, RowsMatch, InStep, P, EmbeddedSeed
  <1>3. CASE ExtractClaims(r)
    <2>1. P = "none"
      BY <1>0, <1>3, CompletedMeans DEF ExtractClaims, InStep
    <2>2. HeldSeed(r)'
      <3> DEFINE x == [id |-> fresh, kind |-> "seed", embedded |-> FALSE]
      <3>1. x \in claims' /\ x.id \in mine'[r] /\ x.kind = "seed"
        BY <1>3 DEF ExtractClaims, Insert, TypeOK
      <3> QED
        BY <3>1 DEF HeldSeed
    <2> QED
      BY <1>3, <2>1, <2>2 DEF ExtractClaims, TypeOK, RowsMatch, InStep, P
  <1>4. CASE EmbedClaims(r)
    <2>1. P = "none" /\ HeldSeed(r)
      BY <1>4 DEF EmbedClaims, InStep
    <2>2. EmbeddedSeed'
      BY <1>4, <2>1, EmbedMeans DEF EmbedClaims, HeldSeed
    <2> QED
      BY <1>4, <2>1, <2>2 DEF EmbedClaims, TypeOK, RowsMatch, InStep, P
  <1>5. CASE SaveOutcomes(r)
    <2>1. P = "none" /\ EmbeddedSeed
      BY <1>5 DEF SaveOutcomes, InStep
    <2>2. EmbeddedSeed'
      BY <1>5, <2>1 DEF SaveOutcomes, EmbeddedSeed, Insert
    <2> QED
      BY <1>5, <2>1, <2>2 DEF SaveOutcomes, TypeOK, RowsMatch, InStep, P
  <1>6. CASE SaveExtraction(r)
    <2>1. P = "none" /\ EmbeddedSeed
      BY <1>6 DEF SaveExtraction, InStep
    <2>2. P' = "claim_extraction" /\ project'.row = project.row
      BY <1>6, SaveMeans DEF SaveExtraction
    <2>3. EmbeddedSeed'
      BY <1>6, <2>1 DEF SaveExtraction, EmbeddedSeed
    <2>4. ckpt[r] = "none"
      BY <1>6 DEF SaveExtraction, InStep
    <2> QED
      BY <1>6, <2>1, <2>2, <2>3, <2>4 DEF SaveExtraction, TypeOK, RowsMatch, InStep
  <1>7. CASE LoadEdges(r)
    <2>1. RowsMatch'
      BY <1>7 DEF LoadEdges, RowsMatch, P, EmbeddedSeed
    <2>2. ckpt[r] \notin {"none", "claim_extraction"} /\ P = ckpt[r]
      BY <1>0, <1>7, CompletedMeans DEF LoadEdges, InStep
    <2>3. /\ pc' = [pc EXCEPT ![r] = "audit"] /\ links'[r] = Ids(edges)
          /\ ckpt' = ckpt /\ project' = project /\ edges' = edges
      BY <1>7 DEF LoadEdges, TypeOK
    <2>4. pc'[r] = "audit" /\ P' = P /\ Ids(edges)' = Ids(edges)
      BY <1>0, <2>3 DEF P, Ids
    <2>5. ckpt[r] \notin {"bias_audit", "evidence_grounding"} => P = "blind_scoring"
      BY <1>0, <2>2 DEF Checkpoints
    <2> QED
      BY <2>1, <2>2, <2>3, <2>4, <2>5 DEF InStep
  <1>8. CASE InferEdges(r)
    <2>1. P = "claim_extraction" /\ edges = {} /\ EmbeddedSeed
      BY <1>0, <1>8, CompletedMeans DEF InferEdges, InStep, RowsMatch
    <2>2. P' = "blind_scoring" /\ project'.row = project.row
      BY <1>8, SaveMeans DEF InferEdges
    <2>3. EmbeddedSeed'
      BY <1>8, <2>1 DEF InferEdges, EmbeddedSeed
    <2>4. links'[r] = Ids(edges)' /\ \A e \in edges' : e.layer = 0 /\ e.evidence = 0
      <3>1. CASE links' = [links EXCEPT ![r] = {}] /\ UNCHANGED <<edges, fresh>>
        BY <2>1, <3>1 DEF TypeOK, Ids
      <3>2. CASE /\ edges' = Insert([id |-> fresh, layer |-> 0, audited |-> FALSE, evidence |-> 0], edges)
                 /\ links' = [links EXCEPT ![r] = {fresh}]
        BY <2>1, <3>2 DEF TypeOK, Ids, Insert
      <3> QED
        BY <1>8, <3>1, <3>2 DEF InferEdges
    <2>5. ckpt[r] \in {"none", "claim_extraction"}
      BY <1>0, <1>8, CompletedMeans DEF InferEdges
    <2>6. \A e \in edges' : ~(e.evidence > 0)
      BY <2>4
    <2> QED
      BY <1>8, <2>1, <2>2, <2>3, <2>4, <2>5, <2>6 DEF InferEdges, TypeOK, RowsMatch, InStep
  <1>9. CASE SkipAudit(r)
    BY <1>0, <1>9, CompletedMeans
       DEF SkipAudit, TypeOK, RowsMatch, InStep, P, EmbeddedSeed
  <1>10. CASE AuditEdges(r)
    <2>1. P = "blind_scoring" /\ links[r] = Ids(edges)
      BY <1>0, <1>10, CompletedMeans DEF AuditEdges, InStep
    <2>2. P' = "bias_audit" /\ project'.row = project.row
      BY <1>10, SaveMeans DEF AuditEdges
    <2>3. EmbeddedSeed'
      BY <1>10, <2>1 DEF AuditEdges, RowsMatch, EmbeddedSeed
    <2>4. ASSUME NEW x \in edges'
          PROVE  x.layer = 0 /\ x.audited /\ ~(x.evidence > 0)
      <3>1. PICK e \in edges : /\ x.layer = e.layer /\ x.evidence = e.evidence
                               /\ x.audited = (e.audited \/ e.id \in links[r])
        BY <1>10, AuditMeans DEF AuditEdges
      <3>2. e.id \in links[r]
        BY <2>1 DEF Ids
      <3> QED
        BY <2>1, <3>1, <3>2 DEF RowsMatch
    <2>5. /\ pc' = [pc EXCEPT ![r] = "ground"]
          /\ ckpt' = ckpt /\ fed' = fed
          /\ ckpt[r] # "evidence_grounding"
      BY <1>0, <1>10, CompletedMeans DEF AuditEdges
    <2>6. \A s \in Runs : fed[s] # {} => project.row = "deleted"
      BY <2>1 DEF RowsMatch
    <2>7. RowsMatch'
      <3>1. \A x \in edges' : x.layer = 0 /\ x.audited /\ ~(x.evidence > 0)
        BY <2>4
      <3> QED
        BY <2>2, <2>3, <2>5, <2>6, <3>1 DEF RowsMatch
    <2>8. pc'[r] = "ground"
      BY <1>0, <2>5
    <2>9. InStep(r)'
      BY <2>2, <2>5, <2>8 DEF InStep
    <2> QED
      BY <2>7, <2>9
  <1>11. CASE SkipGrounding(r)
    BY <1>11 DEF SkipGrounding, TypeOK, RowsMatch, InStep, P, EmbeddedSeed
  <1>12. CASE GroundEdges(r)
    <2>1. P = "bias_audit"
      BY <1>0, <1>12, CompletedMeans DEF GroundEdges, InStep
    <2>2. P' = "evidence_grounding" /\ project'.row = project.row
      BY <1>12, SaveMeans DEF GroundEdges
    <2>3. EmbeddedSeed'
      BY <1>12, <2>1 DEF GroundEdges, RowsMatch, EmbeddedSeed
    <2>4. ASSUME NEW x \in edges'
          PROVE  x.audited
      <3>1. PICK filled \in SUBSET links[r] : edges' = WithEvidence(filled)
        BY <1>12 DEF GroundEdges
      <3>2. PICK e \in edges : x.layer = e.layer /\ x.audited = e.audited
        BY <3>1, EvidenceMeans
      <3> QED
        BY <2>1, <3>2 DEF RowsMatch
    <2>5. pc' = [pc EXCEPT ![r] = "discover"]
      BY <1>12 DEF GroundEdges
    <2> QED
      BY <1>0, <2>2, <2>3, <2>4, <2>5 DEF RowsMatch, InStep
  <1> QED
    BY <1>1, <1>2, <1>3, <1>4, <1>5, <1>6, <1>7, <1>8, <1>9, <1>10, <1>11, <1>12
       DEF Seed

LEMMA LayerMatches ==
    ASSUME TypeOK, RowsMatch, NEW r \in Runs, InStep(r), Present, Layer(r)
    PROVE  RowsMatch' /\ InStep(r)'
  <1> USE DEF At, Goto, memory, database
  <1>0. pc \in [Runs -> Places]
    BY DEF TypeOK
  <1>1. CASE Discover(r)
    <2>1. P = "evidence_grounding" /\ EmbeddedSeed
      BY <1>1 DEF Discover, RowsMatch, Present
    <2>2. EmbeddedSeed'
      BY <1>1, <2>1 DEF Discover, EmbeddedSeed, Insert
    <2>3. layer'[r] # 0
      BY <1>1, LayersAssumption DEF Discover, TypeOK
    <2> QED
      BY <1>0, <1>1, <2>1, <2>2, <2>3 DEF Discover, RowsMatch, InStep, P
  <1>2. CASE Converge(r)
    BY <1>0, <1>2 DEF Converge, RowsMatch, InStep, P, EmbeddedSeed
  <1>3. CASE InferNewEdges(r)
    <2>1. P = "evidence_grounding" /\ layer[r] # 0 /\ P' = P
      BY <1>3 DEF InferNewEdges, InStep, P
    <2>2. EmbeddedSeed'
      BY <1>3, <2>1 DEF InferNewEdges, RowsMatch, EmbeddedSeed
    <2>3. \A x \in edges' : x \in edges \/ (x.layer = layer[r] /\ x.evidence = 0)
      BY <1>3 DEF InferNewEdges, Insert
    <2>4. RowsMatch'
      BY <1>3, <2>1, <2>2, <2>3 DEF InferNewEdges, RowsMatch
    <2>5. PICK next \in {"layerAudit", "discover", "finish"} : pc' = [pc EXCEPT ![r] = next]
      BY <1>3 DEF InferNewEdges
    <2> QED
      BY <1>0, <1>3, <2>1, <2>4, <2>5 DEF InferNewEdges, InStep
  <1>4. CASE AuditNewEdges(r)
    <2>1. P = "evidence_grounding" /\ layer[r] # 0 /\ P' = P
      BY <1>4 DEF AuditNewEdges, InStep, P
    <2>2. EmbeddedSeed'
      BY <1>4, <2>1 DEF AuditNewEdges, RowsMatch, EmbeddedSeed
    <2>3. ASSUME NEW x \in edges'
          PROVE  /\ x.layer = 0 => x.audited
                 /\ x.evidence > 0 => x.audited
                 /\ x.id = new[r] => x.audited
      <3>1. PICK e \in edges : /\ x.id = e.id /\ x.layer = e.layer /\ x.evidence = e.evidence
                               /\ x.audited = (e.audited \/ e.id \in {new[r]})
        BY <1>4, AuditMeans DEF AuditNewEdges
      <3> QED
        BY <2>1, <3>1 DEF RowsMatch
    <2> QED
      BY <1>0, <1>4, <2>1, <2>2, <2>3 DEF AuditNewEdges, RowsMatch, InStep
  <1>5. CASE GroundNewEdges(r)
    <2>1. P = "evidence_grounding" /\ P' = P
      BY <1>5 DEF GroundNewEdges, InStep, P
    <2>2. EmbeddedSeed'
      BY <1>5, <2>1 DEF GroundNewEdges, RowsMatch, EmbeddedSeed
    <2>3. ASSUME NEW x \in edges'
          PROVE  /\ x.layer = 0 => x.audited
                 /\ x.evidence > 0 => x.audited
      <3>1. PICK filled \in SUBSET {new[r]} : edges' = WithEvidence(filled)
        BY <1>5 DEF GroundNewEdges
      <3>2. PICK e \in edges : /\ x.id = e.id /\ x.layer = e.layer /\ x.audited = e.audited
                               /\ x.evidence > 0 => e.evidence > 0 \/ e.id \in filled
        BY <3>1, EvidenceMeans
      <3>3. e.id \in filled => e.audited
        BY <1>5 DEF GroundNewEdges, InStep
      <3> QED
        BY <2>1, <3>2, <3>3 DEF RowsMatch
    <2>4. pc' = [pc EXCEPT ![r] = "discover"]
      BY <1>5 DEF GroundNewEdges
    <2> QED
      BY <1>0, <2>1, <2>2, <2>3, <2>4 DEF RowsMatch, InStep
  <1> QED
    BY <1>1, <1>2, <1>3, <1>4, <1>5 DEF Layer

-----------------------------------------------------------------------------
(* Everything else. *)

\* A run that does not act, beside one that does, is not working.
LEMMA OthersAreIdle ==
    ASSUME TypeOK, Exclusive, NEW r \in Runs, Moves(r), NEW s \in Runs, s # r
    PROVE  InStep(s)'
  BY DEF Moves, Exclusive, OneRun, Active, Pipeline, TypeOK, InStep

\* Requests begin and delete; they change no row of a project that stays.
LEMMA RequestMatches ==
    ASSUME TypeOK, Exclusive, Consistent,
           \/ CreateIntake \/ Delete
           \/ \E r \in Runs : Analyze(r)
           \/ \E c \in Clients : Serve(c)
    PROVE  Consistent'
  <1> USE DEF Consistent, TypeOK, P, EmbeddedSeed, RowsMatch, InStep, HeldSeed
  <1>1. CASE CreateIntake
    BY <1>1 DEF CreateIntake, memory, Exclusive, Active, Pipeline
  <1>2. CASE Delete
    BY <1>2 DEF Delete, memory
  <1>3. ASSUME NEW r \in Runs, Analyze(r) PROVE Consistent'
    BY <1>3 DEF Analyze, Schedule, memory, Exclusive, Active, Pipeline
  <1>4. ASSUME NEW c \in Clients, Check(c) \/ LaunchRefused(c) PROVE Consistent'
    BY <1>4 DEF Check, LaunchRefused, memory, database
  <1>5. ASSUME NEW c \in Clients, Launch(c) PROVE Consistent'
    BY <1>5 DEF Launch, Schedule, memory, Present
  <1> QED
    BY <1>1, <1>2, <1>3, <1>4, <1>5 DEF Serve

\* A run that ends takes what it held with it and leaves the rows alone.
LEMMA EndMatches ==
    ASSUME TypeOK, Consistent,
           \/ Restart
           \/ \E r \in Runs :
                \/ Complete(r) \/ EndDownstream(r) \/ EndOrphaned(r)
                \/ NeverStarts(r) \/ Unrecorded(r) \/ EndFailed(r)
    PROVE  Consistent'
  <1> USE DEF Consistent, TypeOK, P, EmbeddedSeed, RowsMatch, InStep, HeldSeed, Goto, At
  <1>1. CASE Restart
    BY <1>1 DEF Restart, database
  <1>2. ASSUME NEW r \in Runs,
               Complete(r) \/ EndFailed(r) \/ EndOrphaned(r) \/ Unrecorded(r)
        PROVE  Consistent'
    BY <1>2 DEF Complete, EndFailed, EndOrphaned, Unrecorded, Forget, database
  <1>3. ASSUME NEW r \in Runs, EndDownstream(r) \/ NeverStarts(r)
        PROVE  Consistent'
    BY <1>3 DEF EndDownstream, NeverStarts, memory, database
  <1> QED
    BY <1>1, <1>2, <1>3

LEMMA ConsistentStep ==
    ASSUME TypeOK, Exclusive, Consistent, [Next]_vars
    PROVE  Consistent'
  <1>1. CASE UNCHANGED vars
    BY <1>1 DEF vars, database, memory, Consistent, RowsMatch, InStep, P,
       EmbeddedSeed, HeldSeed, Ids
  <1>2. CASE \/ CreateIntake \/ Delete
             \/ \E r \in Runs : Analyze(r)
             \/ \E c \in Clients : Serve(c)
    BY <1>2, RequestMatches
  <1>3. ASSUME NEW r \in Runs, Begin(r) \/ Seed(r) \/ Layer(r)
        PROVE  Consistent'
    <2>1. Present
      BY <1>3 DEF At, Begin, Seed, Layer, LoadClaims, ExtractClaims, EmbedClaims,
         SaveOutcomes, SaveExtraction, LoadEdges, InferEdges, SkipAudit, AuditEdges,
         SkipGrounding, GroundEdges, Discover, Converge, InferNewEdges, AuditNewEdges,
         GroundNewEdges
    <2>2. RowsMatch' /\ InStep(r)'
      BY <1>3, <2>1, SeedMatches, LayerMatches DEF Consistent, Present
    <2>3. \A s \in Runs : s # r => InStep(s)'
      BY <1>3, StagesMove, OthersAreIdle
    <2> QED
      BY <2>2, <2>3 DEF Consistent
  <1>4. CASE \/ Restart
             \/ \E r \in Runs :
                  \/ Complete(r) \/ EndDownstream(r) \/ EndOrphaned(r)
                  \/ NeverStarts(r) \/ Unrecorded(r) \/ EndFailed(r)
    BY <1>4, EndMatches
  <1> QED
    BY <1>1, <1>2, <1>3, <1>4, NextCases

\* What every run relies on, until a launch races.
RunInv ==
    /\ TypeOK /\ NewEdgesSaved
    /\ ~raced => Exclusive /\ Consistent

LEMMA SpecRunInv == Spec => []RunInv
  <1>1. Init => RunInv
    BY InitType DEF RunInv, Init, NewEdgesSaved, Exclusive, OneRun, Active,
       Pipeline, Consistent, RowsMatch, InStep, P
  <1>2. RunInv /\ [Next]_vars => RunInv'
    BY StepType, NewEdgesStep, RacedStays, ExclusiveStep, ConsistentStep DEF RunInv
  <1> QED
    BY <1>1, <1>2, PTL DEF Spec

\* Whatever stage fails, however often, with restarts and deletions in between,
\* the checkpoint a resume will trust never claims more than the rows that were
\* committed (_save_checkpoint and the commits of run), unless a launch raced.
THEOREM CheckpointsAreHonest == Spec => []CheckpointIsHonest
  <1>1. RunInv => CheckpointIsHonest
    <2> SUFFICES ASSUME RunInv, ~raced PROVE CheckpointIsHonest
      BY DEF CheckpointIsHonest
    <2>1. P \in Checkpoints
      BY DEF RunInv, TypeOK, P
    <2> QED
      BY <2>1, ReachedMeans
         DEF RunInv, CheckpointIsHonest, Consistent, RowsMatch, P, EmbeddedSeed
  <1> QED
    BY <1>1, SpecRunInv, PTL

-----------------------------------------------------------------------------
(***************************************************************************)
(* For any clients, slots, layers and rows: the checkpoint of a project    *)
(* only moves forward until a launch races, and AnalysisRun implements     *)
(* ResumableRun, which calls a project "contended" from then on.           *)
(*                                                                         *)
(* Both rest on the invariants above: that a stage writes the checkpoint   *)
(* after the one that is there (Ascends) holds because the run             *)
(* that writes it knows what is there (InStep), and that a run which acts  *)
(* acts on a project in "processing" is Exclusive.                         *)
(***************************************************************************)

-----------------------------------------------------------------------------
(* The checkpoint. *)

\* The checkpoint that may follow c.
After(c) ==
    CASE c = "none" -> "claim_extraction"
      [] c = "claim_extraction" -> "blind_scoring"
      [] c = "blind_scoring" -> "bias_audit"
      [] OTHER -> "evidence_grounding"

\* A stage leaves the checkpoint, or writes the one after it.
Ascends == P' = P \/ (P # "evidence_grounding" /\ P' = After(P))

LEMMA AscendsMeans ==
    ASSUME TypeOK, Ascends
    PROVE  /\ P' = P \/ Reached(P') \in (Reached(P) + 1)..5
           /\ Reached(P) \in 0..5
  BY DEF Ascends, After, Reached, StageOrder, Checkpoints, TypeOK, P

LEMMA StageAscends ==
    ASSUME TypeOK, NEW r \in Runs, InStep(r), RowsMatch, Present,
           Begin(r) \/ Seed(r) \/ Layer(r)
    PROVE  Ascends
  <1> USE DEF At, Goto, memory, database
  <1>0. P \in Checkpoints /\ ckpt[r] \in Checkpoints
    BY DEF TypeOK, P
  <1>1. CASE Begin(r) \/ LoadClaims(r) \/ ExtractClaims(r) \/ EmbedClaims(r)
             \/ SaveOutcomes(r) \/ LoadEdges(r) \/ SkipAudit(r) \/ SkipGrounding(r)
             \/ Layer(r)
    BY <1>1 DEF Ascends, P, Begin, LoadClaims, ExtractClaims, EmbedClaims, SaveOutcomes,
       LoadEdges, SkipAudit, SkipGrounding, Layer, Discover, Converge, InferNewEdges,
       AuditNewEdges, GroundNewEdges
  <1>2. CASE SaveExtraction(r)
    <2>1. P = "none"
      BY <1>2 DEF SaveExtraction, InStep
    <2> QED
      BY <1>2, <2>1, SaveMeans DEF SaveExtraction, Ascends, After
  <1>3. CASE InferEdges(r)
    <2>1. P = "claim_extraction"
      BY <1>0, <1>3, CompletedMeans DEF InferEdges, InStep
    <2> QED
      BY <1>3, <2>1, SaveMeans DEF InferEdges, Ascends, After
  <1>4. CASE AuditEdges(r)
    <2>1. P = "blind_scoring"
      BY <1>0, <1>4, CompletedMeans DEF AuditEdges, InStep
    <2> QED
      BY <1>4, <2>1, SaveMeans DEF AuditEdges, Ascends, After
  <1>5. CASE GroundEdges(r)
    <2>1. P = "bias_audit"
      BY <1>0, <1>5, CompletedMeans DEF GroundEdges, InStep
    <2> QED
      BY <1>5, <2>1, SaveMeans DEF GroundEdges, Ascends, After
  <1> QED
    BY <1>1, <1>2, <1>3, <1>4, <1>5 DEF Seed

\* A stage acts on a present project whose status it leaves, and its run goes on.
LEMMA StageRuns ==
    ASSUME TypeOK, NEW r \in Runs, Begin(r) \/ Seed(r) \/ Layer(r)
    PROVE  /\ Present /\ Active(r) /\ Active(r)'
           /\ project'.row = project.row /\ project'.status = project.status
  <1> USE DEF TypeOK, At, Goto, Active, memory, database, Pipeline, Present
  <1>1. CASE Begin(r) \/ LoadClaims(r) \/ ExtractClaims(r) \/ EmbedClaims(r)
             \/ SaveOutcomes(r) \/ LoadEdges(r) \/ SkipAudit(r) \/ SkipGrounding(r)
    BY <1>1 DEF Begin, LoadClaims, ExtractClaims, EmbedClaims, SaveOutcomes,
       LoadEdges, SkipAudit, SkipGrounding
  <1>2. CASE SaveExtraction(r) \/ InferEdges(r) \/ AuditEdges(r) \/ GroundEdges(r)
    BY <1>2 DEF SaveExtraction, InferEdges, AuditEdges, GroundEdges, Save
  <1>3. CASE Layer(r)
    BY <1>3 DEF Layer, Discover, Converge, InferNewEdges, AuditNewEdges, GroundNewEdges
  <1> QED
    BY <1>1, <1>2, <1>3 DEF Seed

\* What is not a stage leaves the checkpoint of a project that stays.
LEMMA OthersKeep ==
    ASSUME TypeOK,
           \/ CreateIntake \/ Restart \/ UNCHANGED vars
           \/ \E r \in Runs : Analyze(r)
           \/ \E c \in Clients : Serve(c)
           \/ \E r \in Runs :
                \/ Complete(r) \/ EndDownstream(r) \/ EndOrphaned(r)
                \/ NeverStarts(r) \/ Unrecorded(r) \/ EndFailed(r)
    PROVE  P' = P
  BY DEF TypeOK, P, CreateIntake, Restart, vars, Analyze, Serve, Check, Launch,
     LaunchRefused, Complete, EndDownstream, EndOrphaned, NeverStarts, Unrecorded,
     EndFailed, database

LEMMA CheckpointStep ==
    ASSUME RunInv, [Next]_vars, ~raced', project'.row = "present"
    PROVE  Reached(project'.checkpoint) >= Reached(project.checkpoint)
  <1>0. TypeOK /\ Consistent /\ Reached(P) \in Nat
    BY RacedStays DEF RunInv, Reached, StageOrder, Checkpoints, TypeOK, P
  <1>1. P' = P => Reached(P') >= Reached(P)
    BY <1>0
  <1>2. ASSUME NEW r \in Runs, Begin(r) \/ Seed(r) \/ Layer(r)
        PROVE  Reached(P') >= Reached(P)
    <2>1. Ascends
      BY <1>0, <1>2, StageAscends, StageRuns DEF Consistent, Present
    <2> QED
      BY <1>0, <1>1, <2>1, AscendsMeans
  <1>3. ~Delete
    BY DEF Delete
  <1> QED
    BY <1>0, <1>1, <1>2, <1>3, OthersKeep, NextCases DEF P

\* While a project exists its checkpoint never moves back (_save_checkpoint):
\* a resume never repeats what was done for good, unless a second run was
\* launched over the first.
THEOREM CheckpointMovesForward == Spec => CheckpointNeverRegresses
  <1>1. RunInv /\ [Next]_vars
          => [~raced' /\ project'.row = "present"
                => Reached(project'.checkpoint) >= Reached(project.checkpoint)]_vars
    BY CheckpointStep
  <1> QED
    BY <1>1, SpecRunInv, PTL DEF Spec, CheckpointNeverRegresses

-----------------------------------------------------------------------------
(* The refinement. *)

Mark == Reached(project.checkpoint)

\* What Phase says, phase by phase.
PhaseIs ==
    /\ Phase = "contended" <=> raced
    /\ Phase = "absent" <=> ~raced /\ project.row = "absent"
    /\ Phase = "gone" <=> ~raced /\ project.row = "deleted"
    /\ Phase = "idle" <=> ~raced /\ Present /\ project.status # "processing"
    /\ Phase = "running" <=>
         /\ ~raced /\ Present /\ project.status = "processing"
         /\ \E r \in Runs : Active(r)
    /\ Phase = "stranded" <=>
         /\ ~raced /\ Present /\ project.status = "processing"
         /\ ~\E r \in Runs : Active(r)
    /\ Phase \in {"absent", "gone", "idle", "running", "stranded", "contended"}

LEMMA PhaseMeans ==
    ASSUME TypeOK PROVE PhaseIs
  BY Zenon DEF Phase, TypeOK, Present, PhaseIs

LEMMA NextPhaseMeans ==
    ASSUME TypeOK' PROVE PhaseIs'
  BY Zenon DEF Phase, TypeOK, Present, PhaseIs

\* Nothing seen from outside moves.
Stutters == Phase' = Phase /\ Mark' = Mark

LEMMA RequestRefines ==
    ASSUME RunInv, ~raced, TypeOK', ~raced',
           \/ CreateIntake \/ Delete
           \/ \E r \in Runs : Analyze(r)
           \/ \E c \in Clients : Serve(c)
    PROVE  Stutters \/ Abstract!Next
  <1>0. TypeOK /\ Exclusive /\ PhaseIs /\ PhaseIs'
    BY PhaseMeans, NextPhaseMeans DEF RunInv
  <1> USE DEF Mark, PhaseIs, Present
  <1>1. CASE CreateIntake
    <2>1. /\ project'.row = "present" /\ project'.status = "pending"
          /\ project'.checkpoint = project.checkpoint /\ project.row = "absent"
      BY <1>0, <1>1 DEF CreateIntake, TypeOK
    <2> QED
      BY <1>0, <2>1 DEF Abstract!Next, Abstract!Create
  <1>2. CASE Delete
    <2>1. Phase \in {"idle", "running", "stranded"} /\ Phase' = "gone"
      BY <1>0, <1>2 DEF Delete, TypeOK
    <2>2. Mark' = 0
      BY <1>2 DEF Delete, Reached
    <2> QED
      BY <2>1, <2>2 DEF Abstract!Next, Abstract!Delete
  <1>3. ASSUME NEW r \in Runs, Analyze(r) PROVE Abstract!Create
    <2>1. /\ project'.row = "present" /\ project'.status = "processing"
          /\ project'.checkpoint = project.checkpoint /\ project.row = "absent"
      BY <1>0, <1>3 DEF Analyze, TypeOK
    <2>2. Active(r)'
      BY <1>0, <1>3 DEF Analyze, Schedule, Active, Pipeline, TypeOK
    <2> QED
      BY <1>0, <2>1, <2>2 DEF Abstract!Create
  <1>4. ASSUME NEW c \in Clients, Check(c) \/ LaunchRefused(c) PROVE Stutters
    BY <1>4 DEF Check, LaunchRefused, database, history, Stutters, Phase, Active
  <1>5. ASSUME NEW c \in Clients, Launch(c) PROVE Abstract!Launch
    <2>0. request[c] \in {"admitted", "overtaken"}
      BY <1>0, <1>5 DEF Launch, TypeOK
    <2>1. Phase = "idle"
      BY <1>0, <1>5, <2>0 DEF Launch, Exclusive
    <2>2. /\ project'.row = "present" /\ project'.status = "processing"
          /\ project'.checkpoint = project.checkpoint
      BY <1>0, <1>5 DEF Launch, TypeOK
    <2>3. \E r \in Runs : Active(r)'
      BY <1>0, <1>5 DEF Launch, Schedule, Active, Pipeline, TypeOK
    <2> QED
      BY <1>0, <2>1, <2>2, <2>3 DEF Abstract!Launch
  <1> QED
    BY <1>1, <1>2, <1>3, <1>4, <1>5 DEF Serve, Abstract!Next

LEMMA StageRefines ==
    ASSUME RunInv, ~raced, TypeOK', ~raced', NEW r \in Runs, Begin(r) \/ Seed(r) \/ Layer(r)
    PROVE  Stutters \/ Abstract!Advance
  <1>0. TypeOK /\ Exclusive /\ PhaseIs /\ PhaseIs'
    BY PhaseMeans, NextPhaseMeans DEF RunInv
  <1>1. Phase = "running" /\ Phase' = "running"
    BY <1>0, StageRuns DEF Exclusive, PhaseIs, Present
  <1>2. Ascends
    BY StageAscends, StageRuns DEF RunInv, Consistent, Present
  <1>3. CASE P' = P
    BY <1>1, <1>3 DEF Stutters, Mark, P
  <1>4. CASE Reached(P') \in (Reached(P) + 1)..5
    BY <1>1, <1>4 DEF Abstract!Advance, P, StageOrder
  <1> QED
    BY <1>0, <1>2, <1>3, <1>4, AscendsMeans

LEMMA EndRefines ==
    ASSUME RunInv, ~raced, TypeOK', ~raced',
           \/ Restart
           \/ \E r \in Runs :
                \/ Complete(r) \/ EndDownstream(r) \/ EndOrphaned(r) \/ NeverStarts(r)
                \/ Unrecorded(r) \/ InferRaises(r) \/ OutOfRows(r) \/ StageFails(r)
    PROVE  Stutters \/ Abstract!End \/ Abstract!Strand
  <1>0. TypeOK /\ Exclusive /\ PhaseIs /\ PhaseIs'
    BY PhaseMeans, NextPhaseMeans DEF RunInv
  <1> USE DEF Mark, PhaseIs, Present
  <1>1. CASE Restart
    <2>1. project' = project /\ \A r \in Runs : ~Active(r)'
      BY <1>1 DEF Restart, database, Active, Pipeline
    <2> QED
      BY <1>0, <2>1 DEF Stutters, Abstract!Strand
  <1>2. ASSUME NEW r \in Runs, Complete(r) PROVE Abstract!End
    <2>1. Phase = "running"
      BY <1>0, <1>2 DEF Complete, At, Active, Pipeline, Exclusive
    <2>2. /\ project'.row = "present" /\ project'.status = "completed"
          /\ project'.checkpoint = project.checkpoint
      BY <1>0, <1>2 DEF Complete, At, TypeOK
    <2> QED
      BY <1>0, <2>1, <2>2 DEF Abstract!End
  <1>3. ASSUME NEW r \in Runs, InferRaises(r) \/ OutOfRows(r) \/ StageFails(r)
        PROVE  Abstract!End
    <2>1. Active(r) /\ Present /\ EndFailed(r)
      BY <1>3 DEF InferRaises, OutOfRows, StageFails, Comparing, At, Active, Pipeline
    <2>2. Phase = "running"
      BY <1>0, <2>1 DEF Exclusive
    <2>3. /\ project'.row = "present" /\ project'.status = "failed"
          /\ project'.checkpoint = project.checkpoint
      BY <1>0, <2>1 DEF EndFailed, TypeOK
    <2> QED
      BY <1>0, <2>2, <2>3 DEF Abstract!End
  <1>4. ASSUME NEW r \in Runs, EndDownstream(r) PROVE Stutters
    <2>1. project' = project /\ \A s \in Runs : Active(s)' <=> Active(s)
      BY <1>0, <1>4 DEF EndDownstream, At, Goto, database, Active, Pipeline, TypeOK
    <2> QED
      BY <1>0, <2>1 DEF Stutters
  <1>5. ASSUME NEW r \in Runs, EndOrphaned(r) PROVE Stutters
    BY <1>0, <1>5 DEF EndOrphaned, database, history, Stutters
  <1>6. ASSUME NEW r \in Runs, NeverStarts(r) \/ Unrecorded(r)
        PROVE  Abstract!Strand
    <2>1. Active(r) /\ project' = project /\ Present
      BY <1>6 DEF NeverStarts, Unrecorded, At, database, Active, Pipeline
    <2>2. \A s \in Runs : ~Active(s)'
      BY <1>0, <1>6, <2>1 DEF NeverStarts, Unrecorded, Goto, Active, Pipeline, Exclusive, OneRun, TypeOK
    <2> QED
      BY <1>0, <2>1, <2>2 DEF Exclusive, Abstract!Strand
  <1> QED
    BY <1>1, <1>2, <1>3, <1>4, <1>5, <1>6

\* A launch that races takes the project out of what is promised.
LEMMA RaceRefines ==
    ASSUME RunInv, ~raced, TypeOK', raced', [Next]_vars
    PROVE  Abstract!Contend
  <1>0. TypeOK /\ PhaseIs /\ PhaseIs'
    BY PhaseMeans, NextPhaseMeans DEF RunInv
  <1>1. PICK c \in Clients : Launch(c) /\ Present /\ project.status = "processing"
    BY <1>0, RaceBegins
  <1>2. project'.checkpoint = project.checkpoint
    BY <1>0, <1>1 DEF Launch, TypeOK
  <1>3. Phase \in {"running", "stranded"} /\ Phase' = "contended"
    BY <1>0, <1>1 DEF PhaseIs
  <1> QED
    BY <1>2, <1>3 DEF Abstract!Contend

LEMMA RacedRefines ==
    ASSUME RunInv, raced, RunInv', [Next]_vars
    PROVE  Abstract!Anything
  <1>0. TypeOK /\ TypeOK' /\ PhaseIs /\ PhaseIs'
    BY PhaseMeans, NextPhaseMeans DEF RunInv
  <1>1. raced'
    BY <1>0, RacedStays
  <1>2. Reached(project'.checkpoint) \in 0..5
    BY <1>0 DEF TypeOK, Reached, StageOrder, Checkpoints
  <1> QED
    BY <1>0, <1>1, <1>2 DEF Abstract!Anything, PhaseIs, StageOrder

LEMMA NextRefines ==
    ASSUME RunInv, RunInv', [Next]_vars
    PROVE  [Abstract!Next]_<<Phase, Mark>>
  <1>1. CASE UNCHANGED vars
    BY <1>1 DEF vars, database, history, Phase, Active, Mark
  <1>2. CASE Next /\ ~raced /\ ~raced'
    BY <1>2, RequestRefines, StageRefines, EndRefines
       DEF RunInv, Next, Step, Fault, Abstract!Next, Stutters
  <1>3. CASE ~raced /\ raced'
    BY <1>3, RaceRefines DEF RunInv, Abstract!Next
  <1>4. CASE raced
    BY <1>4, RacedRefines DEF Abstract!Next
  <1> QED
    BY <1>1, <1>2, <1>3, <1>4

\* The run, its requests and its faults are the state machine a client may rely
\* on, however many clients there are: a project has one run or none, a run that
\* fails leaves it at its mark, ready for the next (resume_analysis), and nothing
\* is promised once a request launched over one that came in between.
THEOREM RunImplementsResumable == Spec => ImplementsResumableRun
  <1>1. Init => Abstract!Init
    BY DEF Init, Abstract!Init, Phase, Reached
  <1>2. RunInv /\ RunInv' /\ [Next]_vars => [Abstract!Next]_Abstract!vars
    BY NextRefines DEF Abstract!vars, Mark
  <1> QED
    BY <1>1, <1>2, SpecRunInv, PTL DEF Spec, ImplementsResumableRun, Abstract!Spec

-----------------------------------------------------------------------------
(***************************************************************************)
(* For any clients, slots, layers and rows, until a launch races: the      *)
(* evidence of an edge is saved at most once, and what discovery adds      *)
(* rests on evidence that was committed before it.                         *)
(*                                                                         *)
(* Neither is inductive.  That grounding meets no edge grounded before     *)
(* follows from the checkpoint for the seed (RowsMatch), and for a layer   *)
(* from the id of its edges, which no edge had before (Numbered).  That    *)
(* discovery is right to trust the evidence in its memory, and a layer the *)
(* claims before it, is Holding(r).                                        *)
(***************************************************************************)

Numbered == \A e \in edges : e.id < fresh

Grounded == \E e \in edges : e.evidence > 0
FoundSome == \E c \in claims : c.kind = "found"

\* A run between two runs holds nothing.
Light ==
    \A r \in Runs : pc[r] \in {"free", "scheduled", "downstream"} =>
        links[r] = {} /\ fed[r] = {}

\* What a working run holds in memory is in the database.
Holding(r) ==
    /\ Active(r) => links[r] \subseteq Ids(edges)
    /\ Active(r) /\ fed[r] # {} => Grounded
    /\ pc[r] \in {"layerAudit", "layerGround"} =>
         /\ new[r] \in Ids(edges)
         /\ \A e \in edges : e.id = new[r] => e.evidence = 0
    /\ pc[r] \in {"incremental", "layerAudit", "layerGround"} => FoundSome

Backed ==
    /\ Numbered /\ Light
    /\ GroundedOnce /\ LayersRooted
    /\ Present => \A r \in Runs : Holding(r)

-----------------------------------------------------------------------------
(* Lemmas: what the updates of a table keep. *)

\* Embedding changes the kind of no claim.
LEMMA EmbedKeeps ==
    ASSUME TypeOK, NEW ids,
           NEW x \in {[d EXCEPT !.embedded = d.embedded \/ d.id \in ids] : d \in claims}
    PROVE  \E c \in claims : x.kind = c.kind
  <1>1. PICK c \in claims : x = [c EXCEPT !.embedded = c.embedded \/ c.id \in ids]
    OBVIOUS
  <1>2. c \in ClaimRecords
    BY DEF TypeOK, ClaimRecords
  <1>3. x.kind = c.kind
    BY <1>1, <1>2 DEF ClaimRecords
  <1> QED
    BY <1>3

\* An audit loses no edge, and no evidence of one.
LEMMA AuditKeeps ==
    ASSUME TypeOK, NEW ids, NEW e \in edges
    PROVE  \E x \in Audited(ids) : x.id = e.id /\ x.evidence = e.evidence
  <1> DEFINE x == [e EXCEPT !.audited = e.audited \/ e.id \in ids]
  <1>1. x \in Audited(ids)
    BY DEF Audited
  <1>2. e \in EdgeRecords
    BY DEF TypeOK, EdgeRecords
  <1>3. x.id = e.id /\ x.evidence = e.evidence
    BY <1>2 DEF EdgeRecords
  <1> QED
    BY <1>1, <1>3

\* Saving evidence loses no edge and no evidence, and every edge it was found
\* for has some.
LEMMA EvidenceKeeps ==
    ASSUME TypeOK, NEW ids, NEW e \in edges
    PROVE  \E x \in WithEvidence(ids) :
              /\ x.id = e.id
              /\ e.evidence > 0 \/ e.id \in ids => x.evidence > 0
  <1> DEFINE count == IF e.id \in ids /\ e.evidence < MaxEvidence
                      THEN e.evidence + 1 ELSE e.evidence
             x == [e EXCEPT !.evidence = count]
  <1>1. x \in WithEvidence(ids)
    BY DEF WithEvidence
  <1>2. e \in EdgeRecords
    BY DEF TypeOK, EdgeRecords
  <1>3. x.id = e.id /\ x.evidence = count
    BY <1>2 DEF EdgeRecords
  <1>4. e.evidence > 0 \/ e.id \in ids => count > 0
    BY <1>2 DEF EdgeRecords, MaxEvidence
  <1> QED
    BY <1>1, <1>3, <1>4

\* ... and counts one more for those, and for no other.
LEMMA EvidenceAdds ==
    ASSUME TypeOK, NEW ids, NEW x \in WithEvidence(ids)
    PROVE  \E e \in edges :
              /\ x.id = e.id /\ x.layer = e.layer
              /\ e.id \notin ids => x.evidence = e.evidence
              /\ e.evidence = 0 => x.evidence <= 1
  <1> DEFINE count(e) == IF e.id \in ids /\ e.evidence < MaxEvidence
                         THEN e.evidence + 1 ELSE e.evidence
  <1>1. PICK e \in edges : x = [e EXCEPT !.evidence = count(e)]
    BY DEF WithEvidence
  <1>2. e \in EdgeRecords
    BY DEF TypeOK, EdgeRecords
  <1>3. x.id = e.id /\ x.layer = e.layer /\ x.evidence = count(e)
    BY <1>1, <1>2 DEF EdgeRecords
  <1> QED
    BY <1>2, <1>3 DEF EdgeRecords

-----------------------------------------------------------------------------
(* The stages. *)

LEMMA SeedBacks ==
    ASSUME TypeOK, RowsMatch, Backed, NEW r \in Runs, InStep(r), Holding(r), Present,
           Begin(r) \/ Seed(r)
    PROVE  /\ Numbered' /\ GroundedOnce' /\ LayersRooted' /\ Holding(r)'
           /\ Light'
  <1> USE DEF At, Goto, memory, database
  <1>0. /\ P \in Checkpoints /\ ckpt[r] \in Checkpoints /\ pc \in [Runs -> Places]
        /\ fed[r] # {} => P = "evidence_grounding"
    BY DEF TypeOK, P, RowsMatch, Present
  <1>1. CASE Begin(r) \/ LoadClaims(r) \/ SaveExtraction(r) \/ SkipAudit(r) \/ SkipGrounding(r)
    BY <1>0, <1>1 DEF Begin, LoadClaims, SaveExtraction, SkipAudit, SkipGrounding, Save,
       TypeOK, Backed, Numbered, Light, GroundedOnce, LayersRooted, Holding,
       Active, Pipeline, Grounded, FoundSome, Ids
  <1>2. CASE LoadEdges(r)
    BY <1>0, <1>2 DEF LoadEdges, TypeOK, Backed, Numbered, Light, GroundedOnce,
       LayersRooted, Holding, Active, Pipeline, Grounded, FoundSome, Ids
  <1>3. CASE ExtractClaims(r)
    <2>1. \A c \in claims' : c.kind = "found" => c \in claims
      BY <1>3 DEF ExtractClaims, Insert
    <2>2. \A c \in claims : c \in claims'
      BY <1>3 DEF ExtractClaims, Insert
    <2>3. Numbered' /\ edges' = edges
      <3>1. edges' = edges /\ fresh' = fresh + 1
        BY <1>3 DEF ExtractClaims
      <3> QED
        BY <3>1 DEF Backed, Numbered, TypeOK
    <2>4. /\ pc' = [pc EXCEPT ![r] = "embed"]
          /\ links' = links /\ fed' = fed /\ new' = new /\ project' = project
          /\ pc[r] = "claims"
      BY <1>3 DEF ExtractClaims
    <2> QED
      BY <1>0, <2>1, <2>2, <2>3, <2>4 DEF Backed, Light,
         GroundedOnce, LayersRooted, Holding, Active, Pipeline, Grounded, Ids
  <1>4. CASE EmbedClaims(r)
    <2>1. edges = {} /\ \A c \in claims : c.kind # "found"
      BY <1>4 DEF EmbedClaims, InStep, RowsMatch, Backed, LayersRooted
    <2>2. \A x \in claims' : x.kind # "found"
      BY <1>4, <2>1, EmbedKeeps DEF EmbedClaims
    <2> QED
      BY <1>0, <1>4, <2>1, <2>2 DEF EmbedClaims, TypeOK, Backed, Numbered, Light,
         GroundedOnce, LayersRooted, Holding, Active, Pipeline, Grounded, Ids
  <1>5. CASE SaveOutcomes(r)
    <2>1. \A c \in claims' : c.kind = "found" => c \in claims
      BY <1>5 DEF SaveOutcomes, Insert
    <2>2. \A c \in claims : c \in claims'
      BY <1>5 DEF SaveOutcomes, Insert
    <2>3. Numbered' /\ edges' = edges
      <3>1. edges' = edges /\ (fresh' = fresh \/ fresh' = fresh + 1)
        BY <1>5 DEF SaveOutcomes
      <3> QED
        BY <3>1 DEF Backed, Numbered, TypeOK
    <2>4. /\ pc' = [pc EXCEPT ![r] = "checkpoint"]
          /\ links' = links /\ fed' = fed /\ new' = new /\ project' = project
      BY <1>5 DEF SaveOutcomes
    <2> QED
      BY <1>0, <1>5, <2>1, <2>2, <2>3, <2>4 DEF SaveOutcomes, Backed, Light,
         GroundedOnce, LayersRooted, Holding, Active, Pipeline, Grounded, Ids
  <1>6. CASE InferEdges(r)
    <2>1. P = "claim_extraction" /\ edges = {}
      BY <1>0, <1>6, CompletedMeans DEF InferEdges, InStep, RowsMatch
    <2>2. fed[r] = {} /\ \A c \in claims : c.kind # "found"
      BY <1>0, <2>1 DEF Backed, LayersRooted
    <2>3. /\ links'[r] \subseteq Ids(edges)'
          /\ \A e \in edges' : e.layer = 0 /\ e.evidence = 0 /\ e.id < fresh'
      <3>1. CASE links' = [links EXCEPT ![r] = {}] /\ UNCHANGED <<edges, fresh>>
        BY <2>1, <3>1 DEF TypeOK, Ids
      <3>2. CASE /\ edges' = Insert([id |-> fresh, layer |-> 0, audited |-> FALSE, evidence |-> 0], edges)
                 /\ links' = [links EXCEPT ![r] = {fresh}] /\ fresh' = fresh + 1
        BY <2>1, <3>2 DEF TypeOK, Ids, Insert
      <3> QED
        BY <1>6, <3>1, <3>2 DEF InferEdges
    <2> QED
      BY <1>0, <1>6, <2>2, <2>3 DEF InferEdges, TypeOK, Backed, Numbered, Light,
         GroundedOnce, LayersRooted, Holding, Active, Pipeline
  <1>7. CASE AuditEdges(r)
    <2>1. \A x \in edges' : \E e \in edges : x.id = e.id /\ x.layer = e.layer /\ x.evidence = e.evidence
      BY <1>7, AuditMeans DEF AuditEdges
    <2>2. \A e \in edges : \E x \in edges' : x.id = e.id /\ x.evidence = e.evidence
      BY <1>7, AuditKeeps DEF AuditEdges
    <2>3. Ids(edges)' = Ids(edges) /\ (Grounded => Grounded')
      BY <2>1, <2>2 DEF Ids, Grounded
    <2>4. Numbered' /\ GroundedOnce' /\ LayersRooted'
      BY <1>7, <2>1, <2>3 DEF AuditEdges, Backed, Numbered, GroundedOnce,
         LayersRooted, Grounded
    <2> QED
      BY <1>0, <1>7, <2>3, <2>4 DEF AuditEdges, TypeOK, Backed, Light, Holding, Active, Pipeline
  <1>8. CASE GroundEdges(r)
    <2>1. P = "bias_audit" /\ \A e \in edges : e.evidence = 0
      <3>1. P = "bias_audit" /\ \A e \in edges : ~(e.evidence > 0)
        BY <1>0, <1>8, CompletedMeans DEF GroundEdges, InStep, RowsMatch
      <3> QED
        BY <3>1 DEF TypeOK
    <2>2. PICK filled \in SUBSET links[r] :
             edges' = WithEvidence(filled) /\ fed' = [fed EXCEPT ![r] = filled]
      BY <1>8 DEF GroundEdges
    <2>3. \A x \in edges' : \E e \in edges : x.id = e.id /\ x.layer = e.layer /\ x.evidence <= 1
      BY <2>1, <2>2, EvidenceAdds
    <2>4. \A e \in edges : \E x \in edges' : x.id = e.id /\ (e.id \in filled => x.evidence > 0)
      BY <2>2, EvidenceKeeps
    <2>5. Ids(edges)' = Ids(edges)
      BY <2>3, <2>4 DEF Ids
    <2>6. links[r] \subseteq Ids(edges)
      BY <1>8 DEF GroundEdges, Holding, Active, Pipeline
    <2>7. filled # {} => Grounded'
      BY <2>4, <2>6 DEF Ids, Grounded
    <2>8. \A c \in claims : c.kind # "found"
      BY <2>1 DEF Backed, LayersRooted
    <2>9. Numbered' /\ GroundedOnce' /\ LayersRooted'
      BY <1>8, <2>3, <2>8 DEF GroundEdges, Backed, Numbered, GroundedOnce,
         LayersRooted
    <2> QED
      BY <1>0, <1>8, <2>2, <2>5, <2>6, <2>7, <2>9
         DEF GroundEdges, TypeOK, Backed, Light, Holding, Active, Pipeline
  <1> QED
    BY <1>1, <1>2, <1>3, <1>4, <1>5, <1>6, <1>7, <1>8 DEF Seed

LEMMA LayerBacks ==
    ASSUME TypeOK, RowsMatch, Backed, NEW r \in Runs, InStep(r), Holding(r), Present,
           Layer(r)
    PROVE  /\ Numbered' /\ GroundedOnce' /\ LayersRooted' /\ Holding(r)'
           /\ Light'
  <1> USE DEF At, Goto, memory, database
  <1>0. pc \in [Runs -> Places]
    BY DEF TypeOK
  <1>1. CASE Discover(r)
    <2>1. links[r] \subseteq Ids(edges) /\ Grounded
      BY <1>1 DEF Discover, Holding, Active, Pipeline
    <2>2. FoundSome'
      <3> DEFINE x == [id |-> fresh, kind |-> "found", embedded |-> TRUE]
      <3>1. x \in claims' /\ x.kind = "found"
        BY <1>1 DEF Discover, Insert
      <3> QED
        BY <3>1 DEF FoundSome
    <2>3. Numbered' /\ GroundedOnce' /\ LayersRooted'
      <3>1. edges' = edges /\ fresh' = fresh + 1
        BY <1>1 DEF Discover
      <3> QED
        BY <2>1, <2>2, <3>1 DEF Backed, Numbered, GroundedOnce, LayersRooted,
           Grounded, FoundSome, TypeOK
    <2>4. /\ pc' = [pc EXCEPT ![r] = "incremental"]
          /\ links' = links /\ fed' = fed /\ edges' = edges
      BY <1>1 DEF Discover
    <2> QED
      BY <1>0, <1>1, <2>1, <2>2, <2>3, <2>4 DEF Backed, Light, Holding, Active, Pipeline, Grounded, Ids
  <1>2. CASE Converge(r)
    BY <1>0, <1>2 DEF Converge, Backed, Numbered, Light, GroundedOnce,
       LayersRooted, Holding, Active, Pipeline, Grounded, FoundSome, Ids
  <1>3. CASE InferNewEdges(r)
    <2>1. links[r] \subseteq Ids(edges) /\ (fed[r] # {} => Grounded) /\ FoundSome
      BY <1>3 DEF InferNewEdges, Holding, Active, Pipeline
    <2>2. /\ links' = links /\ fed' = fed /\ claims' = claims
          /\ \A e \in edges : e \in edges'
          /\ \A e \in edges' : e \in edges \/ (e.id = fresh /\ e.evidence = 0)
      BY <1>3 DEF InferNewEdges, Insert
    <2>3. \/ pc' = [pc EXCEPT ![r] = "discover"] /\ fresh' = fresh /\ edges' = edges
          \/ pc' = [pc EXCEPT ![r] = "finish"] /\ fresh' = fresh /\ edges' = edges
          \/ /\ pc' = [pc EXCEPT ![r] = "layerAudit"] /\ fresh' = fresh + 1
             /\ new' = [new EXCEPT ![r] = fresh] /\ fresh \in Ids(edges)'
      <3> DEFINE x == [id |-> fresh, layer |-> layer[r], audited |-> FALSE, evidence |-> 0]
      <3>1. x.id = fresh
        OBVIOUS
      <3>2. x \in edges' => fresh \in Ids(edges)'
        BY <3>1 DEF Ids
      <3>3. x \in Insert(x, edges)
        BY DEF Insert
      <3> HIDE DEF x
      <3> QED
        BY <1>3, <3>2, <3>3 DEF InferNewEdges, x
    <2>4. Numbered'
      BY <2>2, <2>3 DEF Backed, Numbered, TypeOK
    <2>5. GroundedOnce' /\ LayersRooted'
      BY <2>1, <2>2 DEF Backed, GroundedOnce, LayersRooted, FoundSome
    <2>6. \A e \in edges' : e.id = fresh => e.evidence = 0
      BY <2>2 DEF Backed, Numbered, TypeOK
    <2>7. (Ids(edges) \subseteq Ids(edges)') /\ (Grounded => Grounded') /\ FoundSome'
      BY <2>1, <2>2 DEF Ids, Grounded, FoundSome
    <2>8. Light'
      BY <1>0, <2>2, <2>3 DEF Backed, Light
    <2>9. new'[r] = fresh \/ pc'[r] \notin {"layerAudit", "layerGround"}
      BY <1>0, <2>3 DEF TypeOK
    <2>10. pc'[r] \in {"layerAudit", "layerGround"} => new'[r] \in Ids(edges)'
      BY <1>0, <2>3 DEF TypeOK
    <2>11. Holding(r)'
      BY <2>1, <2>2, <2>6, <2>7, <2>9, <2>10 DEF Holding
    <2> QED
      BY <2>4, <2>5, <2>8, <2>11
  <1>4. CASE AuditNewEdges(r)
    <2>1. \A x \in edges' : \E e \in edges : x.id = e.id /\ x.layer = e.layer /\ x.evidence = e.evidence
      BY <1>4, AuditMeans DEF AuditNewEdges
    <2>2. \A e \in edges : \E x \in edges' : x.id = e.id /\ x.evidence = e.evidence
      BY <1>4, AuditKeeps DEF AuditNewEdges
    <2>3. Ids(edges)' = Ids(edges) /\ (Grounded => Grounded')
      BY <2>1, <2>2 DEF Ids, Grounded
    <2>4. Numbered' /\ GroundedOnce' /\ LayersRooted'
      BY <1>4, <2>1, <2>3 DEF AuditNewEdges, Backed, Numbered, GroundedOnce,
         LayersRooted, Grounded
    <2>5. \A x \in edges' : x.id = new[r] => x.evidence = 0
      BY <1>4, <2>1 DEF AuditNewEdges, Holding
    <2> QED
      BY <1>0, <1>4, <2>3, <2>4, <2>5
         DEF AuditNewEdges, Backed, Light, Holding, Active, Pipeline, FoundSome
  <1>5. CASE GroundNewEdges(r)
    <2>1. /\ new[r] \in Ids(edges) /\ FoundSome /\ links[r] \subseteq Ids(edges)
          /\ fed[r] # {} => Grounded
          /\ \A e \in edges : e.id = new[r] => e.evidence = 0
      BY <1>5 DEF GroundNewEdges, Holding, Active, Pipeline
    <2>2. PICK filled \in SUBSET {new[r]} :
             edges' = WithEvidence(filled) /\ fed' = [fed EXCEPT ![r] = @ \cup filled]
      BY <1>5 DEF GroundNewEdges
    <2>3. \A x \in edges' : \E e \in edges : x.id = e.id /\ x.layer = e.layer /\ x.evidence <= 1
      <3>1. ASSUME NEW x \in edges'
            PROVE  \E e \in edges : x.id = e.id /\ x.layer = e.layer /\ x.evidence <= 1
        <4>1. PICK e \in edges : /\ x.id = e.id /\ x.layer = e.layer
                                 /\ e.id \notin filled => x.evidence = e.evidence
                                 /\ e.evidence = 0 => x.evidence <= 1
          BY <2>2, EvidenceAdds
        <4>2. e.id \in filled => e.evidence = 0
          BY <2>1, <2>2
        <4> QED
          BY <4>1, <4>2 DEF Backed, GroundedOnce
      <3> QED
        BY <3>1
    <2>4. \A e \in edges : \E x \in edges' :
              x.id = e.id /\ (e.evidence > 0 \/ e.id \in filled => x.evidence > 0)
      BY <2>2, EvidenceKeeps
    <2>5. Ids(edges)' = Ids(edges) /\ (Grounded => Grounded')
      BY <2>3, <2>4 DEF Ids, Grounded
    <2>6. filled # {} => Grounded'
      BY <2>1, <2>2, <2>4 DEF Ids, Grounded
    <2>7. Numbered' /\ GroundedOnce' /\ LayersRooted'
      BY <1>5, <2>1, <2>3, <2>5 DEF GroundNewEdges, Backed, Numbered, GroundedOnce,
         LayersRooted, Grounded, FoundSome
    <2>8. /\ pc' = [pc EXCEPT ![r] = "discover"]
          /\ links' = [links EXCEPT ![r] = @ \cup {new[r]}]
      BY <1>5 DEF GroundNewEdges
    <2>9. fed'[r] # {} => Grounded'
      BY <2>1, <2>2, <2>5, <2>6 DEF TypeOK
    <2>10. links'[r] \subseteq Ids(edges)'
      BY <2>1, <2>5, <2>8 DEF TypeOK
    <2> QED
      BY <1>0, <2>2, <2>7, <2>8, <2>9, <2>10 DEF Backed, Light, Holding, TypeOK
  <1> QED
    BY <1>1, <1>2, <1>3, <1>4, <1>5 DEF Layer

-----------------------------------------------------------------------------
(* Everything else. *)

\* A run beside the one that moves is not working, and holds what it likes.
LEMMA IdleHolds ==
    ASSUME TypeOK, Exclusive, NEW r \in Runs, Moves(r), NEW s \in Runs, s # r
    PROVE  Holding(s)'
  BY DEF Moves, Exclusive, OneRun, Active, Pipeline, TypeOK, Holding

\* A run that begins holds nothing, and a deleted project nothing to hold.
LEMMA RequestBacks ==
    ASSUME TypeOK, Exclusive, Backed,
           \/ CreateIntake \/ Delete
           \/ \E r \in Runs : Analyze(r)
           \/ \E c \in Clients : Serve(c)
    PROVE  Backed'
  <1> USE DEF Backed, Numbered, Light, GroundedOnce, LayersRooted,
              Holding, Grounded, FoundSome, Ids, TypeOK, Present
  <1>1. CASE CreateIntake
    BY <1>1 DEF CreateIntake, memory, Exclusive, Active, Pipeline
  <1>2. CASE Delete
    BY <1>2 DEF Delete, memory
  <1>3. ASSUME NEW r \in Runs, Analyze(r) PROVE Backed'
    BY <1>3 DEF Analyze, Schedule, memory, Exclusive, Active, Pipeline
  <1>4. ASSUME NEW c \in Clients, Check(c) \/ LaunchRefused(c) PROVE Backed'
    BY <1>4 DEF Check, LaunchRefused, memory, database, Active
  <1>5. ASSUME NEW c \in Clients, Launch(c) PROVE Backed'
    BY <1>5 DEF Launch, Schedule, memory, Active, Pipeline
  <1> QED
    BY <1>1, <1>2, <1>3, <1>4, <1>5 DEF Serve

\* A run that ends forgets, and leaves the rows alone.
LEMMA EndBacks ==
    ASSUME TypeOK, Backed,
           \/ Restart
           \/ \E r \in Runs :
                \/ Complete(r) \/ EndDownstream(r) \/ EndOrphaned(r)
                \/ NeverStarts(r) \/ Unrecorded(r) \/ EndFailed(r)
    PROVE  Backed'
  <1> USE DEF Backed, Numbered, Light, GroundedOnce, LayersRooted,
              Holding, Grounded, FoundSome, Ids, TypeOK, Present, Goto, At, Active, Pipeline
  <1>1. CASE Restart
    BY <1>1 DEF Restart, database
  <1>2. ASSUME NEW r \in Runs,
               Complete(r) \/ EndFailed(r) \/ EndOrphaned(r) \/ Unrecorded(r)
        PROVE  Backed'
    BY <1>2 DEF Complete, EndFailed, EndOrphaned, Unrecorded, Forget, database
  <1>3. ASSUME NEW r \in Runs, EndDownstream(r) \/ NeverStarts(r)
        PROVE  Backed'
    BY <1>3 DEF EndDownstream, NeverStarts, memory, database
  <1> QED
    BY <1>1, <1>2, <1>3

LEMMA BackedStep ==
    ASSUME RunInv, ~raced, Backed, [Next]_vars
    PROVE  Backed'
  <1>0. TypeOK /\ Exclusive /\ RowsMatch
    BY DEF RunInv, Consistent
  <1>1. CASE UNCHANGED vars
    BY <1>1 DEF vars, database, memory, Backed, Numbered, Light, GroundedOnce,
       LayersRooted, Holding, Grounded, FoundSome, Ids, Present, Active
  <1>2. CASE \/ CreateIntake \/ Delete
             \/ \E r \in Runs : Analyze(r)
             \/ \E c \in Clients : Serve(c)
    BY <1>0, <1>2, RequestBacks
  <1>3. ASSUME NEW r \in Runs, Begin(r) \/ Seed(r) \/ Layer(r)
        PROVE  Backed'
    <2>1. Present
      BY <1>0, <1>3, StageRuns
    <2>2. InStep(r) /\ Holding(r)
      BY <2>1 DEF RunInv, Consistent, Backed, Present
    <2>3. /\ Numbered' /\ GroundedOnce' /\ LayersRooted' /\ Light'
          /\ Holding(r)'
      BY <1>0, <1>3, <2>1, <2>2, SeedBacks, LayerBacks
    <2>4. \A s \in Runs : s # r => Holding(s)'
      BY <1>0, <1>3, StagesMove, IdleHolds
    <2> QED
      BY <2>3, <2>4 DEF Backed
  <1>4. CASE \/ Restart
             \/ \E r \in Runs :
                  \/ Complete(r) \/ EndDownstream(r) \/ EndOrphaned(r)
                  \/ NeverStarts(r) \/ Unrecorded(r) \/ EndFailed(r)
    BY <1>0, <1>4, EndBacks
  <1> QED
    BY <1>1, <1>2, <1>3, <1>4, NextCases

LEMMA SpecBacked == Spec => [](~raced => Backed)
  <1>1. Init => Backed
    BY DEF Init, Backed, Numbered, Light, GroundedOnce, LayersRooted, Present
  <1>2. RunInv /\ (~raced => Backed) /\ [Next]_vars => (~raced => Backed)'
    BY BackedStep, RacedStays DEF RunInv
  <1> QED
    BY <1>1, <1>2, SpecRunInv, PTL DEF Spec

-----------------------------------------------------------------------------

\* However often a run is failed, killed and resumed, no edge is grounded twice
\* (the grounding of run and of its discovery layers), unless a launch raced.
THEOREM EvidenceIsSavedOnce == Spec => []EvidenceSavedOnce
  <1>1. (~raced => Backed) => EvidenceSavedOnce
    BY DEF Backed, EvidenceSavedOnce
  <1> QED
    BY <1>1, SpecBacked, PTL

\* No claim was ever discovered from evidence that a failure took back, and no
\* edge of a layer outlives the claims it was inferred from (the discovery loop
\* of run), unless a launch raced.
THEOREM LayersAreGrounded == Spec => []LayersRestOnEvidence
  <1>1. (~raced => Backed) => LayersRestOnEvidence
    BY DEF Backed, LayersRestOnEvidence
  <1> QED
    BY <1>1, SpecBacked, PTL

-----------------------------------------------------------------------------
(* What is reached step by step. *)

\* The values a start passes through in so many steps.
Passes(f, S, start, steps, step) ==
    /\ f \in [0..steps -> S]
    /\ f[0] = start
    /\ \A k \in 1..steps : f[k] = step[f[k - 1]]
    /\ Repeated(step, start, steps) = f[steps]

LEMMA RepeatedFacts ==
    ASSUME NEW S, NEW start \in S, NEW steps \in Nat, NEW step \in [S -> S]
    PROVE  \E f : Passes(f, S, start, steps, step)
  <1> DEFINE Rec(f) == f = [k \in 0..steps |-> IF k = 0 THEN start ELSE step[f[k - 1]]]
             each == [k \in 1..steps |-> step]
  <1>1. each \in [1..steps -> [S -> S]] /\ \A k \in 1..steps : each[k] = step
    OBVIOUS
  <1>2. PICK f : Values(f, S, start, steps, each)
    <2> HIDE DEF each
    <2>1. QED
      BY <1>1, Recursion
  <1>3. f \in [0..steps -> S] /\ f[0] = start /\ \A k \in 1..steps : f[k] = step[f[k - 1]]
    <2> HIDE DEF each
    <2>1. QED
      BY <1>1, <1>2 DEF Values
  <1>4. ASSUME NEW k \in 0..steps PROVE f[k] = IF k = 0 THEN start ELSE step[f[k - 1]]
    BY <1>3
  <1>5. Rec(f)
    <2>1. DOMAIN f = 0..steps /\ f = [k \in 0..steps |-> f[k]]
      BY <1>3
    <2>2. QED
      BY <1>4, <2>1
  <1>6. PICK h : Rec(h) /\ h = CHOOSE x : Rec(x)
    BY <1>5
  <1>7. Repeated(step, start, steps) = h[steps]
    BY <1>6 DEF Repeated
  <1>8. ASSUME NEW k \in 0..steps PROVE h[k] = IF k = 0 THEN start ELSE step[h[k - 1]]
    BY <1>6
  <1>9. \A k \in 0..steps : h[k] = f[k]
    <2> DEFINE good == {k \in 0..steps : h[k] = f[k]}
    <2>1. 0 \in good
      BY <1>3, <1>8
    <2>2. ASSUME NEW k \in good, k # steps PROVE k + 1 \in good
      <3>1. k + 1 \in 0..steps /\ k + 1 # 0 /\ (k + 1) - 1 = k /\ h[k] = f[k]
        BY <2>2
      <3>2. h[k + 1] = step[h[k]] /\ f[k + 1] = step[f[k]]
        BY <1>4, <1>8, <3>1
      <3>3. QED
        BY <3>1, <3>2
    <2>3. good = 0..steps
      <3> HIDE DEF good
      <3>1. good \subseteq 0..steps
        BY DEF good
      <3>2. QED
        BY <2>1, <2>2, <3>1, Stepwise
    <2>4. QED
      BY <2>3
  <1>10. Repeated(step, start, steps) = f[steps]
    BY <1>7, <1>9
  <1>11. QED
    BY <1>3, <1>10 DEF Passes

-----------------------------------------------------------------------------
(* Cycles. *)

\* A graph of numbered nodes.
IsGraph(g) ==
    /\ {"nodes", "edges"} \subseteq DOMAIN g
    /\ g.nodes \subseteq Nat /\ IsFiniteSet(g.nodes)

\* What is reached from somewhere in so many links.
Growing(g) == [seen \in SUBSET g.nodes |-> seen \cup UNION {Children(g, n) : n \in seen}]

LEMMA BelowFacts ==
    ASSUME NEW g, IsGraph(g), NEW S \in SUBSET g.nodes
    PROVE  /\ Cardinality(g.nodes) \in Nat
           /\ \E f \in [0..Cardinality(g.nodes) -> SUBSET g.nodes] :
                /\ f[0] = S
                /\ \A k \in 1..Cardinality(g.nodes) :
                      f[k] = f[k - 1] \cup UNION {Children(g, n) : n \in f[k - 1]}
                /\ Below(g, S) = f[Cardinality(g.nodes)]
  <1>1. Cardinality(g.nodes) \in Nat
    BY FS_CardinalityType DEF IsGraph
  <1>2. Growing(g) \in [SUBSET g.nodes -> SUBSET g.nodes]
    BY DEF Growing, Children
  <1>3. Below(g, S) = Repeated(Growing(g), S, Cardinality(g.nodes))
    BY DEF Below, Growing
  <1>4. PICK f \in [0..Cardinality(g.nodes) -> SUBSET g.nodes] :
          /\ f[0] = S
          /\ \A k \in 1..Cardinality(g.nodes) : f[k] = Growing(g)[f[k - 1]]
          /\ Repeated(Growing(g), S, Cardinality(g.nodes)) = f[Cardinality(g.nodes)]
    <2> DEFINE T == SUBSET g.nodes
               N == Cardinality(g.nodes)
               step == Growing(g)
    <2>1. N \in Nat /\ S \in T /\ step \in [T -> T]
      BY <1>1, <1>2
    <2>2. \E f : Passes(f, T, S, N, step)
      <3> HIDE DEF T, N, step
      <3>1. QED
        BY <2>1, RepeatedFacts
    <2>3. QED
      BY <2>2 DEF Passes
  <1>5. ASSUME NEW k \in 1..Cardinality(g.nodes)
        PROVE  f[k] = f[k - 1] \cup UNION {Children(g, n) : n \in f[k - 1]}
    <2>1. f[k - 1] \in SUBSET g.nodes
      BY <1>1, <1>4, <1>5
    <2>2. f[k] = Growing(g)[f[k - 1]]
      BY <1>4, <1>5
    <2>3. QED
      BY <2>1, <2>2 DEF Growing
  <1>6. QED
    BY <1>1, <1>3, <1>4, <1>5

\* Whether there is a cycle is a matter of nodes and links.
LEMMA AcyclicAgrees ==
    ASSUME NEW g, NEW h, g.nodes = h.nodes, g.edges = h.edges
    PROVE  Acyclic(g) = Acyclic(h)
  <1>1. \A n : Children(g, n) = Children(h, n)
    BY DEF Children
  <1>2. Growing(g) = Growing(h)
    BY <1>1 DEF Growing
  <1>3. \A S : Below(g, S) = Below(h, S)
    BY <1>2 DEF Below, Growing
  <1>4. \A n : Descendants(g, n) = Descendants(h, n)
    BY <1>1, <1>3 DEF Descendants
  <1>5. QED
    BY <1>4 DEF Acyclic

\* Each link of the path is one of the graph, and all that is on it is the end
\* of a path.
IsPath(g, p, paths) ==
    /\ p \in Seq(g.nodes) /\ Len(p) \in Nat /\ Len(p) > 0
    /\ \A i \in 1..(Len(p) - 1) : <<p[i], p[i + 1]>> \in g.edges
    /\ \A i \in 1..Len(p) : \E q \in paths : Last(q) = p[i]

Lengthening(g) ==
    [paths \in SUBSET Seq(g.nodes) |->
       paths \cup UNION {{Append(p, c) : c \in Children(g, Last(p)) \ ToSet(p)} : p \in paths}]

LEMMA LengthenType ==
    ASSUME NEW g
    PROVE  Lengthening(g) \in [SUBSET Seq(g.nodes) -> SUBSET Seq(g.nodes)]
  <1>1. ASSUME NEW paths \in SUBSET Seq(g.nodes), NEW p \in paths,
               NEW c \in Children(g, Last(p)) \ ToSet(p)
        PROVE  Append(p, c) \in Seq(g.nodes)
    <2>1. p \in Seq(g.nodes) /\ c \in g.nodes
      BY <1>1 DEF Children
    <2>2. QED
      BY <2>1
  <1>2. QED
    BY <1>1 DEF Lengthening

LEMMA LengthenKeeps ==
    ASSUME NEW g, NEW paths \in SUBSET Seq(g.nodes), \A p \in paths : IsPath(g, p, paths),
           NEW q \in Lengthening(g)[paths]
    PROVE  IsPath(g, q, Lengthening(g)[paths])
  <1> DEFINE more == Lengthening(g)[paths]
  <1>1. more = paths \cup UNION {{Append(p, c) : c \in Children(g, Last(p)) \ ToSet(p)} : p \in paths}
    BY DEF Lengthening
  <1>2. CASE q \in paths
    BY <1>1, <1>2 DEF IsPath
  <1>3. ASSUME NEW p \in paths, NEW c \in Children(g, Last(p)) \ ToSet(p), q = Append(p, c)
        PROVE  IsPath(g, q, more)
    <2>1. /\ p \in Seq(g.nodes) /\ Len(p) \in Nat /\ Len(p) > 0
          /\ \A i \in 1..(Len(p) - 1) : <<p[i], p[i + 1]>> \in g.edges
          /\ \A i \in 1..Len(p) : \E r \in paths : Last(r) = p[i]
      BY <1>3 DEF IsPath
    <2>2. c \in g.nodes /\ <<Last(p), c>> \in g.edges /\ Last(p) = p[Len(p)]
      BY <1>3, <2>1 DEF Children, Last
    <2>3. /\ q \in Seq(g.nodes) /\ Len(q) = Len(p) + 1 /\ q[Len(p) + 1] = c
          /\ \A i \in 1..Len(p) : q[i] = p[i]
      BY <1>3, <2>1, <2>2
    <2>4. ASSUME NEW i \in 1..(Len(q) - 1) PROVE <<q[i], q[i + 1]>> \in g.edges
      <3>1. CASE i = Len(p)
        <4>1. q[i] = Last(p) /\ q[i + 1] = c
          BY <2>1, <2>2, <2>3, <3>1
        <4>2. QED
          BY <2>2, <4>1
      <3>2. CASE i # Len(p)
        <4>1. i \in 1..(Len(p) - 1) /\ i \in 1..Len(p) /\ i + 1 \in 1..Len(p)
          BY <2>1, <2>3, <3>2
        <4>2. QED
          BY <2>1, <2>3, <4>1
      <3>3. QED
        BY <3>1, <3>2
    <2>5. ASSUME NEW i \in 1..Len(q) PROVE \E r \in more : Last(r) = q[i]
      <3>1. CASE i = Len(p) + 1
        <4>1. q \in more /\ Last(q) = q[i]
          BY <1>1, <1>3, <2>3, <3>1 DEF Last
        <4>2. QED
          BY <4>1
      <3>2. CASE i # Len(p) + 1
        <4>1. i \in 1..Len(p) /\ q[i] = p[i]
          BY <2>1, <2>3, <3>2
        <4>2. QED
          BY <1>1, <2>1, <4>1
      <3>3. QED
        BY <3>1, <3>2
    <2>6. QED
      BY <2>1, <2>3, <2>4, <2>5 DEF IsPath
  <1>4. QED
    BY <1>1, <1>2, <1>3

LEMMA Alone ==
    ASSUME NEW S, NEW x \in S
    PROVE  <<x>> \in Seq(S) /\ Len(<<x>>) = 1 /\ <<x>>[1] = x /\ Last(<<x>>) = x
  BY DEF Last

\* Who is on a cycle is led back to by a path of as many links as there are nodes.
LEMMA CycleHasPath ==
    ASSUME NEW g, IsGraph(g), NEW n \in g.nodes, n \in Descendants(g, n)
    PROVE  LET paths == SimplePaths(g, {n}, Cardinality(g.nodes))
           IN  /\ \E p \in paths : Last(p) \in Parents(g, n)
               /\ \A p \in paths : IsPath(g, p, paths)
  <1> DEFINE N == Cardinality(g.nodes)
  <1>1. N \in Nat /\ Children(g, n) \in SUBSET g.nodes
    BY FS_CardinalityType DEF IsGraph, Children
  <1>2. PICK f \in [0..N -> SUBSET g.nodes] :
          /\ f[0] = Children(g, n)
          /\ \A k \in 1..N : f[k] = f[k - 1] \cup UNION {Children(g, m) : m \in f[k - 1]}
          /\ Below(g, Children(g, n)) = f[N]
    BY <1>1, BelowFacts
  <1> DEFINE from == {<<m>> : m \in {n}}
  <1>3. from = {<<n>>} /\ from \in SUBSET Seq(g.nodes)
    <2>1. from = {<<n>>}
      OBVIOUS
    <2>2. <<n>> \in Seq(g.nodes)
      BY Alone
    <2> HIDE DEF from
    <2>3. QED
      BY <2>1, <2>2
  <1>4. SimplePaths(g, {n}, N) = Repeated(Lengthening(g), from, N)
    BY DEF SimplePaths, Lengthening
  <1>5. PICK F \in [0..N -> SUBSET Seq(g.nodes)] :
          /\ F[0] = from
          /\ \A k \in 1..N : F[k] = Lengthening(g)[F[k - 1]]
          /\ Repeated(Lengthening(g), from, N) = F[N]
    <2> DEFINE T == SUBSET Seq(g.nodes)
               step == Lengthening(g)
    <2>1. N \in Nat /\ from \in T /\ step \in [T -> T]
      BY <1>1, <1>3, LengthenType
    <2>2. \E F : Passes(F, T, from, N, step)
      <3> HIDE DEF T, N, step, from
      <3>1. QED
        BY <2>1, RepeatedFacts
    <2>3. QED
      BY <2>2 DEF Passes
  <1> HIDE DEF from
  <1> DEFINE Traced(k) == /\ \A p \in F[k] : IsPath(g, p, F[k])
                          /\ \A m \in f[k] : \E p \in F[k] : Last(p) \in Parents(g, m)
             good == {k \in 0..N : Traced(k)}
  <1>6. 0 \in good
    <2>1. <<n>> \in Seq(g.nodes) /\ Len(<<n>>) = 1 /\ <<n>>[1] = n /\ Last(<<n>>) = n
      BY Alone
    <2>2. IsPath(g, <<n>>, {<<n>>})
      BY <2>1 DEF IsPath
    <2>3. \A m \in Children(g, n) : n \in Parents(g, m)
      BY DEF Children, Parents
    <2>4. F[0] = {<<n>>} /\ f[0] = Children(g, n)
      BY <1>2, <1>3, <1>5
    <2>5. Traced(0)
      BY <2>1, <2>2, <2>3, <2>4
    <2>6. QED
      BY <1>1, <2>5
  <1>7. ASSUME NEW k \in good, k # N PROVE k + 1 \in good
    <2>1. k \in 0..N /\ k + 1 \in 1..N /\ k + 1 \in 0..N /\ (k + 1) - 1 = k /\ Traced(k)
      BY <1>1, <1>7
    <2>2. /\ f[k + 1] = f[k] \cup UNION {Children(g, m) : m \in f[k]}
          /\ F[k + 1] = Lengthening(g)[F[k]]
      BY <1>2, <1>5, <2>1
    <2>3. F[k] \in SUBSET Seq(g.nodes) /\ f[k] \in SUBSET g.nodes
      BY <1>2, <1>5, <2>1
    <2>4. F[k + 1] = F[k] \cup UNION {{Append(p, c) : c \in Children(g, Last(p)) \ ToSet(p)} : p \in F[k]}
      BY <2>2, <2>3 DEF Lengthening
    <2>5. \A p \in F[k + 1] : IsPath(g, p, F[k + 1])
      BY <2>1, <2>2, <2>3, LengthenKeeps
    <2>6. ASSUME NEW m \in f[k + 1] PROVE \E p \in F[k + 1] : Last(p) \in Parents(g, m)
      <3>1. CASE m \in f[k]
        BY <2>1, <2>4, <3>1
      <3>2. ASSUME NEW l \in f[k], m \in Children(g, l)
            PROVE  \E p \in F[k + 1] : Last(p) \in Parents(g, m)
        <4>1. l \in g.nodes /\ l \in Parents(g, m)
          BY <2>3, <3>2 DEF Children, Parents
        <4>2. PICK p \in F[k] : Last(p) \in Parents(g, l)
          BY <2>1, <3>2
        <4>3. IsPath(g, p, F[k])
          BY <2>1, <4>2
        <4>4. CASE l \in ToSet(p)
          <5>1. PICK i \in DOMAIN p : l = p[i]
            BY <4>4 DEF ToSet
          <5>2. p \in Seq(g.nodes) /\ i \in 1..Len(p)
            BY <4>3, <5>1 DEF IsPath
          <5>3. PICK q \in F[k] : Last(q) = l
            BY <4>3, <5>1, <5>2 DEF IsPath
          <5>4. QED
            BY <2>4, <4>1, <5>3
        <4>5. CASE l \notin ToSet(p)
          <5>1. l \in Children(g, Last(p)) \ ToSet(p)
            BY <4>1, <4>2, <4>5 DEF Children, Parents
          <5>2. Append(p, l) \in F[k + 1]
            BY <2>4, <5>1
          <5>3. Last(Append(p, l)) = l
            <6>1. p \in Seq(g.nodes)
              BY <4>3 DEF IsPath
            <6>2. QED
              BY <4>1, <6>1 DEF Last
          <5>4. QED
            BY <4>1, <5>2, <5>3
        <4>6. QED
          BY <4>4, <4>5
      <3>3. QED
        BY <2>2, <3>1, <3>2
    <2>7. QED
      BY <2>1, <2>5, <2>6
  <1>8. good = 0..N
    <2> HIDE DEF good, N
    <2>1. good \subseteq 0..N
      BY DEF good
    <2>2. QED
      BY <1>1, <1>6, <1>7, <2>1, Stepwise
  <1>9. Traced(N)
    <2>1. N \in 0..N
      BY <1>1
    <2>2. QED
      BY <1>8, <2>1
  <1>10. n \in f[N]
    BY <1>2 DEF Descendants
  <1>11. PICK p \in F[N] : Last(p) \in Parents(g, n)
    BY <1>9, <1>10
  <1>12. \A q \in F[N] : IsPath(g, q, F[N])
    BY <1>9
  <1>13. QED
    BY <1>4, <1>5, <1>11, <1>12

LEMMA MinFacts ==
    ASSUME NEW S, S \subseteq Nat, S # {}
    PROVE  Min(S) \in S
  <1>1. PICK m \in S : \A k \in S : m <= k
    BY LeastExists
  <1>2. QED
    BY <1>1 DEF Min

\* What is found of a cycle: links of the graph, at least one.
LEMMA FindCycleFacts ==
    ASSUME NEW g, IsGraph(g), ~Acyclic(g)
    PROVE  FindCycle(g) \subseteq g.edges \cap (g.nodes \X g.nodes) /\ FindCycle(g) # {}
  <1> DEFINE round == {m \in g.nodes : m \in Descendants(g, m)}
             n == Min(round)
             paths == SimplePaths(g, {n}, Cardinality(g.nodes))
             path == CHOOSE p \in paths : Last(p) \in Parents(g, n)
  <1>1. round \subseteq Nat /\ round # {}
    BY DEF Acyclic, IsGraph
  <1>2. n \in round
    BY <1>1, MinFacts
  <1>3. n \in g.nodes /\ n \in Descendants(g, n)
    BY <1>2
  <1>4. /\ path \in paths /\ Last(path) \in Parents(g, n)
        /\ path \in Seq(g.nodes) /\ Len(path) \in Nat /\ Len(path) > 0
        /\ \A i \in 1..(Len(path) - 1) : <<path[i], path[i + 1]>> \in g.edges
    <2> HIDE DEF n
    <2>1. /\ \E p \in paths : Last(p) \in Parents(g, n)
          /\ \A p \in paths : IsPath(g, p, paths)
      BY <1>3, CycleHasPath
    <2>2. path \in paths /\ Last(path) \in Parents(g, n)
      BY <2>1
    <2>3. IsPath(g, path, paths)
      BY <2>1, <2>2
    <2>4. QED
      BY <2>2, <2>3 DEF IsPath
  <1>5. FindCycle(g) = LinksOf(path) \cup {<<Last(path), n>>}
    BY DEF FindCycle
  <1> HIDE DEF path, paths, n, round
  <1>6. LinksOf(path) \subseteq g.edges \cap (g.nodes \X g.nodes)
    <2>1. ASSUME NEW i \in 1..(Len(path) - 1)
          PROVE  <<path[i], path[i + 1]>> \in g.edges \cap (g.nodes \X g.nodes)
      <3>1. i \in 1..Len(path) /\ i + 1 \in 1..Len(path)
        BY <1>4
      <3>2. path[i] \in g.nodes /\ path[i + 1] \in g.nodes
        BY <1>4, <3>1
      <3>3. QED
        BY <1>4, <3>2
    <2>2. QED
      BY <2>1 DEF LinksOf
  <1>7. <<Last(path), n>> \in g.edges \cap (g.nodes \X g.nodes)
    BY <1>3, <1>4 DEF Parents
  <1>8. QED
    BY <1>5, <1>6, <1>7

LEMMA WeakestFacts ==
    ASSUME NEW cycle, cycle # {}, NEW score, \A e \in cycle : score[e] \in Nat
    PROVE  Weakest(cycle, score) \in cycle
  <1> DEFINE scores == {score[e] : e \in cycle}
  <1>1. PICK m \in scores : \A k \in scores : m <= k
    <2>1. scores \subseteq Nat /\ scores # {}
      OBVIOUS
    <2> HIDE DEF scores
    <2>2. QED
      BY <2>1, LeastExists
  <1>2. PICK e \in cycle : score[e] = m
    BY <1>1
  <1>3. \A f \in cycle : score[e] <= score[f]
    BY <1>1, <1>2
  <1>4. QED
    BY <1>3 DEF Weakest

\* Scores by which the links between the nodes can be compared.
Scored(g, score) == \A e \in g.edges \cap (g.nodes \X g.nodes) : score[e] \in Nat

\* A graph with a cycle loses a link.
LEMMA BreakCycleFacts ==
    ASSUME NEW g, IsGraph(g), NEW score, Scored(g, score)
    PROVE  /\ BreakCycle(g, score) \subseteq g.edges
           /\ Acyclic(g) => BreakCycle(g, score) = g.edges
           /\ ~Acyclic(g) => \E e \in g.edges : BreakCycle(g, score) = g.edges \ {e}
  <1>1. CASE Acyclic(g)
    BY <1>1 DEF BreakCycle
  <1>2. CASE ~Acyclic(g)
    <2>1. FindCycle(g) \subseteq g.edges \cap (g.nodes \X g.nodes) /\ FindCycle(g) # {}
      BY <1>2, FindCycleFacts
    <2>2. \A e \in FindCycle(g) : score[e] \in Nat
      BY <2>1 DEF Scored
    <2>3. Weakest(FindCycle(g), score) \in FindCycle(g)
      BY <2>1, <2>2, WeakestFacts
    <2>4. QED
      BY <1>2, <2>1, <2>3 DEF BreakCycle
  <1>3. QED
    BY <1>1, <1>2

WithEdges(g, rest) == [g EXCEPT !.edges = rest]

LEMMA WithEdgesFacts ==
    ASSUME NEW g, IsGraph(g), NEW rest
    PROVE  /\ WithEdges(g, rest).nodes = g.nodes /\ WithEdges(g, rest).edges = rest
           /\ IsGraph(WithEdges(g, rest)) /\ DOMAIN WithEdges(g, rest) = DOMAIN g
  <1>1. WithEdges(g, rest).nodes = g.nodes /\ WithEdges(g, rest).edges = rest
    BY DEF IsGraph, WithEdges
  <1>2. DOMAIN WithEdges(g, rest) = DOMAIN g
    BY DEF WithEdges
  <1>3. QED
    BY <1>1, <1>2 DEF IsGraph

\* One link less for each that there is, or no cycle any more: what is left has
\* no cycle.
LEMMA BreakCyclesFacts ==
    ASSUME NEW g, IsGraph(g), IsFiniteSet(g.edges), NEW score, Scored(g, score)
    PROVE  \E rest \in SUBSET g.edges :
              /\ BreakCyclesBy(g, score) = WithEdges(g, rest)
              /\ Acyclic(BreakCyclesBy(g, score))
  <1> DEFINE N == Cardinality(g.edges)
             T == SUBSET g.edges
             left == [rest \in SUBSET g.edges |-> BreakCycle([g EXCEPT !.edges = rest], score)]
  <1>1. ASSUME NEW rest \in SUBSET g.edges
        PROVE  LET h == WithEdges(g, rest)
               IN  /\ left[rest] = BreakCycle(h, score) /\ left[rest] \subseteq rest
                   /\ Acyclic(h) => left[rest] = rest
                   /\ ~Acyclic(h) => \E e \in rest : left[rest] = rest \ {e}
    <2> DEFINE h == WithEdges(g, rest)
    <2>1. h.nodes = g.nodes /\ h.edges = rest /\ IsGraph(h)
      BY WithEdgesFacts
    <2>2. Scored(h, score)
      BY <2>1 DEF Scored
    <2>3. left[rest] = BreakCycle(h, score)
      BY DEF WithEdges
    <2> HIDE DEF h, left
    <2>4. QED
      BY <2>1, <2>2, <2>3, BreakCycleFacts DEF h
  <1>2. left \in [T -> T]
    BY <1>1
  <1>3. N \in Nat /\ g.edges \in T /\ \A rest \in T : IsFiniteSet(rest)
    BY FS_CardinalityType, FS_Subset
  <1>4. PICK f : Passes(f, T, g.edges, N, left)
    <2> HIDE DEF N, T, left
    <2>1. QED
      BY <1>2, <1>3, RepeatedFacts
  <1>5. /\ f \in [0..N -> T] /\ f[0] = g.edges
        /\ \A k \in 1..N : f[k] = left[f[k - 1]]
        /\ Repeated(left, g.edges, N) = f[N]
    <2> HIDE DEF N, T, left
    <2>1. QED
      BY <1>4 DEF Passes
  <1> DEFINE Shrunk(k) == Acyclic(WithEdges(g, f[k])) \/ Cardinality(f[k]) <= N - k
             good == {k \in 0..N : Shrunk(k)}
  <1>6. 0 \in good
    BY <1>3, <1>5
  <1>7. ASSUME NEW k \in good, k # N PROVE k + 1 \in good
    <2>1. k \in 0..N /\ k + 1 \in 1..N /\ k + 1 \in 0..N /\ (k + 1) - 1 = k /\ Shrunk(k)
      BY <1>3, <1>7
    <2>2. f[k] \in SUBSET g.edges /\ f[k + 1] = left[f[k]]
      BY <1>5, <2>1
    <2>3. CASE Acyclic(WithEdges(g, f[k]))
      BY <1>1, <2>1, <2>2, <2>3
    <2>4. CASE ~Acyclic(WithEdges(g, f[k]))
      <3>1. PICK e \in f[k] : f[k + 1] = f[k] \ {e}
        <4>1. \E e \in f[k] : left[f[k]] = f[k] \ {e}
          <5> HIDE DEF left
          <5>1. QED
            BY <1>1, <2>2, <2>4
        <4>2. QED
          BY <2>2, <4>1
      <3>2. IsFiniteSet(f[k]) /\ Cardinality(f[k]) <= N - k
        BY <1>3, <2>1, <2>2, <2>4
      <3>3. Cardinality(f[k + 1]) = Cardinality(f[k]) - 1 /\ Cardinality(f[k]) \in Nat
        BY <3>1, <3>2, FS_RemoveElement, FS_CardinalityType
      <3>4. Cardinality(f[k + 1]) <= N - (k + 1)
        BY <1>3, <2>1, <3>2, <3>3
      <3>5. QED
        BY <2>1, <3>4
    <2>5. QED
      BY <2>3, <2>4
  <1>8. good = 0..N
    <2> HIDE DEF good, N
    <2>1. good \subseteq 0..N
      BY DEF good
    <2>2. QED
      BY <1>3, <1>6, <1>7, <2>1, Stepwise
  <1>9. f[N] \in SUBSET g.edges /\ Shrunk(N)
    <2>1. N \in 0..N
      BY <1>3
    <2>2. QED
      BY <1>5, <1>8, <2>1
  <1>10. Acyclic(WithEdges(g, f[N]))
    <2>1. CASE Cardinality(f[N]) <= N - N
      <3>1. IsFiniteSet(f[N]) /\ Cardinality(f[N]) \in Nat
        BY <1>3, <1>9, FS_CardinalityType
      <3>2. f[N] = {}
        BY <1>3, <2>1, <3>1, FS_EmptySet
      <3>3. IsGraph(WithEdges(g, f[N])) /\ WithEdges(g, f[N]).edges = {}
        BY <3>2, WithEdgesFacts
      <3>4. QED
        BY <3>3, FindCycleFacts
    <2>2. QED
      BY <1>9, <2>1
  <1>11. BreakCyclesBy(g, score) = WithEdges(g, f[N])
    <2>1. BreakCyclesBy(g, score) = [g EXCEPT !.edges = Repeated(left, g.edges, Cardinality(g.edges))]
      BY DEF BreakCyclesBy
    <2>2. QED
      BY <1>5, <2>1 DEF WithEdges
  <1>12. QED
    BY <1>9, <1>10, <1>11

-----------------------------------------------------------------------------
(* Claims are asked about. *)

LEMMA ClaimsAreNumbers ==
    /\ Cardinality(Claims) \in Nat /\ Claims = 1..Cardinality(Claims) /\ Claims \subseteq Nat
    /\ IsFiniteSet(Claims)
  BY GraphBuildAssumption, FS_CardinalityType

\* How often something comes up in a list.
Occurrences(list, c) == Cardinality({i \in DOMAIN list : list[i] = c})

Distinct(s, k) == \A i, j \in 1..k : i < j => s[i] # s[j]

LEMMA OnceIfDistinct ==
    ASSUME NEW k \in Nat, NEW T, NEW s \in [1..k -> T], Distinct(s, k), NEW c
    PROVE  Occurrences(s, c) = IF \E i \in 1..k : s[i] = c THEN 1 ELSE 0
  <1> DEFINE at == {i \in 1..k : s[i] = c}
  <1>1. Occurrences(s, c) = Cardinality(at)
    BY DEF Occurrences
  <1>2. CASE \E i \in 1..k : s[i] = c
    <2>1. PICK i \in 1..k : s[i] = c
      BY <1>2
    <2>2. ASSUME NEW j \in at PROVE j = i
      <3>1. j \in 1..k /\ s[j] = s[i]
        BY <2>1, <2>2
      <3>2. ~(i < j) /\ ~(j < i)
        BY <2>1, <3>1 DEF Distinct
      <3>3. QED
        BY <3>1, <3>2
    <2>3. at = {i}
      BY <2>1, <2>2
    <2>4. QED
      BY <1>1, <1>2, <2>3, FS_Singleton
  <1>3. CASE ~\E i \in 1..k : s[i] = c
    <2>1. at = {}
      BY <1>3
    <2>2. QED
      BY <1>1, <1>3, <2>1, FS_EmptySet
  <1>4. QED
    BY <1>2, <1>3

\* A set in order names each of its members once.
LEMMA InOrderOnce ==
    ASSUME NEW S \in SUBSET Claims
    PROVE  /\ InOrder(S) \in Seq(Claims)
           /\ \A c : Occurrences(InOrder(S), c) = IF c \in S THEN 1 ELSE 0
  <1> DEFINE k == Cardinality(S)
             s == InOrder(S)
  <1>1. k \in Nat /\ Lists(s, k, S)
    BY ClaimsAreNumbers, InOrderFacts
  <1>2. /\ s \in [1..k -> S] /\ \A i, j \in 1..k : i < j => s[i] < s[j]
        /\ \A e \in S : \E i \in 1..k : s[i] = e
    BY <1>1 DEF Lists
  <1> HIDE DEF k, s
  <1>3. Distinct(s, k)
    <2>1. \A i \in 1..k : s[i] \in Nat
      BY <1>2, ClaimsAreNumbers
    <2>2. \A a, b \in Nat : a < b => a # b
      OBVIOUS
    <2>3. QED
      BY <1>2, <2>1, <2>2 DEF Distinct
  <1>4. s \in Seq(Claims)
    <2>1. s \in [1..k -> Claims]
      BY <1>2
    <2>2. QED
      BY <1>1, <2>1, FunctionsAreSequences
  <1>5. \A c : Occurrences(s, c) = IF c \in S THEN 1 ELSE 0
    <2> SUFFICES ASSUME NEW c PROVE Occurrences(s, c) = IF c \in S THEN 1 ELSE 0
      OBVIOUS
    <2>1. Occurrences(s, c) = IF \E i \in 1..k : s[i] = c THEN 1 ELSE 0
      <3>1. PICK n, T, f : n = k /\ T = S /\ f = s
        OBVIOUS
      <3>2. n \in Nat /\ f \in [1..n -> T] /\ Distinct(f, n)
        BY <1>1, <1>2, <1>3, <3>1
      <3>3. Occurrences(f, c) = IF \E i \in 1..n : f[i] = c THEN 1 ELSE 0
        BY <3>2, OnceIfDistinct
      <3>4. QED
        BY <3>1, <3>3
    <2>2. (\E i \in 1..k : s[i] = c) <=> c \in S
      BY <1>2
    <2>3. QED
      BY <2>1, <2>2
  <1>6. QED
    BY <1>4, <1>5 DEF s

\* Of a queue each claim that is due is asked about once.
LEMMA ToAskOnce ==
    ASSUME NEW list \in Seq(Claims), NEW seen
    PROVE  /\ ToAsk(list, seen) \in Seq(Claims)
           /\ \A c : Occurrences(ToAsk(list, seen), c) =
                       IF c \in (Sources \ seen) \cap ToSet(list) THEN 1 ELSE 0
  <1> DEFINE at == {i \in DOMAIN list : /\ list[i] \in Sources \ seen
                                        /\ \A j \in 1..(i - 1) : list[j] # list[i]}
             a == ToAsk(list, seen)
             k == Cardinality(at)
  <1>1. a = Picked(list, at) /\ at \subseteq DOMAIN list
    BY DEF ToAsk
  <1>2. at \subseteq 1..Len(list) /\ Len(list) \in Nat /\ DOMAIN list = 1..Len(list)
    OBVIOUS
  <1>3. k \in Nat
    BY <1>2, InOrderFacts
  <1>4. /\ a \in Seq(Claims) /\ Len(a) = k
        /\ \E kept : /\ Lists(kept, k, at) /\ \A n \in 1..k : a[n] = list[kept[n]]
    <2> HIDE DEF at, a
    <2>1. QED
      BY <1>1, PickedFacts
  <1>5. PICK kept : Lists(kept, k, at) /\ \A n \in 1..k : a[n] = list[kept[n]]
    BY <1>4
  <1>6. /\ kept \in [1..k -> at] /\ \A i, j \in 1..k : i < j => kept[i] < kept[j]
        /\ \A e \in at : \E i \in 1..k : kept[i] = e
    BY <1>5 DEF Lists
  <1>7. a \in [1..k -> Claims]
    <2> HIDE DEF a, at
    <2>1. QED
      BY <1>3, <1>4
  <1>8. ASSUME NEW i \in 1..k, NEW j \in 1..k, i < j PROVE a[i] # a[j]
    <2>1. kept[i] \in at /\ kept[j] \in at /\ kept[i] < kept[j]
      BY <1>6, <1>8
    <2>2. kept[i] \in 1..(kept[j] - 1)
      BY <1>2, <2>1
    <2>3. list[kept[i]] # list[kept[j]]
      BY <2>1, <2>2
    <2>4. QED
      BY <1>5, <2>3
  <1>9. ASSUME NEW c PROVE (\E i \in 1..k : a[i] = c) <=> c \in (Sources \ seen) \cap ToSet(list)
    <2>1. ASSUME NEW i \in 1..k, a[i] = c PROVE c \in (Sources \ seen) \cap ToSet(list)
      <3>1. kept[i] \in at /\ list[kept[i]] = c
        BY <1>5, <1>6, <2>1
      <3>2. QED
        BY <3>1 DEF ToSet
    <2>2. ASSUME c \in (Sources \ seen) \cap ToSet(list) PROVE \E i \in 1..k : a[i] = c
      <3> DEFINE places == {i \in 1..Len(list) : list[i] = c}
      <3>1. places \subseteq Nat /\ places # {}
        BY <1>2, <2>2 DEF ToSet
      <3>2. PICK m \in places : \A l \in places : m <= l
        <4> HIDE DEF places
        <4>1. QED
          BY <3>1, LeastExists
      <3>3. m \in 1..Len(list) /\ list[m] = c
        BY <3>2
      <3>4. ASSUME NEW j \in 1..(m - 1) PROVE list[j] # list[m]
        <4>1. j \in 1..Len(list) /\ ~(m <= j)
          BY <1>2, <3>3, <3>4
        <4>2. QED
          BY <3>2, <3>3, <4>1
      <3>5. m \in at
        BY <1>2, <2>2, <3>3, <3>4
      <3>6. PICK i \in 1..k : kept[i] = m
        BY <1>6, <3>5
      <3>7. QED
        BY <1>5, <3>3, <3>6
    <2>3. QED
      BY <2>1, <2>2
  <1>10. ASSUME NEW c
         PROVE  Occurrences(a, c) = IF c \in (Sources \ seen) \cap ToSet(list) THEN 1 ELSE 0
    <2>1. Occurrences(a, c) = IF \E i \in 1..k : a[i] = c THEN 1 ELSE 0
      <3>1. Distinct(a, k)
        BY <1>8 DEF Distinct
      <3> HIDE DEF a, k, at
      <3>2. QED
        BY <1>3, <1>7, <3>1, OnceIfDistinct
    <2>2. QED
      BY <1>9, <2>1
  <1>11. QED
    BY <1>4, <1>10

LEMMA Quotients ==
    ASSUME NEW l \in Nat, NEW n \in Nat, NEW k \in 1..(l * n)
    PROVE  1 + (k - 1) \div n \in 1..l /\ 1 + ((k - 1) % n) \in 1..n
  <1>1. n > 0
    <2>1. CASE n = 0
      <3>1. l * n = 0
        BY <2>1
      <3>2. QED
        BY <3>1
    <2>2. QED
      BY <2>1
  <1> DEFINE q == (k - 1) \div n
             r == (k - 1) % n
  <1>2. /\ k \in Int /\ k - 1 >= 0 /\ l * n \in Nat /\ k <= l * n
    OBVIOUS
  <1>3. q \in Nat /\ r \in 0..(n - 1) /\ k - 1 = n * q + r
    BY <1>1, <1>2
  <1> HIDE DEF q, r
  <1>4. q < l
    <2> SUFFICES ASSUME q >= l PROVE FALSE
      BY <1>3
    <2>1. n * q >= n * l /\ n * l = l * n /\ n * q \in Nat
      BY <1>1, <1>3
    <2>2. QED
      BY <1>2, <1>3, <2>1
  <1>5. QED
    BY <1>3, <1>4 DEF q, r

LEMMA PairsAreClaims ==
    ASSUME NEW list \in Seq(Claims)
    PROVE  Pairs(list) \in Seq(Claims \X Claims)
  <1> DEFINE n == Cardinality(Claims)
             m == Len(list) * n
  <1>1. n \in Nat /\ Len(list) \in Nat /\ Claims = 1..n
    BY ClaimsAreNumbers
  <1>2. m \in Nat
    BY <1>1
  <1>3. ASSUME NEW k \in 1..m PROVE <<list[1 + (k - 1) \div n], 1 + ((k - 1) % n)>> \in Claims \X Claims
    <2>1. 1 + (k - 1) \div n \in 1..Len(list) /\ 1 + ((k - 1) % n) \in 1..n
      <3> HIDE DEF n
      <3>1. QED
        BY <1>1, Quotients
    <2>2. list[1 + (k - 1) \div n] \in Claims
      BY <2>1
    <2>3. QED
      BY <1>1, <2>1, <2>2
  <1>4. Pairs(list) = [k \in 1..m |-> <<list[1 + (k - 1) \div n], 1 + ((k - 1) % n)>>]
    BY DEF Pairs
  <1>5. Pairs(list) \in [1..m -> Claims \X Claims]
    BY <1>3, <1>4
  <1>6. QED
    BY <1>2, <1>5, FunctionsAreSequences

LEMMA ExpandFacts ==
    ASSUME NEW list \in Seq(Claims), found \in Seq(Claims \X Claims), Expand(list)
    PROVE  /\ found' \in Seq(Claims \X Claims) /\ queue' \in Seq(Claims)
           /\ asked' = [c \in Claims |-> asked[c] + Occurrences(list, c)]
  <1> DEFINE pairs == Pairs(list)
  <1>1. PICK causes :
          LET more == Picked(pairs, {k \in DOMAIN pairs : pairs[k][2] \in causes[pairs[k][1]]})
          IN  /\ found' = found \o more
              /\ queue' = LET effects == [k \in DOMAIN more |-> more[k][2]]
                          IN  Picked(effects, {k \in DOMAIN effects : effects[k] \notin visited'})
    BY DEF Expand
  <1> DEFINE at == {k \in DOMAIN pairs : pairs[k][2] \in causes[pairs[k][1]]}
             more == Picked(pairs, at)
             effects == [k \in DOMAIN more |-> more[k][2]]
             on == {k \in DOMAIN effects : effects[k] \notin visited'}
  <1>2. pairs \in Seq(Claims \X Claims)
    BY PairsAreClaims
  <1>3. more \in Seq(Claims \X Claims)
    <2>1. at \subseteq DOMAIN pairs
      OBVIOUS
    <2> HIDE DEF pairs, at
    <2>2. QED
      BY <1>2, <2>1, PickedFacts
  <1>4. found' = found \o more /\ queue' = Picked(effects, on)
    BY <1>1
  <1>5. effects \in Seq(Claims)
    <2> HIDE DEF more
    <2>1. effects \in [1..Len(more) -> Claims] /\ Len(more) \in Nat
      BY <1>3
    <2> HIDE DEF effects
    <2>2. QED
      BY <2>1, FunctionsAreSequences
  <1>6. queue' \in Seq(Claims)
    <2>1. on \subseteq DOMAIN effects
      OBVIOUS
    <2> HIDE DEF effects, on
    <2>2. QED
      BY <1>4, <1>5, <2>1, PickedFacts
  <1>7. found' \in Seq(Claims \X Claims)
    <2> HIDE DEF more
    <2>1. QED
      BY <1>3, <1>4
  <1>8. asked' = [c \in Claims |-> asked[c] + Occurrences(list, c)]
    BY DEF Expand, Occurrences
  <1>9. QED
    BY <1>6, <1>7, <1>8

-----------------------------------------------------------------------------
(* The graph is whole. *)

Asking == phase \in {"roots", "waves", "sweep", "build"}
GraphTypes ==
    /\ material \in Materials
    /\ phase \in {"roots", "waves", "sweep", "build", "served"}
    /\ queue \in Seq(Claims) /\ visited \in SUBSET Claims
    /\ found \in Seq(Claims \X Claims)
    /\ {"nodes", "edges"} \subseteq DOMAIN rows
    /\ edits \in Nat
\* Who was in a wave was asked about, once, unless it is an outcome.
AskedSoFar ==
    /\ Asking => asked = [c \in Claims |-> IF c \in Sources \cap visited THEN 1 ELSE 0]
    /\ phase = "build" => Sources \subseteq visited
Whole == GraphTypes /\ AskedSoFar /\ OutcomesCauseNothing /\ BuiltGraphHasNoCycle

LEMMA WholeSuffices == Whole => GraphIsWhole
  <1> SUFFICES ASSUME Whole, phase = "build", NEW c \in Claims
               PROVE  asked[c] = IF c \in Outcomes THEN 0 ELSE 1
    BY DEF Whole, GraphIsWhole, EachClaimIsAskedOnce
  <1>1. /\ asked = [d \in Claims |-> IF d \in Sources \cap visited THEN 1 ELSE 0]
        /\ Sources \subseteq visited
    BY DEF Whole, AskedSoFar, Asking
  <1>2. QED
    BY <1>1 DEF Sources

LEMMA WholeInit == GraphInit => Whole
  <1> SUFFICES ASSUME GraphInit PROVE Whole
    OBVIOUS
  <1>1. GraphTypes
    <2>1. queue = <<>> /\ found = <<>>
      BY DEF GraphInit
    <2>2. queue \in Seq(Claims) /\ found \in Seq(Claims \X Claims)
      BY <2>1
    <2>3. QED
      BY <2>2 DEF GraphInit, GraphTypes, NoRows
  <1>2. AskedSoFar
    BY DEF GraphInit, AskedSoFar, Asking
  <1>3. OutcomesCauseNothing /\ BuiltGraphHasNoCycle
    BY DEF GraphInit, OutcomesCauseNothing, BuiltGraphHasNoCycle, Served, NoRows
  <1>4. QED
    BY <1>1, <1>2, <1>3 DEF Whole

\* Every step but a build leaves either the graph as it was, or an edit.
LEMMA RootsHold == Whole /\ IdentifyRoots => Whole'
  <1> SUFFICES ASSUME Whole, IdentifyRoots PROVE Whole'
    OBVIOUS
  <1>1. PICK named \in SUBSET Claims :
          queue' = InOrder(IF named \ Outcomes = {} THEN Sources ELSE named \ Outcomes)
    BY DEF IdentifyRoots
  <1>2. queue' \in Seq(Claims)
    <2> DEFINE S == IF named \ Outcomes = {} THEN Sources ELSE named \ Outcomes
    <2>1. S \in SUBSET Claims
      BY DEF Sources
    <2> HIDE DEF S
    <2>2. InOrder(S) \in Seq(Claims)
      BY <2>1, InOrderOnce
    <2>3. QED
      BY <1>1, <2>2 DEF S
  <1>3. QED
    BY <1>2 DEF IdentifyRoots, Whole, GraphTypes, AskedSoFar, Asking, OutcomesCauseNothing,
                BuiltGraphHasNoCycle, Served, stored

LEMMA WaveHolds == Whole /\ Wave => Whole'
  <1> SUFFICES ASSUME Whole, Wave PROVE Whole'
    OBVIOUS
  <1> DEFINE a == ToAsk(queue, visited)
             due == (Sources \ visited) \cap ToSet(queue)
  <1>1. /\ queue \in Seq(Claims) /\ visited \in SUBSET Claims /\ found \in Seq(Claims \X Claims)
        /\ phase = "waves" /\ visited' = visited \cup ToSet(queue)
        /\ asked = [c \in Claims |-> IF c \in Sources \cap visited THEN 1 ELSE 0]
        /\ UNCHANGED <<material, stored>>
    BY DEF Wave, Whole, GraphTypes, AskedSoFar, Asking
  <1>2. a \in Seq(Claims) /\ \A c : Occurrences(a, c) = IF c \in due THEN 1 ELSE 0
    BY <1>1, ToAskOnce
  <1>3. ToSet(queue) \subseteq Claims
    BY <1>1 DEF ToSet
  <1> HIDE DEF a
  <1>4. /\ queue' \in Seq(Claims) /\ found' \in Seq(Claims \X Claims)
        /\ phase' \in {"waves", "sweep"}
        /\ asked' = [c \in Claims |-> IF c \in Sources \cap visited' THEN 1 ELSE 0]
    <2>1. CASE a = <<>>
      <3>1. phase' = "sweep" /\ UNCHANGED <<queue, asked, found>>
        BY <2>1 DEF Wave, a
      <3>2. due = {}
        <4> SUFFICES ASSUME NEW c \in due PROVE FALSE
          OBVIOUS
        <4>1. Occurrences(a, c) = 1
          BY <1>2
        <4>2. {i \in DOMAIN a : a[i] = c} = {}
          BY <2>1
        <4>3. QED
          BY <4>1, <4>2, FS_EmptySet DEF Occurrences
      <3>3. Sources \cap visited' = Sources \cap visited
        BY <1>1, <3>2
      <3>4. QED
        BY <1>1, <3>1, <3>3
    <2>2. CASE a # <<>>
      <3>1. phase' = phase /\ Expand(a)
        BY <2>2 DEF Wave, a
      <3>2. /\ found' \in Seq(Claims \X Claims) /\ queue' \in Seq(Claims)
            /\ asked' = [c \in Claims |-> asked[c] + Occurrences(a, c)]
        BY <1>1, <1>2, <3>1, ExpandFacts
      <3>3. ASSUME NEW c \in Claims
            PROVE  asked[c] + Occurrences(a, c) = IF c \in Sources \cap visited' THEN 1 ELSE 0
        <4>1. asked[c] = (IF c \in Sources \cap visited THEN 1 ELSE 0)
          BY <1>1
        <4>2. Occurrences(a, c) = (IF c \in due THEN 1 ELSE 0)
          BY <1>2
        <4>3. QED
          BY <1>1, <4>1, <4>2
      <3>4. QED
        BY <1>1, <3>1, <3>2, <3>3
    <2>3. QED
      BY <2>1, <2>2
  <1>5. QED
    BY <1>1, <1>3, <1>4
       DEF Whole, GraphTypes, AskedSoFar, Asking, OutcomesCauseNothing, BuiltGraphHasNoCycle, Served, stored

LEMMA SweepHolds == Whole /\ Sweep => Whole'
  <1> SUFFICES ASSUME Whole, Sweep PROVE Whole'
    OBVIOUS
  <1> DEFINE left == Sources \ visited
             a == InOrder(left)
  <1>1. /\ visited \in SUBSET Claims /\ found \in Seq(Claims \X Claims)
        /\ visited' = visited \cup Sources /\ phase' = "build"
        /\ asked = [c \in Claims |-> IF c \in Sources \cap visited THEN 1 ELSE 0]
        /\ Expand(a) /\ UNCHANGED <<material, stored>>
    BY DEF Sweep, Whole, GraphTypes, AskedSoFar, Asking
  <1>2. a \in Seq(Claims) /\ \A c : Occurrences(a, c) = IF c \in left THEN 1 ELSE 0
    <2>1. left \in SUBSET Claims
      BY DEF Sources
    <2> HIDE DEF left
    <2>2. QED
      BY <2>1, InOrderOnce
  <1> HIDE DEF a
  <1>3. /\ found' \in Seq(Claims \X Claims) /\ queue' \in Seq(Claims)
        /\ asked' = [c \in Claims |-> asked[c] + Occurrences(a, c)]
    BY <1>1, <1>2, ExpandFacts
  <1>4. ASSUME NEW c \in Claims
        PROVE  asked[c] + Occurrences(a, c) = IF c \in Sources \cap visited' THEN 1 ELSE 0
    <2>1. asked[c] = (IF c \in Sources \cap visited THEN 1 ELSE 0)
      BY <1>1
    <2>2. Occurrences(a, c) = (IF c \in left THEN 1 ELSE 0)
      BY <1>2
    <2>3. QED
      BY <1>1, <2>1, <2>2
  <1>5. asked' = [c \in Claims |-> IF c \in Sources \cap visited' THEN 1 ELSE 0]
    BY <1>3, <1>4
  <1>6. visited' \in SUBSET Claims /\ Sources \subseteq visited'
    BY <1>1 DEF Sources
  <1>7. QED
    BY <1>1, <1>3, <1>5, <1>6
       DEF Whole, GraphTypes, AskedSoFar, Asking, OutcomesCauseNothing, BuiltGraphHasNoCycle, Served, stored

LEMMA KeptAreFound ==
    ASSUME found \in Seq(Claims \X Claims)
    PROVE  Kept \subseteq {e \in Claims \X Claims : e[1] \notin Outcomes}
  <1> DEFINE rest == {i \in DOMAIN found : found[i][1] \notin Outcomes}
  <1>1. PICK some : some \subseteq rest /\ Kept = {found[i] : i \in some}
    BY DEF Kept
  <1>2. \A i \in rest : found[i] \in Claims \X Claims /\ found[i][1] \notin Outcomes
    OBVIOUS
  <1> HIDE DEF rest
  <1>3. QED
    BY <1>1, <1>2

LEMMA FiguresAreNumbers == \A x : x \in 0..One \/ x \in 0..100 => x \in Nat
  <1>1. One \in Nat
    BY DEF One
  <1>2. QED
    BY <1>1

LEMMA BuildHolds == Whole /\ Build => Whole'
  <1> SUFFICES ASSUME Whole, Build PROVE Whole'
    OBVIOUS
  <1> DEFINE strong == {e \in Kept : material.strength[e] >= MinEdgeStrength}
             drawn == Drawn(strong)
             score == [e \in drawn.edges |-> drawn.strength[e] * drawn.evidence[e]]
             graph == BreakCycles(drawn)
  <1>1. /\ material \in Materials /\ found \in Seq(Claims \X Claims) /\ edits \in Nat
        /\ {"nodes", "edges"} \subseteq DOMAIN rows
    BY DEF Whole, GraphTypes
  <1>2. /\ rows' = [drawn EXCEPT !.gate = DetermineLogicGates(graph)]
        /\ feedback' = drawn.edges \ graph.edges
        /\ phase' = "served" /\ queue' = <<>> /\ visited' = {} /\ found' = <<>>
        /\ UNCHANGED <<material, edits>>
    BY DEF Build
  <1>3. /\ drawn.nodes = Claims /\ drawn.edges = {e \in strong : e[1] # e[2]}
        /\ drawn.strength = material.strength /\ drawn.evidence = material.evidence
        /\ {"nodes", "edges", "gate"} \subseteq DOMAIN drawn
    BY DEF Drawn
  <1>4. drawn.edges \subseteq {e \in Claims \X Claims : e[1] \notin Outcomes}
    BY <1>1, <1>3, KeptAreFound
  <1> HIDE DEF drawn, strong
  <1>5. IsGraph(drawn) /\ IsFiniteSet(drawn.edges)
    <2>1. IsFiniteSet(Claims \X Claims)
      BY ClaimsAreNumbers, FS_Product
    <2>2. drawn.edges \subseteq Claims \X Claims
      BY <1>4
    <2>3. IsFiniteSet(drawn.edges)
      BY <2>1, <2>2, FS_Subset
    <2>4. QED
      BY <1>3, <2>3, ClaimsAreNumbers DEF IsGraph
  <1>6. Scored(drawn, score)
    <2> SUFFICES ASSUME NEW e \in drawn.edges PROVE score[e] \in Nat
      BY DEF Scored
    <2>1. e \in Claims \X Claims
      BY <1>4
    <2>2. material.strength[e] \in 0..One /\ material.evidence[e] \in 0..100
      BY <1>1, <2>1, MaterialsAssumption
    <2>3. score[e] = material.strength[e] * material.evidence[e]
      BY <1>3
    <2> HIDE DEF score
    <2>4. \A x, y \in Nat : x * y \in Nat
      OBVIOUS
    <2>5. material.strength[e] \in Nat /\ material.evidence[e] \in Nat
      BY <2>2, FiguresAreNumbers
    <2>6. QED
      BY <2>3, <2>4, <2>5
  <1>7. PICK rest \in SUBSET drawn.edges :
          graph = WithEdges(drawn, rest) /\ Acyclic(graph)
    <2>1. graph = BreakCyclesBy(drawn, score)
      BY DEF BreakCycles
    <2> HIDE DEF graph, score
    <2>2. QED
      BY <1>5, <1>6, <2>1, BreakCyclesFacts
  <1>8. graph.nodes = drawn.nodes /\ graph.edges = rest
    <2> HIDE DEF graph
    <2>1. QED
      BY <1>5, <1>7, WithEdgesFacts
  <1> HIDE DEF graph, score
  <1>9. /\ rows'.nodes = drawn.nodes /\ rows'.edges = drawn.edges
        /\ {"nodes", "edges"} \subseteq DOMAIN rows'
    BY <1>2, <1>3
  <1>10. BuiltGraphHasNoCycle'
    <2> DEFINE read == BuildGraph(rows', feedback')
    <2>1. read.nodes = drawn.nodes /\ read.edges = drawn.edges \ (drawn.edges \ graph.edges)
      BY <1>2, <1>9 DEF BuildGraph
    <2>2. read.nodes = graph.nodes /\ read.edges = graph.edges
      BY <1>8, <2>1
    <2>3. Acyclic(read)
      BY <1>7, <2>2, AcyclicAgrees
    <2>4. QED
      BY <2>3 DEF BuiltGraphHasNoCycle
  <1>11. OutcomesCauseNothing'
    BY <1>4, <1>9 DEF OutcomesCauseNothing
  <1>12. GraphTypes'
    <2>1. queue' \in Seq(Claims) /\ found' \in Seq(Claims \X Claims)
      BY <1>2
    <2>2. QED
      BY <1>1, <1>2, <1>9, <2>1 DEF GraphTypes
  <1>13. AskedSoFar'
    BY <1>2 DEF AskedSoFar, Asking
  <1>14. QED
    BY <1>10, <1>11, <1>12, <1>13 DEF Whole

\* What keeps the nodes and the links, or adds one by hand, and is counted.
LEMMA EditHolds ==
    ASSUME Whole, Served, UNCHANGED analysed, edits' = edits + 1,
           {"nodes", "edges"} \subseteq DOMAIN rows', rows'.edges \subseteq rows.edges \cup ByHand
    PROVE  Whole'
  <1>1. edits \in Nat /\ edits' \in Nat /\ edits' # 0
    BY DEF Whole, GraphTypes
  <1>2. OutcomesCauseNothing'
    BY DEF Whole, OutcomesCauseNothing
  <1>3. QED
    BY <1>1, <1>2 DEF Whole, GraphTypes, AskedSoFar, Asking, BuiltGraphHasNoCycle, Served, analysed

LEMMA SameRowsHold ==
    ASSUME Whole, UNCHANGED <<analysed, rows, feedback>>, edits' = edits \/ edits' = edits + 1
    PROVE  Whole'
  <1>1. edits \in Nat /\ edits' \in Nat /\ (edits' = 0 => edits = 0)
    BY DEF Whole, GraphTypes
  <1>2. QED
    BY <1>1 DEF Whole, GraphTypes, AskedSoFar, Asking, OutcomesCauseNothing, BuiltGraphHasNoCycle,
                Served, analysed

LEMMA WholeNext == Whole /\ [GraphNext]_graphVars => Whole'
  <1> SUFFICES ASSUME Whole, [GraphNext]_graphVars PROVE Whole'
    OBVIOUS
  <1>0. {"nodes", "edges"} \subseteq DOMAIN rows
    BY DEF Whole, GraphTypes
  <1>1. CASE IdentifyRoots
    BY <1>1, RootsHold
  <1>2. CASE Wave
    BY <1>2, WaveHolds
  <1>3. CASE Sweep
    BY <1>3, SweepHolds
  <1>4. CASE Build
    BY <1>4, BuildHolds
  <1>5. CASE AddEdge
    <2>1. PICK e \in ByHand \ rows.edges :
            rows' = [rows EXCEPT !.edges = @ \cup {e}, !.evidence[e] = 50,
                                 !.strength[e] = EdgeStrength(Percent(95), Percent(95)),
                                 !.certainty[e] = Percent(95), !.contradicted = @ \ {e},
                                 !.inhibits = @ \ {e}]
      BY <1>5 DEF AddEdge
    <2>2. DOMAIN rows' = DOMAIN rows /\ rows'.edges = rows.edges \cup {e}
      BY <1>0, <2>1
    <2>3. QED
      BY <1>0, <1>5, <2>2, EditHolds DEF AddEdge, Edit
  <1>6. CASE UpdateEdge
    <2>1. PICK e, strength : rows' = [rows EXCEPT !.strength[e] = strength]
      BY <1>6 DEF UpdateEdge
    <2>2. DOMAIN rows' = DOMAIN rows /\ rows'.edges = rows.edges
      BY <1>0, <2>1
    <2>3. QED
      BY <1>0, <1>6, <2>2, EditHolds DEF UpdateEdge, Edit
  <1>7. CASE Challenge
    <2>1. PICK e \in rows.edges \cap Disputed, score \in {0, 100}, against \in BOOLEAN :
            rows' = [rows EXCEPT !.evidence[e] = score,
                                 !.contradicted = IF against THEN @ \cup {e} ELSE @]
      BY <1>7, Zenon DEF Challenge
    <2>2. DOMAIN rows' = DOMAIN rows /\ rows'.edges = rows.edges
      BY <1>0, <2>1
    <2>3. QED
      BY <1>0, <1>7, <2>2, EditHolds DEF Challenge, Edit
  <1>8. CASE WhatIf
    BY <1>8, SameRowsHold DEF WhatIf
  <1>9. CASE ForkScenario
    BY <1>9, SameRowsHold DEF ForkScenario
  <1>10. CASE RegenerateReport
    BY <1>10, SameRowsHold DEF RegenerateReport
  <1>11. CASE DeleteScenario
    BY <1>11, SameRowsHold DEF DeleteScenario
  <1>12. CASE SaveCase
    BY <1>12, SameRowsHold DEF SaveCase, Edit
  <1>13. CASE SaveSubDecisions
    BY <1>13, SameRowsHold DEF SaveSubDecisions, Edit
  <1>14. CASE Stop \/ UNCHANGED graphVars
    BY <1>14, SameRowsHold DEF Stop, graphVars, analysed
  <1>15. QED
    BY <1>1, <1>2, <1>3, <1>4, <1>5, <1>6, <1>7, <1>8, <1>9, <1>10, <1>11, <1>12, <1>13, <1>14
       DEF GraphNext

\* Whatever roots the model names and wherever its answers lead, each claim that
\* is not an outcome is asked exactly once what it causes, no outcome is taken to
\* cause anything, and the graph that is read has no cycle, however many there
\* were (causal_inferrer.py:106-193, dag_builder.py:164-219).
THEOREM GraphStaysWhole == GraphSpec => []GraphIsWhole
  <1>1. GraphSpec => []Whole
    BY WholeInit, WholeNext, PTL DEF GraphSpec
  <1>2. QED
    BY <1>1, WholeSuffices, PTL
=============================================================================
