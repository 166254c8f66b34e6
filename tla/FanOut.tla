------------------------------- MODULE FanOut -------------------------------
(***************************************************************************)
(* The stages of the pipeline that work on all edges at once: the bias     *)
(* audit, the blind rescoring and the discovery of claims, which ask a     *)
(* model through the cache, and the grounding, which searches the web and  *)
(* reports each edge (pipeline/bias_auditor.py, blind_rescorer.py,         *)
(* discovery.py, evidence_grounder.py).                                    *)
(*                                                                         *)
(* A stage is one gather: tasks under a semaphore, results in the order of *)
(* the edges whatever order the tasks end in, an error of a task in the    *)
(* place of its result.                                                    *)
(***************************************************************************)
EXTENDS ModelCalls, Indices

CONSTANTS Jobs,      \* the stages a behaviour may be of
          Edges,     \* 1..n
          Limit,     \* tasks that may be past the semaphore
          PromptOf,  \* of a stage that asks: the prompt of each of its tasks
          Batches,   \* sequences of edges, as they were shuffled
          Weak,      \* edges too weak to be grounded
          Bare,      \* edges without a mechanism
          PerBatch,  \* edges whose evidence is read in one prompt
          ClaimsIn,  \* the claims an answer to a prompt contains, as a sequence
          Alike,     \* pairs of claims that say the same
          Known      \* claims there are already

\* A task of the rescoring and of discovery is a batch, of the others an edge.
\* What is discovered is in the evidence of edges that were grounded.
TasksOf(stage) ==
    CASE stage = "rescore"  -> DOMAIN Batches
      [] stage = "discover" -> 1..((Cardinality(Edges \ Weak) + PerBatch - 1) \div PerBatch)
      [] stage = "ground"   -> Edges \ Weak
      [] OTHER              -> Edges

ASSUME FanOutAssumption ==
    /\ Jobs \subseteq {"audit", "rescore", "ground", "discover"}
    /\ IsFiniteSet(Edges) /\ Edges = 1..Cardinality(Edges)
    /\ Limit \in Nat \ {0}
    /\ Weak \subseteq Edges /\ Bare \subseteq Edges
    /\ PerBatch \in Nat \ {0}
    /\ Batches \in Seq(Seq(Edges))
    /\ \A stage \in Jobs : TasksOf(stage) \subseteq Callers
    /\ \A stage \in Jobs \ {"ground"} : \A t \in TasksOf(stage) : PromptOf[stage][t] \in Prompts
    /\ \A p \in Prompts : ClaimsIn[p] \in Seq(ToSet(ClaimsIn[p]))
    /\ None \notin Edges
    /\ None \notin [Edges -> [of : Edges, evidences : {0, 1, None}]]

VARIABLES
    job,        \* which stage this is
    pc,         \* where each task is
    lock,       \* the task that holds the lock of the progress reports, or None
    completed,  \* edges counted as grounded
    told,       \* the progress reports that were started, in order
    found,      \* what each task returned, or None
    results     \* what the stage returned, or None

vars == <<callVars, job, pc, lock, completed, told, found, results>>
reports == <<lock, completed, told>>

Tasks == TasksOf(job)

Init ==
    /\ CallsInit
    /\ job \in Jobs
    /\ pc = [t \in Tasks |-> "queued"]
    /\ lock = None /\ completed = 0 /\ told = <<>>
    /\ found = [t \in Tasks |-> None]
    /\ results = None

Inside == {t \in Tasks : pc[t] \in {"asking", "searching", "scoring"}}
Ended(t) == pc[t] \in {"done", "failed"}

-----------------------------------------------------------------------------
(* Asking a model: audit and rescoring *)

Enter(t) ==
    /\ results = None
    /\ pc[t] = "queued"
    /\ Cardinality(Inside) < Limit
    /\ IF job = "ground" THEN pc' = [pc EXCEPT ![t] = "searching"] /\ UNCHANGED callVars
       ELSE pc' = [pc EXCEPT ![t] = "asking"] /\ Lookup(t, PromptOf[job][t])
    /\ UNCHANGED <<job, reports, found, results>>

Call(t) ==
    /\ results = None
    /\ pc[t] = "asking"
    /\ CallStep(t)
    /\ UNCHANGED <<job, pc, reports, found, results>>

Severities == [low |-> 95, medium |-> 80, high |-> 60]

\* Strength in hundredths of a percent of what the author gave, 10000.
Penalised(bare, warnings) ==
    Max({500, FoldLeft(LAMBDA strength, w : (strength * Severities[w]) \div 100,
                       IF bare THEN 5000 ELSE 10000, warnings)})

\* An audit that fails leaves its edge without warnings.
Audited(t) ==
    /\ job = "audit" /\ pc[t] = "asking"
    /\ \E warnings \in IF calls[t].stage = "answered" THEN {<<>>, <<"high">>, <<"low", "medium">>}
                       ELSE {<<>>} :
         found' = [found EXCEPT ![t] = [of |-> t, from |-> calls[t].answer,
                                        strength |-> Penalised(t \in Bare, warnings)]]
    /\ pc' = [pc EXCEPT ![t] = "done"]

\* A batch that fails leaves its edges with their author's scores.
Rated(t) ==
    /\ job = "rescore" /\ pc[t] = "asking"
    /\ IF calls[t].stage = "failed" THEN pc' = [pc EXCEPT ![t] = "failed"] /\ UNCHANGED found
       ELSE /\ pc' = [pc EXCEPT ![t] = "done"]
            /\ \E positions \in SUBSET DOMAIN Batches[t] :
                 found' = [found EXCEPT ![t] =
                   [i \in positions |-> [at |-> i, from |-> calls[t].answer]]]

\* A batch that fails contributes no claim.
Discovered(t) ==
    /\ job = "discover" /\ pc[t] = "asking"
    /\ found' = [found EXCEPT ![t] = IF calls[t].stage = "failed" THEN <<>>
                                     ELSE ClaimsIn[calls[t].answer]]
    /\ pc' = [pc EXCEPT ![t] = "done"]

Leave(t) ==
    /\ results = None
    /\ calls[t].stage \in {"answered", "failed"}
    /\ Audited(t) \/ Rated(t) \/ Discovered(t)
    /\ UNCHANGED <<callVars, job, reports, results>>

-----------------------------------------------------------------------------
(* Grounding *)

\* Two searches, either of which may find nothing or be refused; an answer that
\* cannot be read is an error of the task.  Then the snippets are scored in a
\* thread, which yields no score rather than an error.
Search(t) ==
    /\ results = None
    /\ pc[t] = "searching"
    /\ \E next \in {"scoring", "failed"} : pc' = [pc EXCEPT ![t] = next]
    /\ UNCHANGED <<callVars, job, reports, found, results>>

Score(t) ==
    /\ results = None
    /\ pc[t] = "scoring"
    /\ \E evidences \in 0..1 :
         found' = [found EXCEPT ![t] = [of |-> t, evidences |-> evidences]]
    /\ pc' = [pc EXCEPT ![t] = "reporting"]
    /\ UNCHANGED <<callVars, job, reports, results>>

\* Slip: an edge is counted when it is scored, and told when the lock is free.
TellLate(t) ==
    /\ told' = Append(told, [count |-> completed, edge |-> t])
    /\ completed' = Cardinality({u \in Tasks : found[u] # None})
Tell(t) ==
    /\ completed' = completed + 1
    /\ told' = Append(told, [count |-> completed + 1, edge |-> t])

\* One edge at a time is counted and reported; the lock is held while the
\* report is awaited.
BeginReport(t) ==
    /\ results = None
    /\ pc[t] = "reporting"
    /\ lock = None
    /\ lock' = t
    /\ Tell(t)
    /\ UNCHANGED <<callVars, job, pc, found, results>>

\* Slip: a report that fails keeps the lock.
EndReportKept(t) ==
    /\ results = None
    /\ lock = t /\ pc[t] = "reporting"
    /\ \/ pc' = [pc EXCEPT ![t] = "done"] /\ lock' = None /\ UNCHANGED found
       \/ pc' = [pc EXCEPT ![t] = "failed"] /\ found' = [found EXCEPT ![t] = None] /\ UNCHANGED lock
    /\ UNCHANGED <<callVars, job, completed, told, results>>

\* A report that fails loses what the task found.
EndReport(t) ==
    /\ results = None
    /\ lock = t /\ pc[t] = "reporting"
    /\ lock' = None
    /\ \/ pc' = [pc EXCEPT ![t] = "done"] /\ UNCHANGED found
       \/ pc' = [pc EXCEPT ![t] = "failed"] /\ found' = [found EXCEPT ![t] = None]
    /\ UNCHANGED <<callVars, job, completed, told, results>>

\* The stage took too long: it is abandoned, with all its tasks.
TimeOut ==
    /\ job = "ground"
    /\ results = None
    /\ results' = [e \in Edges |-> [of |-> e, evidences |-> None]]
    /\ lock' = None
    /\ UNCHANGED <<callVars, job, pc, completed, told, found>>

-----------------------------------------------------------------------------
(* The end of the gather *)

Grounded ==
    [e \in Edges |-> IF e \in Weak \/ found[e] = None THEN [of |-> e, evidences |-> 0]
                     ELSE found[e]]

Rescored ==
    [e \in Edges |->
       LET rated == {r \in (DOMAIN Batches) \X Edges :
                       /\ r[2] \in DOMAIN Batches[r[1]] /\ Batches[r[1]][r[2]] = e
                       /\ found[r[1]] # None /\ r[2] \in DOMAIN found[r[1]]}
       IN  IF rated = {} THEN None
           ELSE LET r == CHOOSE r \in rated : TRUE
                IN  [batch |-> r[1], at |-> found[r[1]][r[2]].at, from |-> found[r[1]][r[2]].from]]

Raw == FlattenSeq([t \in Tasks |-> found[t]])
SaysTheSame(c, claims) == \E k \in claims : c = k \/ {<<c, k>>, <<k, c>>} \cap Alike # {}

\* A claim is new if none that was there, or was accepted before it, says the same.
NewAmong(claims) ==
    LET accepted[n \in 0..Len(claims)] ==
          IF n = 0 THEN <<>>
          ELSE IF SaysTheSame(claims[n], Known \cup ToSet(accepted[n - 1])) THEN accepted[n - 1]
          ELSE Append(accepted[n - 1], claims[n])
    IN  accepted[Len(claims)]

\* The claims are embedded, which may fail, and those the web knows nothing of
\* are dropped.
Discover ==
    /\ job = "discover" /\ results = None
    /\ \A t \in Tasks : Ended(t)
    /\ \E claims \in {<<>>, NewAmong(Raw)}, unknown \in SUBSET ToSet(Raw) :
         results' = Picked(claims, {i \in DOMAIN claims : claims[i] \notin unknown})
    /\ UNCHANGED <<callVars, job, pc, reports, found>>

\* The weak edges are reported after all the others.
Gather ==
    /\ job # "discover" /\ results = None
    /\ \A t \in Tasks : Ended(t)
    /\ results' = CASE job = "ground"  -> Grounded
                    [] job = "audit"   -> [e \in Edges |-> found[e]]
                    [] job = "rescore" -> Rescored
    /\ IF job = "ground"
         THEN LET skipped == InOrder(Weak)
              IN  /\ completed' = completed + Len(skipped)
                  /\ told' = told \o [i \in DOMAIN skipped |->
                                        [count |-> completed + i, edge |-> skipped[i]]]
         ELSE UNCHANGED <<completed, told>>
    /\ UNCHANGED <<callVars, job, pc, lock, found>>

Task(t) ==
    Enter(t) \/ Call(t) \/ Leave(t) \/ Search(t) \/ Score(t) \/ BeginReport(t) \/ EndReport(t)

Tick == Expire /\ results = None /\ UNCHANGED <<job, pc, reports, found, results>>

Next == (\E t \in Tasks : Task(t)) \/ Gather \/ Discover \/ TimeOut \/ Tick

\* A task that can go on does: the provider, the searches and the reports
\* answer or fail, all of them having timeouts of their own.
Fairness == WF_vars(Gather \/ Discover) /\ \A t \in 1..Cardinality(Edges) : WF_vars(t \in Tasks /\ Task(t))

Spec == Init /\ [][Next]_vars /\ Fairness

-----------------------------------------------------------------------------
(* Properties *)

\* The reports number the edges 1, 2, ... without a gap, each edge once; when a
\* grounding ends by itself every edge but those whose task failed was told
\* (evidence_grounder.py:118-159).
ProgressCounts ==
    /\ \A i \in DOMAIN told : told[i].count = i
    /\ IsInjective([i \in DOMAIN told |-> told[i].edge])
    /\ job = "ground" /\ results # None => \A e \in Edges :
         \/ results[e].evidences = None
         \/ e \in Tasks /\ pc[e] = "failed"
         \/ \E i \in DOMAIN told : told[i].edge = e

\* Each edge leaves a stage with what was found, or judged, for it and no other
\* edge, and the edges leave in their order, whatever order the tasks ended in
\* and whichever failed (evidence_grounder.py:137-162, bias_auditor.py:62-73,
\* blind_rescorer.py:88-104).
ResultsAreOwn ==
    results # None /\ job # "discover" => \A e \in Edges :
        IF job = "rescore"
          THEN results[e] # None => Batches[results[e].batch][results[e].at] = e
          ELSE results[e].of = e

\* What a layer adds was said by some answer, and no two claims of the graph
\* that grows say the same, though answers to different batches, which are not
\* told of each other, overlap (discovery.py:104-168).
AdditionsAreNew ==
    results # None /\ job = "discover" =>
        /\ ToSet(results) \subseteq ToSet(Raw)
        /\ \A i \in DOMAIN results :
             ~SaysTheSame(results[i], Known \cup {results[j] : j \in DOMAIN results \ {i}})

\* A stage treats every edge once: it tells of it once, and returns its own
\* result; what it adds is new (evidence_grounder.py:118-162,
\* blind_rescorer.py:88-104, discovery.py:130-150).
StageIsExact == ProgressCounts /\ ResultsAreOwn /\ AdditionsAreNew

\* A stage ends, whatever fails in it (evidence_grounder.py:122, client.py:151).
StageEnds == <>(results # None)
=============================================================================
