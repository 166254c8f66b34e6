------------------------------- MODULE Frame --------------------------------
(***************************************************************************)
(* The frame of an analysis, from the questions asked about the material   *)
(* to the theories kept about the decision: questions are generated and    *)
(* answered (api/routes/intake.py, reasoning/intake.py), the anchor is     *)
(* drafted, confirmed, restated and saved while a run reads it             *)
(* (reasoning/anchor_service.py, decision_anchor.py,                       *)
(* api/routes/reasoning.py, pipeline/orchestrator.py), and theories are    *)
(* generated on the graph that results (reasoning/context_builder.py,      *)
(* validation.py).                                                         *)
(*                                                                         *)
(* A request is cut in steps where it waits for a model or commits.        *)
(***************************************************************************)
EXTENDS Anchor

CONSTANTS
    Asks,           \* requests for questions
    RawQuestions,   \* the lists a model may answer with
    MaxQuestions,   \* kept of them
    Material,       \* claims 1..n and links of the analysed graph
    LeadsTo,        \* the claim that is found to lead to the outcomes
    RawTheories,    \* what a generation may answer with
    MaxClaims, MaxLinks,
    MaxItems,       \* bound: options and outcomes ever worded
    MaxSaves        \* bound: saves of the anchor

ItemLists == Seq([key : Nat, item : Nat])

ASSUME FrameAssumption ==
    /\ MaxQuestions \in Nat \ {0} /\ MaxItems \in Nat /\ MaxSaves \in Nat
    /\ LeadsTo \in Material.nodes
    /\ None # "stated"
    /\ None \notin [decision : {None, "stated"}, options : ItemLists, outcomes : ItemLists]
    /\ None \notin [decision : {None, "stated"}, options : ItemLists, outcomes : ItemLists,
                    status : {"draft", "confirmed"}]
    /\ \A list \in RawQuestions : \A i \in DOMAIN list : list[i].options \in 0..3

Given == INSTANCE Chains WITH SharedDepth <- 0, MaxPaths <- 0, MaxPathLength <- 0

\* Claims are numbered; scores are percent, and links run between claims.
ASSUME MaterialAssumption ==
    /\ {"nodes", "edges", "strength", "evidence", "confidence", "status", "stated", "outcome"}
         \subseteq DOMAIN Material
    /\ IsFiniteSet(Material.nodes) /\ Material.nodes = 1..Cardinality(Material.nodes)
    /\ Material.edges \subseteq Material.nodes \X Material.nodes
    /\ Material.strength \in [Material.edges -> Nat]
    /\ Material.evidence \in [Material.edges -> 0..100]
    /\ Material.confidence \in [Material.nodes -> Nat]
    /\ Material.status \in [Material.nodes -> DOMAIN Given!StatusScore]
    /\ Material.stated \in [Material.nodes -> {None} \cup 0..100]
    /\ MaxClaims \in Nat /\ MaxLinks \in Nat

\* What is cited are numbers of claims, links and, in a walk, tokens.
ASSUME RawsAssumption ==
    \A raws \in RawTheories :
      /\ raws \in Seq(ToSet(raws))
      /\ \A raw \in ToSet(raws) :
           raw.claims \in Seq(Nat) /\ raw.links \in Seq(Nat \X Nat) /\ raw.walk \in Seq(Seq(Nat))

VARIABLES
    project,      \* material, status, objective, anchor, context
    questions,    \* the rows: id (request, position), kind, options, answer
    asks,         \* of each request: phase, the ids it deletes, its rows
    screen,       \* the questions the user has in front of them
    said,         \* what the user answered, by question
    drafting,     \* a request for a draft: phase, the objective it read, whether
                  \* the anchor it read was confirmed
    run,          \* the analysis: phase, its anchor
    saving,       \* a save: phase, its anchor, whether it changes anything
    nodes,        \* the outcome nodes: key, item, active
    bears,        \* the options the claims bear on
    generation,   \* of theories: phase, the outcomes and keys it read, what it shows
    theories,     \* those it kept
    items,        \* options and outcomes worded so far
    saves,        \* saves so far
    strayed,      \* the stored anchor has parted from the one nodes are made of
    lapsed        \* a scoring did not come about

intake == <<questions, asks, screen, said>>
graph == <<nodes, bears>>
bounds == <<items, saves, strayed, lapsed>>
vars == <<project, intake, drafting, run, saving, graph, generation, theories, bounds>>

Init ==
    /\ project \in [material : {"short", "long"}, status : {"pending"},
                    objective : {None, "stated"}, anchor : {None}, context : {{}}]
    /\ questions = {} /\ screen = {} /\ said = {}
    /\ asks = [a \in Asks |-> [phase |-> "none", deletes |-> {}, rows |-> {}]]
    /\ drafting = [phase |-> "idle", objective |-> None, confirmed |-> FALSE]
    /\ run = [phase |-> "none", anchor |-> None]
    /\ saving = [phase |-> "idle", anchor |-> None, changes |-> FALSE]
    /\ nodes = {} /\ bears = {}
    /\ generation = [phase |-> "none", outcomes |-> {}, keys |-> Nothing, shown |-> Nothing]
    /\ theories = <<>>
    /\ items = 0 /\ saves = 0 /\ strayed = FALSE /\ lapsed = FALSE

-----------------------------------------------------------------------------
(* Questions about the material *)

KindOrder == <<"authority", "ambiguity", "scope", "absence", "frame">>
Rank(kind) == CHOOSE i \in 1..6 : IF i = 6 THEN kind \notin ToSet(KindOrder) ELSE KindOrder[i] = kind

\* Sorted by kind, then cut to the cap.
Candidates(list) ==
    LET before(i, j) == Rank(list[i].kind) < Rank(list[j].kind)
                        \/ (Rank(list[i].kind) = Rank(list[j].kind) /\ i < j)
        order == SetToSortSeq(DOMAIN list, before)
    IN  [i \in 1..Min({MaxQuestions, Len(list)}) |-> list[order[i]]]

\* Alike options are dropped, unless the embeddings to compare them cannot be had.
OptionsKept(question, reachable) == IF question.alike /\ reachable THEN 0 ELSE question.options

AskQuestions(a) ==
    /\ asks[a].phase = "none"
    /\ asks' = [asks EXCEPT ![a].phase = "reading"]
    /\ UNCHANGED <<project, questions, screen, said, drafting, run, saving, graph, generation, theories, bounds>>

\* The material is short, or the model gives no list.
NothingAsked(a) ==
    /\ asks[a].phase = "reading"
    /\ asks' = [asks EXCEPT ![a].phase = "done"]
    /\ UNCHANGED <<project, questions, screen, said, drafting, run, saving, graph, generation, theories, bounds>>

\* What is to be stored of these candidates.
Rows(a, kept, reachable) ==
    {[id |-> <<a, i>>, kind |-> kept[i].kind, answer |-> None,
      options |-> OptionsKept(kept[i], reachable)] : i \in DOMAIN kept}

\* Of short material nothing is asked.  The model has answered: the rows there are now will go, then options are compared.
ClearQuestions(a) ==
    /\ asks[a].phase = "reading" /\ project.material = "long"
    /\ \E list \in RawQuestions, reachable \in BOOLEAN :
         asks' = [asks EXCEPT ![a] = [phase |-> "cleared", deletes |-> {q.id : q \in questions},
                                      rows |-> Rows(a, Candidates(list), reachable)]]
    /\ UNCHANGED <<project, questions, screen, said, drafting, run, saving, graph, generation, theories, bounds>>

StoreQuestions(a) ==
    /\ asks[a].phase = "cleared"
    /\ asks' = [asks EXCEPT ![a] = [phase |-> "done", deletes |-> {}, rows |-> {}]]
    /\ questions' = {q \in questions : q.id \notin asks[a].deletes} \cup asks[a].rows
    /\ screen' = asks[a].rows
    /\ UNCHANGED <<project, said, drafting, run, saving, graph, generation, theories, bounds>>

GetIntake ==
    /\ screen # questions
    /\ screen' = questions
    /\ UNCHANGED <<project, questions, asks, said, drafting, run, saving, graph, generation, theories, bounds>>

\* A text and a choice, of which either may be None.  A text wins.
Typed == 0
Answers == [text : {None, Typed}, choice : {None, 1}]
Answered(answer) == IF answer.text # None THEN answer.text ELSE answer.choice

\* Slip: an answer goes to the question at the place of the one it was given to.
SaveAnswersByPlace(answers) ==
    {LET to == {s \in DOMAIN answers : s[2] = q.id[2]}
         answer == IF to = {} THEN None ELSE Answered(answers[CHOOSE s \in to : TRUE])
     IN  IF answer \in Typed..q.options THEN [q EXCEPT !.answer = answer] ELSE q : q \in questions}

\* To the question it names, if it is still there; a choice must be one of its options.
SaveAnswers(answers) ==
    {LET answer == IF q.id \in DOMAIN answers THEN Answered(answers[q.id]) ELSE None
     IN  IF answer \in Typed..q.options THEN [q EXCEPT !.answer = answer] ELSE q : q \in questions}

\* Unanswered questions leave no trace.
RenderAnswers(rows) == {<<q.id, q.answer>> : q \in {r \in rows : r.answer # None}}

-----------------------------------------------------------------------------
(* The anchor *)

Kept(old, S) == Picked(old, {i \in DOMAIN old : old[i].key \in S})
Fresh(n) == <<[key |-> Blank, item |-> n]>>


\* Some of these items, and perhaps a new one.
Amended(old, S, adds, n) == Kept(old, S) \o (IF adds THEN Fresh(n) ELSE <<>>)

\* What a user may make of an anchor.
Edited(old, o, y, option, outcome) ==
    [decision |-> "stated",
     options |-> Amended(old.options, o, option, items + 1),
     outcomes |-> Amended(old.outcomes, y, outcome, items + 2)]
Unworded == [options |-> <<>>, outcomes |-> <<>>]
MayAdd == {b \in BOOLEAN : b => items < MaxItems}
Edits(anchor) ==
    LET old == IF anchor = None THEN Unworded ELSE anchor
    IN  {Edited(old, o, y, option, outcome) :
           o \in SUBSET KeysOf(old.options), y \in SUBSET KeysOf(old.outcomes),
           option \in MayAdd, outcome \in MayAdd}

ItemsOf(anchor) ==
    {x.item : x \in ToSet(anchor.options) \cup ToSet(anchor.outcomes)}
Worded(anchor) == Max({items} \cup ItemsOf(anchor))

\* What a model may make of an objective: nothing, no decision, or an anchor.
Drafts ==
    {None, [decision |-> None, options |-> <<>>, outcomes |-> <<>>]} \cup
    IF items < MaxItems
    THEN {[decision |-> "stated", options |-> Fresh(items + 1), outcomes |-> Fresh(items + 2)]} ELSE {}

Confirmed(anchor) == IF anchor = None THEN FALSE ELSE anchor.status = "confirmed"
Nodes == {n.key : n \in nodes}

\* Slip: outcomes removed in earlier saves are forgotten.
UsedKeysOfAnchor == AnchorKeys(project.anchor)

UsedKeys == [AnchorKeys(project.anchor) EXCEPT !.outcomes = @ \cup Nodes]

\* Answers are saved and rendered, an anchor that comes along is confirmed.
StartAnalysis ==
    /\ project.status # "processing" /\ run.phase = "none"
    /\ \E answers \in [{q.id : q \in screen} -> Answers], raw \in {None} \cup Edits(project.anchor) :
         LET anchor == NormaliseAnchor(raw, "confirmed", AnchorKeys(project.anchor)) IN
         /\ questions' = SaveAnswers(answers)
         /\ said' = {<<s, Answered(answers[s])>> : s \in DOMAIN answers}
         /\ project' = [project EXCEPT !.status = "processing", !.context = RenderAnswers(questions'),
                          !.anchor = IF anchor = None THEN @ ELSE anchor,
                          !.objective = IF anchor = None THEN @ ELSE anchor.decision]
         /\ items' = IF anchor = None THEN items ELSE Worded(anchor)
    /\ run' = [run EXCEPT !.phase = "queued"]
    /\ UNCHANGED <<asks, screen, drafting, saving, graph, generation, theories, saves, strayed, lapsed>>

AskDraft ==
    /\ drafting.phase = "idle" /\ items < MaxItems
    /\ drafting' = [phase |-> "waiting", objective |-> project.objective,
                    confirmed |-> Confirmed(project.anchor)]
    /\ UNCHANGED <<project, intake, run, saving, graph, generation, theories, bounds>>

\* Slip: whatever is there is replaced.
MayReplaceAny(confirmed) == TRUE

\* Judged by the anchor that was there when the draft was asked for.
MayReplace(confirmed) == ~confirmed

StoreDraft ==
    /\ drafting.phase = "waiting"
    /\ drafting' = [phase |-> "idle", objective |-> None, confirmed |-> FALSE]
    /\ \E answer \in Drafts :
         LET draft == DraftAnchor(drafting.objective, answer) IN
         IF draft = None \/ ~MayReplace(drafting.confirmed)
           THEN UNCHANGED <<project, items, strayed>>
         ELSE /\ project' = [project EXCEPT !.anchor = draft]
              /\ items' = Worded(draft)
              /\ strayed' = (strayed \/ run.phase # "none")
    /\ UNCHANGED <<intake, run, saving, graph, generation, theories, saves, lapsed>>

\* The objective and the decision of the anchor say the same.
SetDecisionObjective(words) ==
    /\ words # project.objective
    /\ project' = [project EXCEPT !.objective = words,
                     !.anchor = IF @ = None \/ words = None THEN @ ELSE [@ EXCEPT !.decision = words]]
    /\ UNCHANGED <<intake, drafting, run, saving, graph, generation, theories, bounds>>

\* Before a run there is nothing to bring in line.
SaveAnchor ==
    /\ saving.phase = "idle" /\ saves < MaxSaves
    /\ \E raw \in Edits(project.anchor) :
         LET anchor == NormaliseAnchor(raw, "confirmed", UsedKeys) IN
         /\ project' = [project EXCEPT !.anchor = anchor, !.objective = anchor.decision]
         /\ items' = Worded(anchor)
         /\ saving' = IF run.phase # "done" THEN saving
                      ELSE [phase |-> "saved", anchor |-> anchor,
                            changes |-> ~SameContent(project.anchor, anchor)]
    /\ saves' = saves + 1
    /\ strayed' = (strayed \/ run.phase \in {"queued", "drafting", "extracting"})
    /\ UNCHANGED <<intake, drafting, run, graph, generation, theories, lapsed>>

Node(outcome) == [key |-> outcome.key, item |-> outcome.item, active |-> TRUE]

\* One active node per outcome; the others are kept, and rest.
SyncOutcomeNodes ==
    /\ saving.phase = "saved"
    /\ LET wanted == ToSet(saving.anchor.outcomes) IN
       nodes' = {Node(y) : y \in wanted}
                \cup {[n EXCEPT !.active = FALSE] : n \in {m \in nodes : m.key \notin {y.key : y \in wanted}}}
    /\ saving' = [saving EXCEPT !.phase = IF saving.changes THEN "scoring" ELSE "idle"]
    /\ UNCHANGED <<project, intake, drafting, run, bears, generation, theories, bounds>>

\* Every claim anew against the saved anchor; a claim that is not answered for
\* keeps what it had.
RescoreClaims ==
    /\ saving.phase = "scoring"
    /\ saving' = [saving EXCEPT !.phase = "idle"]
    /\ \/ \E named \in SUBSET KeysOf(saving.anchor.options) :
            bears' = CleanClaimScores(saving.anchor, named) /\ UNCHANGED lapsed
       \/ lapsed' = TRUE /\ UNCHANGED bears
    /\ UNCHANGED <<project, intake, drafting, run, nodes, generation, theories, items, saves, strayed>>

\* The server stops, or the links to a new outcome cannot be inferred.
BreakOff ==
    /\ saving.phase # "idle"
    /\ saving' = [saving EXCEPT !.phase = "idle"]
    /\ lapsed' = TRUE
    /\ UNCHANGED <<project, intake, drafting, run, graph, generation, theories, items, saves, strayed>>

-----------------------------------------------------------------------------
(* The run *)

\* The stored anchor, or a draft where there is an objective to draft from.
ResolveAnchor ==
    /\ run.phase = "queued"
    /\ run' = [anchor |-> project.anchor,
               phase |-> IF project.anchor = None /\ project.objective # None THEN "drafting"
                         ELSE "extracting"]
    /\ UNCHANGED <<project, intake, drafting, saving, graph, generation, theories, bounds>>

DraftForRun ==
    /\ run.phase = "drafting"
    /\ \E answer \in Drafts :
         LET draft == DraftAnchor("stated", answer) IN
         /\ run' = [phase |-> "extracting", anchor |-> draft]
         /\ project' = [project EXCEPT !.anchor = IF draft = None THEN @ ELSE draft]
         /\ items' = IF draft = None THEN items ELSE Worded(draft)
         /\ strayed' = (strayed \/ (draft = None /\ project.anchor # None))
    /\ UNCHANGED <<intake, drafting, saving, graph, generation, theories, saves, lapsed>>

\* Claims are scored against the run's anchor, and its outcomes become nodes.
Complete ==
    /\ run.phase = "extracting"
    /\ run' = [phase |-> "done", anchor |-> None]
    /\ IF run.anchor = None THEN UNCHANGED graph
       ELSE /\ nodes' = {Node(y) : y \in ToSet(run.anchor.outcomes)}
            /\ \E named \in SUBSET KeysOf(run.anchor.options) :
                 bears' = CleanClaimScores(run.anchor, named)
    /\ project' = [project EXCEPT !.status = "completed"]
    /\ UNCHANGED <<intake, drafting, saving, generation, theories, bounds>>

-----------------------------------------------------------------------------
(* Theories *)

\* The node of an outcome comes after the claims.
NodeNumber(key) == Max(Material.nodes) + key

\* The graph with these outcomes, each led to by one claim.
Snapshot(outcomes) ==
    LET all == Material.nodes \cup {NodeNumber(k) : k \in outcomes}
        links == Material.edges \cup {<<LeadsTo, NodeNumber(k)>> : k \in outcomes}
        At(f, x, default) == IF x \in DOMAIN f THEN f[x] ELSE default
    IN  [Material EXCEPT
           !.nodes = all, !.edges = links,
           !.strength = [e \in links |-> At(@, e, Given!Half)],
           !.evidence = [e \in links |-> At(@, e, 50)],
           !.confidence = [n \in all |-> At(@, n, Given!Half)],
           !.status = [n \in all |-> At(@, n, "accepted")],
           !.stated = [n \in all |-> At(@, n, 100)],
           !.outcome = [n \in all |-> IF n \in Material.nodes THEN None ELSE n - Max(Material.nodes)]]
Contexts ==
    {[outcomes |-> k, shown |-> Given!SelectSubgraph(Snapshot(k))] : k \in SUBSET (1..MaxItems)}

\* The graph and the anchor are read, and what is shown of them selected.
AskTheories ==
    /\ project.status = "completed" /\ generation.phase = "none"
    /\ \E context \in Contexts :
         /\ context.outcomes = {n.key : n \in {m \in nodes : m.active}}
         /\ generation' = [phase |-> "waiting", keys |-> AnchorKeys(project.anchor),
                           outcomes |-> context.outcomes, shown |-> context.shown]
    /\ UNCHANGED <<project, intake, drafting, run, saving, graph, theories, bounds>>

\* When nothing can be kept the request fails.
StoreTheories ==
    /\ generation.phase = "waiting"
    /\ generation' = [generation EXCEPT !.phase = "done"]
    /\ \E raws \in RawTheories :
         theories' = Given!ValidateTheories(raws, Snapshot(generation.outcomes), generation.shown,
                                            generation.keys)
    /\ UNCHANGED <<project, intake, drafting, run, saving, graph, bounds>>

Next ==
    \/ \E a \in Asks : AskQuestions(a) \/ NothingAsked(a) \/ ClearQuestions(a) \/ StoreQuestions(a)
    \/ GetIntake \/ StartAnalysis
    \/ AskDraft \/ StoreDraft \/ SetDecisionObjective("stated")
    \/ SaveAnchor \/ SyncOutcomeNodes \/ RescoreClaims \/ BreakOff
    \/ ResolveAnchor \/ DraftForRun \/ Complete
    \/ AskTheories \/ StoreTheories

Spec == Init /\ [][Next]_vars

-----------------------------------------------------------------------------
(* What the frame promises *)

\* What a run is told to read the material by is what the user said, question
\* by question: also when the questions were generated anew while they were
\* being answered.
AnswersFitTheirQuestions == project.context \subseteq said

\* As long as no draft and no save came between a run and the anchor it reads:
\* the node of an outcome, and with it every link into it, stays with what the
\* user meant by that outcome, through any series of saves that drop outcomes
\* and add others; and so does what a claim bears on with its option, unless a
\* scoring did not come about.
KeysKeepTheirMeaning ==
    ~strayed /\ project.anchor # None =>
      /\ \A n \in nodes, y \in ToSet(project.anchor.outcomes) : n.key = y.key => n.item = y.item
      /\ ~lapsed => \A b \in bears, o \in ToSet(project.anchor.options) : b.key = o.key => b.item = o.item

\* A confirmed anchor gives way to a draft only when the draft was asked for
\* before it was confirmed, by the user or by the run.
DraftsRespectConfirmation ==
    [][Confirmed(project.anchor) /\ ~Confirmed(project'.anchor) =>
         \/ drafting.phase = "waiting" /\ ~drafting.confirmed
         \/ run.phase = "drafting"]_vars

\* A walk as it is asked for: claims and links by turns, each shown.
Alternates(walk) ==
    \A i \in DOMAIN walk : /\ Given!IsShown(walk[i], generation.shown)
                           /\ Len(walk[i]) = IF i % 2 = 1 THEN 1 ELSE 2
Joined(chain) ==
    \A i \in 2..(Len(chain) - 1) :
      Len(chain[i]) = 2 => /\ Len(chain[i - 1]) = 1 => chain[i - 1][1] = chain[i][1]
                           /\ Len(chain[i + 1]) = 1 => chain[i + 1][1] = chain[i][2]
Overlap(a, b) ==
    LET mine == ToSet(a.links) theirs == ToSet(b.links)
    IN  5 * Cardinality(mine \cap theirs) >= 4 * Cardinality(mine \cup theirs)

\* Every theory that is kept rests on what was shown: the ends of its links are
\* among its claims, a chain that was walked claim by link by claim, each of them
\* shown, has no link between claims it does not join (with a gap in the walk it
\* may have), a chain that cites links has one that fits,
\* a supported theory has evidence on a link of its own, and no two theories
\* rest on the same links.
TheoriesHold ==
    /\ \A i \in DOMAIN theories :
         LET t == theories[i] IN
         /\ \A e \in ToSet(t.links) : ToSet(e) \subseteq ToSet(t.claims)
         /\ (t.cited > 0 => t.connected > 0)
         /\ (Alternates(t.walk) /\ t.connected > 0 => Joined(t.chain))
         /\ (t.status = "supported" => t.supporting \cap ToSet(t.links) # {})
         /\ t.option # None => t.option \in generation.keys.options
    /\ \A i, j \in DOMAIN theories :
         i # j /\ theories[i].links # <<>> => ~Overlap(theories[i], theories[j])

\* Whatever the graph has grown to, a generation is shown every outcome that is
\* sought, links only between claims it is shown, and no more than it may be.
DestinationIsShown ==
    generation.phase # "none" =>
      LET shown == generation.shown
          sought == {NodeNumber(k) : k \in generation.outcomes}
      IN  /\ sought \subseteq shown.claims
          /\ \A e \in shown.links : ToSet(e) \subseteq shown.claims
          /\ Cardinality(shown.links) <= MaxLinks
          /\ Cardinality(shown.claims) <= MaxClaims + MaxClaims \div 2 + Cardinality(sought)

GenerationsHold == DestinationIsShown /\ TheoriesHold
=============================================================================
