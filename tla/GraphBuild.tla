----------------------------- MODULE GraphBuild -----------------------------
(***************************************************************************)
(* A causal graph from its claims to what is read off it: inference asks   *)
(* of each claim what it causes, wave by wave (pipeline/causal_inferrer),  *)
(* the builder breaks cycles and sets gates (pipeline/dag_builder.py), the *)
(* graph is kept as rows, and the routes read it, vary it and compare      *)
(* options and scenarios on it (api/routes/graph.py, operations.py,        *)
(* scenarios.py, reasoning/decision_scenarios.py).                         *)
(***************************************************************************)
EXTENDS GraphViews, Options, Indices

CONSTANTS Claims,          \* 1..n
          Outcomes,        \* the claims of the frame
          Similar,         \* for each claim the others, most similar first
          MaxCandidates,   \* of them that a source is asked about
          EdgeBudget,      \* links kept
          Materials,       \* what is known of every possible link and claim
          Decision,        \* options, outcomes, bears, importance
          Sigma,           \* of the jitter
          Simulations,     \* the draws of each
          Modifications,   \* what a what-if may change
          ByHand,          \* links a user may add
          Disputed,        \* links a user sets or challenges
          Overrides,       \* strengths a scenario may give to links
          SubDecisions,    \* lists of them a user may give
          MaxEdits         \* changes to the rows of one behaviour

ASSUME GraphBuildAssumption ==
    /\ IsFiniteSet(Claims) /\ Claims = 1..Cardinality(Claims)
    /\ Outcomes \subseteq Claims

ASSUME MaterialsAssumption ==
    \A m \in Materials : /\ m.strength \in [Claims \X Claims -> 0..One]
                         /\ m.evidence \in [Claims \X Claims -> 0..100]

VARIABLES
    material,    \* what this behaviour is about
    phase,       \* of the analysis
    queue,       \* claims the next wave starts from
    visited,     \* claims that were in a wave
    asked,       \* how often each claim was asked about
    found,       \* links the model confirmed, in order
    rows,        \* the graph as it is stored; feedback are its links that close cycles
    feedback,
    subs,        \* the sub-decisions that are kept
    scenarios,   \* [case, edges, claims], case None unless it is the up- or downside
    edits,       \* changes made to the rows
    answer       \* of the last request that asked what would change, or None

graphVars == <<material, phase, queue, visited, asked, found, rows, feedback, subs, scenarios, edits, answer>>
stored == <<rows, feedback, subs, scenarios, edits, answer>>

NoRows == [nodes |-> {}, edges |-> {}]

GraphInit ==
    /\ material \in Materials
    /\ phase = "roots"
    /\ queue = <<>> /\ visited = {} /\ asked = [c \in Claims |-> 0] /\ found = <<>>
    /\ rows = NoRows /\ feedback = {} /\ subs = <<>> /\ scenarios = {} /\ edits = 0 /\ answer = None

-----------------------------------------------------------------------------
(* Inference *)

Sources == Claims \ Outcomes

\* Roots the model names; all claims when it names none, or fails.
IdentifyRoots ==
    /\ phase = "roots"
    /\ \E named \in SUBSET Claims :
         queue' = InOrder(IF named \ Outcomes = {} THEN Sources ELSE named \ Outcomes)
    /\ phase' = "waves"
    /\ UNCHANGED <<material, visited, asked, found, stored>>

\* Those most similar, and every outcome.
Candidates(source) ==
    LET similar == ToSet(SubSeq(Similar[source], 1, Min({MaxCandidates, Len(Similar[source])})))
    IN  similar \cup (Outcomes \ {source})

\* Slip: the queue is not looked through for claims that come up twice.
ToAskTwice(claims, seen) == Picked(claims, {i \in DOMAIN claims : claims[i] \in Sources \ seen})

\* The claims of a queue that are asked about, each where it comes up first.
ToAsk(claims, seen) ==
    Picked(claims, {i \in DOMAIN claims : /\ claims[i] \in Sources \ seen
                                          /\ \A j \in 1..(i - 1) : claims[j] # claims[i]})

\* Any of the links that hold may be confirmed; a call that fails yields nothing.
Judged(source) == SUBSET {n \in Candidates(source) : <<source, n>> \in material.links}

\* Each of these claims with each claim, in order.
Pairs(claims) ==
    LET n == Cardinality(Claims)
    IN  [k \in 1..(Len(claims) * n) |-> <<claims[1 + (k - 1) \div n], 1 + ((k - 1) % n)>>]

\* Each claim is asked what it causes of its candidates.  Results are in the
\* order of the calls, whatever order they end in.
Expand(claims) ==
    \E causes \in [ToSet(claims) -> SUBSET Claims] :
       /\ \A c \in ToSet(claims) : causes[c] \in Judged(c)
       /\ LET pairs == Pairs(claims)
              more == Picked(pairs, {k \in DOMAIN pairs : pairs[k][2] \in causes[pairs[k][1]]})
          IN  /\ found' = found \o more
              /\ queue' = LET effects == [k \in DOMAIN more |-> more[k][2]]
                          IN  Picked(effects, {k \in DOMAIN effects : effects[k] \notin visited'})
       /\ asked' = [c \in Claims |-> asked[c] + Cardinality({i \in DOMAIN claims : claims[i] = c})]

Wave ==
    /\ phase = "waves"
    /\ visited' = visited \cup ToSet(queue)
    /\ IF ToAsk(queue, visited) = <<>>
         THEN phase' = "sweep" /\ UNCHANGED <<queue, asked, found>>
         ELSE phase' = phase /\ Expand(ToAsk(queue, visited))
    /\ UNCHANGED <<material, stored>>

\* The claims no wave reached.
Sweep ==
    /\ phase = "sweep"
    /\ visited' = visited \cup Sources
    /\ Expand(InOrder(Sources \ visited))
    /\ phase' = "build"
    /\ UNCHANGED <<material, stored>>

-----------------------------------------------------------------------------
(* The graph *)

MinEdgeStrength == Percent(10)
MaxEdgeStrength == Percent(95)
EdgeStrength(effect, certainty) ==
    Max({MinEdgeStrength, Min({MaxEdgeStrength, Mul(Clamp(effect), Clamp(certainty))})})

\* The links of highest priority, those found first among equals.
Kept ==
    LET links == {i \in DOMAIN found : found[i][1] \notin Outcomes}
        priority(i) == EdgePriority(material.strength[found[i]], Outcomes, material.stated, found[i])
        before(i) == {j \in links : \/ priority(j) > priority(i)
                                    \/ priority(j) = priority(i) /\ j < i}
    IN  {found[i] : i \in {j \in links : Cardinality(before(j)) < EdgeBudget}}

DetermineLogicGates(g) ==
    [n \in g.nodes |->
       IF Cardinality(Parents(g, n)) > 1
          /\ \/ \A p \in Parents(g, n) : material.kind[<<p, n>>] = "enabling"
             \/ \E p \in Parents(g, n) : <<p, n>> \in material.necessary
         THEN "and" ELSE "or"]

Drawn(links) ==
    [nodes |-> Claims, edges |-> {e \in links : e[1] # e[2]},
     strength |-> material.strength, evidence |-> material.evidence,
     certainty |-> material.certainty, contradicted |-> material.contradicted,
     inhibits |-> {e \in Claims \X Claims : material.kind[e] = "inhibiting"},
     prior |-> material.prior, confidence |-> material.confidence,
     gate |-> [n \in Claims |-> "or"]]

Build ==
    /\ phase = "build"
    /\ LET drawn == Drawn({e \in Kept : material.strength[e] >= MinEdgeStrength})
           graph == BreakCycles(drawn)
       IN  /\ rows' = [drawn EXCEPT !.gate = DetermineLogicGates(graph)]
           /\ feedback' = drawn.edges \ graph.edges
    /\ phase' = "served"
    /\ queue' = <<>> /\ visited' = {} /\ asked' = [c \in Claims |-> 0] /\ found' = <<>>
    /\ UNCHANGED <<material, subs, scenarios, edits, answer>>

-----------------------------------------------------------------------------
(* Reading it *)

BuildGraph(g, marked) == [g EXCEPT !.edges = @ \ marked]
\* The graph of the graph screen and of the scenarios.
ShownGraph == BreakCycles(BuildGraph(rows, feedback))
\* The graph that link tests and option forecasts are made on.
SnapshotGraph ==
    LET g == BuildGraph(rows, feedback) IN BreakCyclesBy(g, g.strength)

\* What a reader of the graph is given of a claim.
ClaimResponse(g, n) ==
    LET distance == AnchorDistance(g, Outcomes, n)
    IN  [belief |-> Propagate(g)[n], critical |-> n \in ToSet(FindCriticalPath(g)),
         convergence |-> Cardinality(Parents(g, n)) > 1, range |-> NodeStability(g, <<>>)[n],
         dependent |-> n \in DependenceReport(g, Propagate(g)),
         relevance |-> EffectiveRelevance(material.stated[n], distance),
         peripheral |-> IsPeripheral(material.stated[n], distance),
         lens |-> InLens(material.stated[n], distance)]

-----------------------------------------------------------------------------
(* Changing it, and asking what a change would do *)

Served == phase = "served"
Edit == edits < MaxEdits /\ edits' = edits + 1
analysed == <<material, phase, queue, visited, asked, found>>

\* A link added by hand is not searched for yet, and may close a cycle.
AddEdge ==
    /\ Served /\ Edit
    /\ \E e \in ByHand \ rows.edges :
         rows' = [rows EXCEPT !.edges = @ \cup {e}, !.evidence[e] = 50,
                              !.strength[e] = EdgeStrength(Percent(95), Percent(95)),
                              !.certainty[e] = Percent(95), !.contradicted = @ \ {e},
                              !.inhibits = @ \ {e}]
    /\ answer' = None
    /\ UNCHANGED <<analysed, subs, feedback, scenarios>>

\* By request, or over a socket.
UpdateEdge ==
    /\ Served /\ Edit
    /\ \E e \in rows.edges \cap Disputed, strength \in {0, One} : rows' = [rows EXCEPT !.strength[e] = strength]
    /\ answer' = None
    /\ UNCHANGED <<analysed, subs, feedback, scenarios>>

\* The rows are changed, then read, then propagated, and the change is given to
\* the partial propagation once more.
Challenge ==
    /\ Served /\ Edit
    /\ \E e \in rows.edges \cap Disputed, score \in {0, 100}, against \in BOOLEAN :
         LET g == [rows EXCEPT !.evidence[e] = score,
                               !.contradicted = IF against THEN @ \cup {e} ELSE @]
             read == BuildGraph(g, feedback)
         IN  /\ rows' = g
             /\ answer' = [kind |-> "challenge", of |-> e,
                           changes |-> PropagateFromEdge(read, Propagate(read), e, None, score).changes]
    /\ UNCHANGED <<analysed, subs, feedback, scenarios>>

Modified(g, m) ==
    CASE m.type = "edge" -> IF m.of \in g.edges THEN [g EXCEPT !.strength[m.of] = m.value] ELSE g
      [] m.type = "node" -> [g EXCEPT !.confidence[m.of[1]] = m.value]
Affected(g, m) == IF m.type = "node" \/ m.of \in g.edges THEN {Last(m.of)} ELSE {}

\* Every change is made, then each node it touches is propagated from; which of
\* them comes first is not said.
WhatIf ==
    /\ Served /\ answer = None /\ scenarios = {}
    /\ \E changes \in Modifications, read \in {BuildGraph(rows, feedback)} :
         LET modified == FoldLeft(LAMBDA g, m : Modified(g, m), read, changes)
             affected == UNION {Affected(read, m) : m \in ToSet(changes)}
         IN  \E order \in SetToSeqs(affected) :
               answer' = [kind |-> "what_if", of |-> changes, graph |-> modified,
                          belief |-> FoldLeft(LAMBDA b, n : PropagateFromNode(modified, b, n).belief,
                                              Propagate(read), order)]
    /\ UNCHANGED <<analysed, subs, rows, feedback, scenarios, edits>>

-----------------------------------------------------------------------------
(* Scenarios *)

ApplyOverrides(g, overrides) ==
    [g EXCEPT !.strength = [e \in DOMAIN @ |-> IF e \in DOMAIN overrides THEN overrides[e] ELSE @[e]]]
ScenarioGraph(s) == BreakCycles(BuildGraph(ApplyOverrides(rows, s.edges), feedback))
Merged(under, over) == over @@ under

\* The links of the graph the analyst was shown, strengths made probabilities.
Analysis(g, proposed) == [e \in DOMAIN proposed \cap g.edges |-> Clamp(proposed[e])]

\* The analyst may fail, and what the user gives overrides what it says.
ForkScenario ==
    /\ Served /\ scenarios = {} /\ edits = 0
    /\ \E g \in {ShownGraph}, given \in Overrides, proposed \in Overrides :
         scenarios' = {[case |-> None, claims |-> <<>>,
                        edges |-> Merged(Analysis(g, proposed), given)]}
    /\ answer' = None
    /\ UNCHANGED <<analysed, subs, rows, feedback, edits>>

\* Overrides that are there stay; the analyst fills in none but missing ones.
RegenerateReport ==
    /\ Served
    /\ \E s \in scenarios, proposed \in Overrides :
         /\ s.case = None /\ DOMAIN s.edges = {}
         /\ scenarios' = (scenarios \ {s}) \cup {[s EXCEPT !.edges = Analysis(ShownGraph, proposed)]}
    /\ answer' = None
    /\ UNCHANGED <<analysed, subs, rows, feedback, edits>>

DeleteScenario ==
    /\ Served
    /\ \E s \in scenarios : scenarios' = scenarios \ {s}
    /\ answer' = None
    /\ UNCHANGED <<analysed, subs, rows, feedback, edits>>

\* Of a case only links of the graph and roots can be set; a case is replaced.
SaveCase ==
    /\ Served
    /\ \E case \in {"upside", "downside"}, g \in {SnapshotGraph} :
         \E edges \in {o \in Overrides : DOMAIN o \subseteq g.edges},
            claims \in {<<>>} \cup {n :> One : n \in {m \in Claims : Parents(g, m) = {}}} :
           scenarios' = {s \in scenarios : s.case # case}
                        \cup {[case |-> case, edges |-> edges, claims |-> claims]}
    /\ Edit
    /\ answer' = None
    /\ UNCHANGED <<analysed, subs, rows, feedback>>

\* The graph of a case the decider set.
StoredCase(g, s) ==
    [g EXCEPT !.strength = [e \in DOMAIN @ |-> IF e \in DOMAIN s.edges \cap g.edges
                                                 THEN s.edges[e] ELSE @[e]],
              !.prior = [n \in DOMAIN @ |-> IF n \in DOMAIN s.claims THEN s.claims[n] ELSE @[n]]]

\* Kept as they are given, or refused.
SaveSubDecisions ==
    /\ Served /\ answer = None /\ scenarios = {} /\ Edit
    /\ \E raw \in SubDecisions, g \in {SnapshotGraph} :
         /\ Normalised(g, Decision, raw) = raw
         /\ subs' = raw
    /\ UNCHANGED <<analysed, rows, feedback, scenarios, answer>>

Stop == Served /\ UNCHANGED graphVars

GraphNext ==
    \/ IdentifyRoots \/ Wave \/ Sweep \/ Build
    \/ AddEdge \/ UpdateEdge \/ Challenge \/ WhatIf
    \/ ForkScenario \/ RegenerateReport \/ DeleteScenario \/ SaveCase \/ SaveSubDecisions
    \/ Stop

GraphSpec == GraphInit /\ [][GraphNext]_graphVars

-----------------------------------------------------------------------------
(* Properties *)

Fresh == Served /\ edits = 0 /\ answer = None /\ scenarios = {}
Monotone(g) == \A n \in g.nodes : g.gate[n] = "or" /\ Causes(g, n) = Parents(g, n)
Tolerance == Percent(1)
Rounding == 8
Same(x, y) == Away(x, y) <= Rounding

EachClaimIsAskedOnce ==
    phase = "build" => \A c \in Claims : asked[c] = IF c \in Outcomes THEN 0 ELSE 1
OutcomesCauseNothing == \A e \in rows.edges \ ByHand : e[1] \notin Outcomes
BuiltGraphHasNoCycle == Served /\ edits = 0 => Acyclic(BuildGraph(rows, feedback))

\* Once the waves and the sweep are over every claim that is not an outcome was
\* asked exactly once what it causes, whatever roots were named and wherever the
\* answers led (causal_inferrer.py:106-193), and of what they say no cycle is
\* left, however many ran through one another (dag_builder.py:164-219).
GraphIsWhole == EachClaimIsAskedOnce /\ OutcomesCauseNothing /\ BuiltGraphHasNoCycle

\* Where causes only add up, the belief shown is too high and the dependent one
\* too low, if anything: the truth of the graph lies between them, and they
\* differ only where causes are shared (shared_causes.py:15-20, 90-167).
TruthIsBetween ==
    Served /\ answer = None /\ scenarios = {} /\ Monotone(ShownGraph) =>
      LET g == ShownGraph
          belief == Propagate(g)
          truth == Truth(g)
          dependent == DependentBeliefs(g)
      IN  \A n \in Claims :
            /\ dependent[n] <= truth[n] + Tolerance
            /\ truth[n] <= belief[n] + Tolerance
            /\ Ancestors(g, n) \cup {n} \subseteq Claims \ FindSharedCauses(g)
                 => Same(dependent[n], belief[n]) /\ n \notin DependenceReport(g, belief)

-----------------------------------------------------------------------------
(* Forecasts *)

LeversTakeHold(g) ==
    LET base == Propagate(g) IN
    \A o \in ToSet(Decision.options) :
      LET held == OptionGraph(g, Decision, o)
          belief == PropagateOnce(held, NoDraw(held))
      IN  \A n \in Claims :
            /\ n \in LeversOn(g, Decision, o) => belief[n] = One
            /\ n \in LeversOff(g, Decision, o) => belief[n] = 0
            /\ n \in Below(g, Telling(g, Decision)) \/ Same(belief[n], base[n])
            /\ OptionStatus(g, Decision, o) = "no_path" /\ n \in OutcomeNodes(g, Decision)
                 => Same(belief[n], base[n])

CasesBracketBase(g) ==
    LET ranked == RankDrivers(g, Decision, Sigma, Decision.options[1], Decision.options[2])
        total(h) == SumOf(ToSet(Decision.options),
                          LAMBDA o : ScoreOf(h, Decision, OptionGraph(h, Decision, o), None))
        case(better) == AutomaticAssumptions(g, Decision, {i.driver : i \in ranked}, better)
        gain(better) == total(ApplyAssumptions(g, case(better))) - total(g)
    IN  gain(TRUE) >= -Rounding /\ gain(FALSE) <= Rounding

PairVerdict(a, b, forecasts, value, key) ==
    Verdict(a, b, value[a], value[b], forecasts[a].higher[b][key], Simulations)
SharesAddUp(g) ==
    LET options == ToSet(Decision.options)
        forecasts == CompareOptions(OptionGraphs(g, Decision), g, Decision, Simulations)
        scored(key) == [o \in options |->
                          LET h == OptionGraph(g, Decision, o) IN ScoreOf(g, Decision, h, key)]
        leads(o) == 5 * forecasts[o].best[None] >= 3 * 6 * Len(Simulations)
    IN  /\ Decisive(Decision, Simulations, forecasts) => \E o \in options : leads(o) /\
                                                    \A p \in options \ {o} : ~leads(p)
        /\ \A key \in OutcomeNodes(g, Decision) \cup {None} :
             /\ SumOf(options, LAMBDA o : forecasts[o].best[key]) = 6 * Len(Simulations)
             /\ \A a, b \in options : a # b =>
                  /\ forecasts[a].higher[b][key] + forecasts[b].higher[a][key] = 6 * Len(Simulations)
                  /\ PairVerdict(a, b, forecasts, scored(key), key)
                       = PairVerdict(b, a, forecasts, scored(key), key)
        /\ \A a, b \in options : a # b =>
             LET verdicts == {PairVerdict(a, b, forecasts, scored(key), key) :
                                key \in OutcomeNodes(g, Decision)}
             IN  SummarisePair(verdicts) = "mixed" => {a, b} \subseteq {v.higher : v \in verdicts}

\* What is worth finding out is something that moves the comparison.
InformationMoves(g) ==
    LET ranked == RankDrivers(g, Decision, Sigma, Decision.options[1], Decision.options[2]) IN
    \A i \in RankInformation(g, ranked) :
      i.score \in 1..One /\ \E j \in ranked : j.driver.key = i.key /\ j.moves[None] > 0

\* Choosing within an option holds what the choice involves against the levers
\* of the option, and what is said to reach no outcome makes no difference.
ChoicesTakeHold(g) ==
    \A s \in ToSet(Normalised(g, Decision, subs)) : \A graphs \in {ChoiceGraphs(g, Decision, s)} :
      \A belief \in {ChoiceBeliefs(graphs)} :
        /\ \A k \in DOMAIN graphs :
             /\ \A n \in s.choices[k] : belief[k][n] = One
             /\ \A n \in Others(s, k) : belief[k][n] = 0
        /\ (\A k \in DOMAIN graphs : ~ChoiceReaches(g, Decision, s.choices[k]))
             => \A j, k \in DOMAIN graphs, n \in OutcomeNodes(g, Decision) : Same(belief[j][n], belief[k][n])
        /\ NoneWeighs(g, Decision) \/
             \A view \in {ChoiceView(g, Decision, belief)}, forecasts \in {CompareOptions(graphs, g, Decision, Simulations)} :
               \A verdict \in {ChoiceVerdict(view, forecasts, Simulations)} :
                 verdict.higher # None => \A k \in DOMAIN graphs : view[verdict.higher] >= view[k]

\* An option's levers hold whatever drives them and the others' are off, and
\* nothing moves that no lever leads to; the upside of the options is not worse
\* than the forecast and the downside not better, whichever way their drivers
\* work; in every run some option is best and of two one is higher, or they
\* share it, and the verdict on two options does not depend on which is named
\* first; and the same of the choices within an option (option_comparison.py:89-180, decision_scenarios.py:68-114,
\* stability.py:404-542, decision_robustness.py:66-94, sub_decisions.py:108-193).
ForecastsHold ==
    Served /\ answer = None /\ scenarios = {} /\ Available(SnapshotGraph, Decision) =>
      /\ LeversTakeHold(SnapshotGraph)
      /\ ChoicesTakeHold(SnapshotGraph)
      /\ edits = 0 => /\ CasesBracketBase(SnapshotGraph)
                      /\ SharesAddUp(SnapshotGraph)
                      /\ InformationMoves(SnapshotGraph)

-----------------------------------------------------------------------------
(* Views *)

CriticalPathIsHeaviest(g) ==
    LET promoting == [g EXCEPT !.edges = @ \ g.inhibits]
        weight == PathWeight(g, FindCriticalPath(g))
    IN  \A path \in SimplePaths(promoting, Claims, Cardinality(Claims)) : PathWeight(g, path) <= weight
AnchoringKeepsReach(g) ==
    LET anchored == [g EXCEPT !.edges = AnchoredEdges(g, Outcomes, material.stated)]
    IN  \A n \in Claims : Descendants(g, n) \cap Outcomes = Descendants(anchored, n) \cap Outcomes
PathsDoNotExceedBelief(g) ==
    Monotone(g) /\ g.contradicted = {} =>
      \A n \in Claims : \A path \in FindAllPathsToNode(g, n) :
        Mul(RootPrior(g, path[1]), CompoundProbability(g, path)) <= Propagate(g)[n] + Rounding
LensShowsTheRelevant(g) ==
    \A n \in Claims :
      LET response == ClaimResponse(g, n)
          distance == AnchorDistance(g, Outcomes, n)
      IN  /\ n \in Outcomes => response.relevance = 100 /\ ~response.peripheral
          /\ response.lens \/ response.relevance = None \/ response.relevance < 50
          /\ distance # None => FocusSubgraph(g, n, distance) \cap Outcomes # {}
LeverageIsWithinSensitivity(g) ==
    \A o \in Outcomes :
      LET ranked == RankLinks(g, g.edges, o, [e \in g.edges |-> One])
      IN  \A e \in g.edges :
            /\ LinkLeverage(g, e, o) <= EdgeSensitivity(g, e)
            /\ EdgeSensitivity(g, e) <= NodeSensitivity(g, e[2])
            /\ ranked[e] > 0 /\ o \notin Below(g, {e[2]}) => \A f \in g.edges : LinkLeverage(g, f, o) = 0

\* The critical path is the heaviest of all that do not inhibit, not only of
\* those that are tried; an anchored graph still leads wherever it led to an
\* outcome; no path is likelier than the belief it explains; what is kept out of
\* the lens is of no relevance; and a link that cannot move an outcome is not
\* ranked among those that do (critical_path.py:19-90, anchoring.py:49-204,
\* path_finder.py:24-112, sensitivity.py:22-126, value_of_information.py:60-97).
ViewsAreExact ==
    Fresh => /\ CriticalPathIsHeaviest(ShownGraph)
             /\ AnchoringKeepsReach(ShownGraph)
             /\ PathsDoNotExceedBelief(ShownGraph)
             /\ LensShowsTheRelevant(ShownGraph)
             /\ LeverageIsWithinSensitivity(ShownGraph)

\* The nodes that all paths from start reach in the same number of links.
OnePathLength(g, start) ==
    \A p, q \in SimplePaths(g, {start}, Cardinality(Claims)) : Last(p) = Last(q) => Len(p) = Len(q)
WhatIfMatchesFull(g, changes, belief) ==
    Acyclic(g) /\ Len(changes) = 1 /\ OnePathLength(g, Last(changes[1].of)) => belief = Propagate(g)
CaseMovesOnlyWhatIsBelow(s, g) ==
    LET set == {n \in Claims : n \in DOMAIN s.claims \/ \E e \in DOMAIN s.edges : e[2] = n}
    IN  \A n \in Claims \ Below(g, set) : Propagate(StoredCase(g, s))[n] = Propagate(g)[n]
DifferenceIsSymmetric(s, g) ==
    LET there == DiffScenarios(g, ScenarioGraph(s))
        back == DiffScenarios(ScenarioGraph(s), g)
        draws == [i \in DOMAIN Simulations |-> Simulations[i].shared]
    IN  /\ there.divergent = back.divergent /\ there.added = back.removed
        /\ \A n \in Outcomes : CompareStability(g, ScenarioGraph(s), draws, n)
                             = CompareStability(ScenarioGraph(s), g, draws, n)

\* What a what-if of one change reports is what the whole graph says after it,
\* where nothing below it is reached by paths of different length; what a stored
\* case sets moves nothing that is not below it; and of two scenarios each
\* differs from the other as the other from it (propagation.py:45-133,
\* operations.py:238-319, decision_scenarios.py:117-144, scenario_diff.py:20-111).
VariationsAgree ==
    /\ answer # None /\ answer.kind = "what_if" =>
         WhatIfMatchesFull(answer.graph, answer.of, answer.belief)
    /\ \A s \in scenarios : IF s.case = None THEN edits = 0 => DifferenceIsSymmetric(s, ShownGraph)
                            ELSE CaseMovesOnlyWhatIsBelow(s, SnapshotGraph)
=============================================================================
