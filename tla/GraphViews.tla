----------------------------- MODULE GraphViews -----------------------------
(***************************************************************************)
(* What is read off a causal graph besides its beliefs: the critical path, *)
(* the paths to a node, the neighbourhood in focus, how far a claim is     *)
(* from the decision, how much a link matters, and what a change would do  *)
(* (graph/critical_path.py, path_finder.py, focus.py, anchoring.py,        *)
(* sensitivity.py, value_of_information.py, scenario_diff.py,              *)
(* propagation.py).                                                        *)
(***************************************************************************)
EXTENDS Beliefs

-----------------------------------------------------------------------------
(* Paths.  They are weighed by the evidence of their links alone, whether  *)
(* or not something contradicts it.                                        *)

Weight(g, e) == Mul(g.strength[e], Modulation(g.evidence[e], FALSE))
LinksOf(path) == {<<path[i], path[i + 1]>> : i \in 1..(Len(path) - 1)}

\* The simple paths of at most so many links that start in S.
SimplePaths(g, S, links) ==
    Repeated([paths \in SUBSET Seq(g.nodes) |->
               paths \cup UNION {{Append(p, c) : c \in Children(g, Last(p)) \ ToSet(p)} : p \in paths}],
             {<<n>> : n \in S}, links)
PathWeight(g, path) == SumOf(LinksOf(path), LAMBDA e : Weight(g, e))

\* The heaviest path to each node, node by node, through its heaviest cause;
\* inhibiting links are left out.  Of those the heaviest, the first of equals.
HeaviestPath(g, order) ==
    LET heaviest(paths) == CHOOSE p \in paths : \A q \in paths : PathWeight(g, q) <= PathWeight(g, p)
        reached == FoldLeft(LAMBDA best, n : [best EXCEPT ![n] =
                       heaviest({Append(best[p], n) : p \in Causes(g, n)} \cup {<<n>>})],
                     [n \in g.nodes |-> <<n>>], order)
        path == heaviest({reached[n] : n \in g.nodes})
    IN  IF Len(path) = 1 THEN <<>> ELSE path

FindCriticalPath(g) ==
    IF g.edges = {} \/ ~Acyclic(g) THEN <<>> ELSE HeaviestPath(g, TopoOrder(g))

CONSTANTS MaxPaths, MaxPathLength

CompoundProbability(g, path) == ProductOf(LinksOf(path), LAMBDA e : Weight(g, e))
\* The most probable paths from a root, or from a parent where nothing is a root.
FindAllPathsToNode(g, target) ==
    LET roots == {n \in g.nodes : Parents(g, n) = {}}
        from == (IF roots = {} THEN Parents(g, target) ELSE roots) \ {target}
        paths == {p \in SimplePaths(g, from, MaxPathLength) : Last(p) = target}
        likelier(p) == {q \in paths : CompoundProbability(g, q) > CompoundProbability(g, p)}
    IN  {p \in paths : Cardinality(likelier(p)) < MaxPaths}

Neighbours(g, S) == UNION {Parents(g, n) \cup Children(g, n) : n \in S}
FocusSubgraph(g, node, hops) ==
    FoldLeft(LAMBDA visible, i : visible \cup Neighbours(g, visible), {node}, Times(hops))

-----------------------------------------------------------------------------
(* Cycles *)

FindCycle(g) ==
    LET n == Min({m \in g.nodes : m \in Descendants(g, m)})
        path == CHOOSE p \in SimplePaths(g, {n}, Cardinality(g.nodes)) : Last(p) \in Parents(g, n)
    IN  LinksOf(path) \cup {<<Last(path), n>>}
Weakest(cycle, score) == CHOOSE e \in cycle : \A f \in cycle : score[e] <= score[f]
BreakCycle(g, score) == IF Acyclic(g) THEN g.edges ELSE g.edges \ {Weakest(FindCycle(g), score)}

\* As long as there is a cycle its weakest link goes.
BreakCyclesBy(g, score) ==
    LET left == [links \in SUBSET g.edges |-> BreakCycle([g EXCEPT !.edges = links], score)]
    IN  [g EXCEPT !.edges = Repeated(left, @, Cardinality(@))]
BreakCycles(g) == BreakCyclesBy(g, [e \in g.edges |-> g.strength[e] * g.evidence[e]])

-----------------------------------------------------------------------------
(* Distance to the decision.  A claim has a stated relevance in percent, or *)
(* None; outcomes are the nodes of the frame.                              *)

AnchorDistance(g, outcomes, n) ==
    LET near(hops) == n \in Above(g, outcomes \cap g.nodes, hops)
    IN  IF ~near(Cardinality(g.nodes)) THEN None
        ELSE Min({hops \in 0..Cardinality(g.nodes) : near(hops)})
StructuralRelevance(distance) ==
    CASE distance = None -> 0 [] distance = 0 -> 100 [] distance = 1 -> 85
      [] distance = 2 -> 65 [] distance = 3 -> 45 [] OTHER -> 30
EffectiveRelevance(stated, distance) ==
    IF stated = None /\ distance = None THEN None
    ELSE Max({IF stated = None THEN 0 ELSE stated, StructuralRelevance(distance)})
IsPeripheral(stated, distance) ==
    stated # None /\ distance # None /\ stated < 40 /\ distance > 0
InLens(stated, distance) ==
    (distance # None /\ distance <= 3) \/ (stated # None /\ stated >= 50)

Relevances(outcomes, stated, e) ==
    {IF n \in outcomes THEN 100 ELSE stated[n] :
       n \in {m \in {e[1], e[2]} : m \in outcomes \/ stated[m] # None}}
\* A link of twice its priority when an end of it bears on the decision in full.
EdgePriority(strength, outcomes, stated, e) ==
    LET relevances == Relevances(outcomes, stated, e)
    IN  IF relevances = {} THEN strength ELSE (strength * (100 + Max(relevances))) \div 200

\* Slip: only the links into an outcome are kept.
AnchoredEdgesDirect(g, outcomes, stated) ==
    LET kept == {e \in g.edges : e[2] \in outcomes}
    IN  IF kept = {} THEN g.edges ELSE kept

\* The links that lead to an outcome, and those between two relevant claims; all
\* of them when none is left or nothing is anchored.
AnchoredEdges(g, outcomes, stated) ==
    LET relevant(n) == stated[n] # None /\ stated[n] >= 50
        kept == {e \in g.edges : \/ AnchorDistance(g, outcomes, e[2]) # None
                                 \/ relevant(e[1]) /\ relevant(e[2])}
    IN  IF kept = {} \/ (outcomes = {} /\ \A n \in g.nodes : stated[n] = None) THEN g.edges
        ELSE kept

-----------------------------------------------------------------------------
(* How much a link matters: what becomes of beliefs when its strength is   *)
(* twenty points higher, or lower.                                         *)

Perturbed(g, e) ==
    {[g EXCEPT !.strength[e] = Clamp(@ + Percent(20))],
     [g EXCEPT !.strength[e] = Clamp(@ - Percent(20))]}
EdgeSensitivity(g, e) ==
    Max({0} \cup {Away(Propagate(h)[n], Propagate(g)[n]) :
                    h \in Perturbed(g, e), n \in Below(g, {e[2]})})
NodeSensitivity(g, n) == Max({0} \cup {EdgeSensitivity(g, <<p, n>>) : p \in Parents(g, n)})
LinkLeverage(g, e, destination) ==
    IF e \notin g.edges \/ destination \notin g.nodes THEN 0
    ELSE Max({Away(Propagate(h)[destination], Propagate(g)[destination]) : h \in Perturbed(g, e)})
\* By leverage times uncertainty, or by uncertainty where no link has leverage.
RankLinks(g, links, destination, uncertainty) ==
    IF \A e \in links : LinkLeverage(g, e, destination) = 0 THEN uncertainty
    ELSE [e \in links |-> Mul(LinkLeverage(g, e, destination), uncertainty[e])]

\* Of two versions of a graph: the nodes that differ by more than a tenth, and
\* the links only one of them has.
DiffScenarios(g, h) ==
    LET common == g.nodes \cap h.nodes
    IN  [divergent |-> {n \in common : Away(Propagate(g)[n], Propagate(h)[n]) > Percent(10)},
         added |-> h.edges \ g.edges, removed |-> g.edges \ h.edges]
\* How many of the draws agree with the direction of a difference, and in how
\* many it is material.
CompareStability(g, h, draws, n) ==
    LET gap(draw) == PropagateOnce(g, draw)[n] - PropagateOnce(h, draw)[n]
        point == gap(NoDraw(g))
        agrees(i) == gap(draws[i]) * point > 0 \/ (gap(draws[i]) = 0 /\ point = 0)
    IN  [agreement |-> Cardinality({i \in DOMAIN draws : agrees(i)}),
         material |-> Cardinality({i \in DOMAIN draws : Away(gap(draws[i]), 0) >= Percent(5)})]

-----------------------------------------------------------------------------
(* Partial propagation: from one node down, breadth first.  A node that    *)
(* comes up again moves half as far, then a quarter, then an eighth.       *)

MaxRevisits == 4
Halved(n) == FoldLeft(LAMBDA step, i : step \div 2, One, Times(n))

\* Slip: the newest nodes first.
Push(queue, nodes) == nodes \o queue

Enqueue(queue, nodes) == queue \o nodes

Visit(g, walk) ==
    LET n == Head(walk.queue)
        old == walk.belief[n]
        new == Clamp(old + ((NodeBelief(g, n, walk.belief) - old) * Halved(walk.visits[n])) \div One)
        rest == Tail(walk.queue)
    IN  IF walk.visits[n] >= MaxRevisits THEN [walk EXCEPT !.queue = rest]
        ELSE IF 100 * Away(new, old) < One /\ walk.visits[n] > 0
          THEN [walk EXCEPT !.queue = rest, !.visits[n] = @ + 1]
        ELSE [queue |-> Enqueue(rest, SetToSortSeq(Children(g, n), LAMBDA a, b : a < b)),
              visits |-> [walk.visits EXCEPT ![n] = @ + 1],
              belief |-> [walk.belief EXCEPT ![n] = new],
              changes |-> [walk.changes EXCEPT ![n] = <<old, new>>]]
PropagateFromNode(g, belief, start) ==
    LET walk == FoldLeft(LAMBDA w, i : IF w.queue = <<>> THEN w ELSE Visit(g, w),
                         [queue |-> <<start>>, visits |-> [n \in g.nodes |-> 0], belief |-> belief,
                          changes |-> [n \in g.nodes |-> None]],
                         Times(1 + MaxRevisits * Cardinality(g.edges)))
    IN  [belief |-> walk.belief, changes |-> walk.changes]
\* A link that is not there changes nothing.
PropagateFromEdge(g, belief, e, strength, evidence) ==
    IF e \notin g.edges THEN [belief |-> belief, changes |-> [n \in g.nodes |-> None]]
    ELSE PropagateFromNode([g EXCEPT !.strength[e] = IF strength = None THEN @ ELSE strength,
                                     !.evidence[e] = IF evidence = None THEN @ ELSE evidence],
                           belief, e[2])
=============================================================================
