------------------------------ MODULE Beliefs -------------------------------
(***************************************************************************)
(* What a causal graph says of its nodes: propagation of beliefs, the      *)
(* figure if related causes are one cause, and how both hold up when the   *)
(* strengths are jittered (graph/belief_propagation.py, shared_causes.py,  *)
(* stability.py).                                                          *)
(*                                                                         *)
(* Probabilities are multiples of 1/One, evidence scores are percent.  A   *)
(* graph is a record: nodes (numbers), edges (pairs), strength, evidence   *)
(* and certainty of each edge, the contradicted edges and the inhibiting   *)
(* ones, and prior (or None), confidence and gate of each node.            *)
(***************************************************************************)
EXTENDS Integers, FiniteSetsExt, SequencesExt

CONSTANT None

One == 16384
Half == One \div 2
Percent(p) == (p * One) \div 100
Mul(a, b) == (a * b) \div One
Clamp(x) == Max({0, Min({One, x})})
Away(a, b) == IF a > b THEN a - b ELSE b - a
ProductOf(S, Factor(_)) == FoldSet(LAMBDA x, product : Mul(Factor(x), product), One, S)
SumOf(S, Term(_)) == FoldSet(LAMBDA x, sum : Term(x) + sum, 0, S)

Parents(g, n) == {p \in g.nodes : <<p, n>> \in g.edges}
Children(g, n) == {c \in g.nodes : <<n, c>> \in g.edges}
Times(n) == [i \in 1..n |-> i]
\* What so many steps make of a value.
Repeated(step, start, steps) ==
    LET value[k \in 0..steps] == IF k = 0 THEN start ELSE step[value[k - 1]] IN value[steps]
\* The nodes that reach S, or are reached from it, in so many hops, and S.
Above(g, S, hops) ==
    Repeated([seen \in SUBSET g.nodes |-> seen \cup UNION {Parents(g, n) : n \in seen}], S, hops)
Below(g, S) ==
    Repeated([seen \in SUBSET g.nodes |-> seen \cup UNION {Children(g, n) : n \in seen}], S,
             Cardinality(g.nodes))
Descendants(g, n) == Below(g, Children(g, n))
Ancestors(g, n) == Above(g, Parents(g, n), Cardinality(g.nodes))
Acyclic(g) == \A n \in g.nodes : n \notin Descendants(g, n)

\* Parents first; nodes on a cycle and below it are left out.
TopoOrder(g) ==
    FoldLeft(LAMBDA order, i :
               LET ready == {n \in g.nodes \ ToSet(order) : Parents(g, n) \subseteq ToSet(order)}
               IN  IF ready = {} THEN order ELSE Append(order, Min(ready)),
             <<>>, Times(Cardinality(g.nodes)))
InsertionOrder(g) == SetToSortSeq(g.nodes, LAMBDA a, b : a < b)
OrderOf(g) == IF Acyclic(g) THEN TopoOrder(g) ELSE InsertionOrder(g)

-----------------------------------------------------------------------------
(* One number per node *)

RootPrior(g, n) == IF g.prior[n] # None THEN g.prior[n] ELSE g.confidence[n]

\* A score to the power 3/2; a weak one still weighs three tenths, one that is
\* contradicted a twentieth.
ThreeHalves == (0 :> 0 @@ 25 :> 2048 @@ 50 :> 5793 @@ 100 :> One)
Modulation(score, contradicted) ==
    Max({Percent(IF contradicted THEN 5 ELSE 30), ThreeHalves[score]})
Effective(g, e) == Mul(g.strength[e], Modulation(g.evidence[e], e \in g.contradicted))

Causes(g, n) == {p \in Parents(g, n) : <<p, n>> \notin g.inhibits}

NoisyOr(g, n, belief) ==
    LET fails(p) == One - Mul(belief[p], Effective(g, <<p, n>>))
    IN  Mul(One - ProductOf(Causes(g, n), fails),
            ProductOf(Parents(g, n) \ Causes(g, n), fails))
AndGate(g, n, belief) ==
    LET holds(p) == Mul(belief[p], Effective(g, <<p, n>>))
    IN  ProductOf(Parents(g, n), holds)
NodeBelief(g, n, belief) ==
    IF Parents(g, n) = {} THEN RootPrior(g, n)
    ELSE IF g.gate[n] = "and" THEN AndGate(g, n, belief)
    ELSE NoisyOr(g, n, belief)

Unknown(g) == [n \in g.nodes |-> Half]

\* A graph with a cycle is left as it is, and is read as one half everywhere.
Propagate(g) ==
    IF ~Acyclic(g) THEN Unknown(g)
    ELSE FoldLeft(LAMBDA belief, n : [belief EXCEPT ![n] = NodeBelief(g, n, belief)],
                  Unknown(g), TopoOrder(g))

-----------------------------------------------------------------------------
(* Causes that are not independent *)

CONSTANT SharedDepth

\* Slip: a parent is not among its own ancestors.
ReachOfAncestors(g, p) == Above(g, Parents(g, p), SharedDepth - 1)

ReachOf(g, p) == Above(g, {p}, SharedDepth)

\* The causes of n that rise and fall with p, and p.
Group(g, n, p) ==
    FoldLeft(LAMBDA group, i :
               {q \in Causes(g, n) : q \in group
                                     \/ \E r \in group : ReachOf(g, q) \cap ReachOf(g, r) # {}},
             {p}, Times(Cardinality(g.nodes)))
Groups(g, n) == {Group(g, n, p) : p \in Causes(g, n)}

DependentBelief(g, n, belief) ==
    LET holds(p) == Mul(belief[p], Effective(g, <<p, n>>))
        fails(group) == One - Max({holds(p) : p \in group})
        spared(p) == One - holds(p)
    IN  IF Parents(g, n) = {} THEN RootPrior(g, n)
        ELSE IF g.gate[n] = "and" THEN ProductOf(Parents(g, n), holds)
        ELSE Mul(One - ProductOf(Groups(g, n), fails),
                 ProductOf(Parents(g, n) \ Causes(g, n), spared))
DependentBeliefs(g) ==
    FoldLeft(LAMBDA belief, n : [belief EXCEPT ![n] = DependentBelief(g, n, belief)],
             Unknown(g), OrderOf(g))

FindSharedCauses(g) ==
    {n \in g.nodes : g.gate[n] # "and" /\ \E group \in Groups(g, n) : Cardinality(group) > 1}
MaterialGap == Percent(5)
\* The nodes whose two figures are shown.
DependenceReport(g, belief) ==
    IF FindSharedCauses(g) = {} THEN {}
    ELSE {n \in g.nodes : belief[n] - DependentBeliefs(g)[n] >= MaterialGap}

-----------------------------------------------------------------------------
(* Jitter *)

\* A link held with more certainty is jittered less, never by less than a quarter.
EdgeSigma(certainty, sigma) == Mul(sigma, Percent(25) + Mul(Percent(75), One - certainty))

Jittered(g, draw) == [g EXCEPT !.strength = [e \in DOMAIN @ |-> Clamp(@[e] + draw[e])]]
NoDraw(g) == [e \in DOMAIN g.strength |-> 0]

\* The propagation of the simulations: a graph with a cycle is walked in the
\* order of insertion, and a node not reached yet counts one half.
PropagateOnce(g, draw) ==
    LET jittered == Jittered(g, draw)
        holds(p, n, belief) == Mul(belief[p], Effective(jittered, <<p, n>>))
        value(n, belief) ==
          IF Parents(g, n) = {} THEN RootPrior(g, n)
          ELSE IF g.gate[n] = "and" THEN ProductOf(Parents(g, n), LAMBDA p : holds(p, n, belief))
          ELSE Mul(One - ProductOf(Causes(g, n), LAMBDA p : One - holds(p, n, belief)),
                   ProductOf(Parents(g, n) \ Causes(g, n), LAMBDA p : One - holds(p, n, belief)))
    IN  FoldLeft(LAMBDA belief, n : [belief EXCEPT ![n] = value(n, belief)],
                 Unknown(g), OrderOf(g))

Percentile(sorted, percent) ==
    IF sorted = <<>> THEN 0 ELSE sorted[1 + (percent * (Len(sorted) - 1)) \div 100]
RangeOf(samples) ==
    LET sorted == SortSeq(samples, LAMBDA a, b : a < b)
    IN  <<Percentile(sorted, 10), Percentile(sorted, 50), Percentile(sorted, 90)>>
NodeStability(g, draws) ==
    [n \in g.nodes |->
       IF draws = <<>> \/ g.edges = {} THEN <<Propagate(g)[n], Propagate(g)[n], Propagate(g)[n]>>
       ELSE RangeOf([i \in DOMAIN draws |-> PropagateOnce(g, draws[i])[n]])]

-----------------------------------------------------------------------------
(* The reference: the joint distribution of the nodes, each of which is    *)
(* triggered by the parents that hold as its gate says.                    *)

Conditional(g, n, world) ==
    LET indicator == [p \in g.nodes |-> IF p \in world THEN One ELSE 0]
        chance == NodeBelief(g, n, indicator)
    IN  IF n \in world THEN chance ELSE One - chance
Truth(g) ==
    LET weight == [world \in SUBSET g.nodes |->
                     ProductOf(g.nodes, LAMBDA n : Conditional(g, n, world))]
    IN  [n \in g.nodes |-> SumOf({w \in SUBSET g.nodes : n \in w}, LAMBDA w : weight[w])]
=============================================================================
