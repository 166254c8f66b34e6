------------------------------ MODULE Options -------------------------------
(***************************************************************************)
(* What a causal graph predicts for each option of a decision              *)
(* (reasoning/option_comparison.py, decision_robustness.py,                *)
(* decision_priorities.py, information_priority.py, decision_scenarios.py, *)
(* graph/option_sensitivity.py, stability.py).                             *)
(*                                                                         *)
(* A decision is a record: options (a sequence of keys), outcomes (a       *)
(* sequence of nodes, one per success criterion), bears (for each lever    *)
(* the keys it bears on) and importance (of an outcome, or None).  Choosing *)
(* an option is an intervention on its levers.  A run of the simulation is *)
(* a pair [shared, own]: the jitter of the links all options have in       *)
(* common, and of each option the jitter of the others.                    *)
(***************************************************************************)
EXTENDS Beliefs

-----------------------------------------------------------------------------
(* Interventions *)

\* A lever is cut from its causes and held at certain, or at impossible.
Intervene(g, on, off) ==
    [g EXCEPT !.edges = {e \in @ : e[2] \notin on \cup off},
              !.prior = [n \in DOMAIN @ |-> IF n \in off THEN 0
                                            ELSE IF n \in on THEN One ELSE @[n]]]

\* A claim that bears on every option tells none apart.
Telling(g, d) ==
    {c \in g.nodes \cap DOMAIN d.bears :
       LET bears == d.bears[c] \cap ToSet(d.options) IN bears \notin {{}, ToSet(d.options)}}
LeversOn(g, d, o) == {c \in Telling(g, d) : o \in d.bears[c]}
LeversOff(g, d, o) == Telling(g, d) \ LeversOn(g, d, o)
OptionGraph(g, d, o) == Intervene(g, LeversOn(g, d, o), LeversOff(g, d, o))
OptionGraphs(g, d) == [o \in ToSet(d.options) |-> OptionGraph(g, d, o)]

OutcomeNodes(g, d) == ToSet(d.outcomes) \cap g.nodes
ReachesOutcome(g, d) == OutcomeNodes(g, d) \cap UNION {Descendants(g, c) : c \in Telling(g, d)} # {}
OptionStatus(g, d, o) ==
    IF Telling(g, d) = {} THEN "not_modelled"
    ELSE IF ~ReachesOutcome(g, d) THEN "no_path"
    ELSE IF LeversOn(g, d, o) = {} THEN "only_as_alternative"
    ELSE "modelled"

Available(g, d) == Len(d.options) >= 2 /\ OutcomeNodes(g, d) # {} /\ Telling(g, d) # {}

-----------------------------------------------------------------------------
(* Priorities *)

ImportanceWeights == [critical |-> 8, high |-> 4, medium |-> 2, low |-> 1, none |-> 0]
Resolve(d, n) == ImportanceWeights[IF d.importance[n] = None THEN "medium" ELSE d.importance[n]]

\* The mean of the values at S by these weights, or None when nothing weighs.
WeightedView(value, weight, S) ==
    LET usable == {n \in S : weight[n] > 0}
        term(n) == weight[n] * value[n]
    IN  IF usable = {} THEN None
        ELSE SumOf(usable, term) \div SumOf(usable, LAMBDA n : weight[n])
Weights(g, d) == [n \in OutcomeNodes(g, d) |-> Resolve(d, n)]
NoneWeighs(g, d) == \A n \in OutcomeNodes(g, d) : Resolve(d, n) = 0

\* Of the simulations: criteria of no weight at all weigh the same.
MeanOutcome(g, d, belief) ==
    WeightedView(belief,
                 IF NoneWeighs(g, d) THEN [n \in OutcomeNodes(g, d) |-> 1] ELSE Weights(g, d),
                 OutcomeNodes(g, d))

-----------------------------------------------------------------------------
(* Simulations.  Shares are counted in sixths of a run, which keeps the    *)
(* share of up to three winners exact.                                     *)

\* A link jitters together only if every option has it at the same strength.
SharedEdges(graphs) ==
    LET all == UNION {graphs[o].edges : o \in DOMAIN graphs}
    IN  {e \in all : /\ \A o \in DOMAIN graphs : e \in graphs[o].edges
                     /\ Cardinality({graphs[o].strength[e] : o \in DOMAIN graphs}) = 1}
DrawOf(run, o, shared) ==
    [e \in DOMAIN run.shared |-> IF e \in shared THEN run.shared[e] ELSE run.own[o][e]]

Winners(score) == {o \in DOMAIN score : \A p \in DOMAIN score : score[p] <= score[o]}
SixthsOf(winners, o) == IF o \in winners THEN 6 \div Cardinality(winners) ELSE 0

Tally(a, b) == IF a > b THEN 6 ELSE IF a = b THEN 3 ELSE 0

RunScores(graphs, runs) ==
    LET shared == SharedEdges(graphs)
    IN  [i \in DOMAIN runs |-> [o \in DOMAIN graphs |->
           PropagateOnce(graphs[o], DrawOf(runs[i], o, shared))]]
OverRuns(runs, Count(_)) == SumOf(DOMAIN runs, Count)

\* Key None is the weighted score, any other key an outcome.
ValueAt(g, d, key, belief) == IF key = None THEN MeanOutcome(g, d, belief) ELSE belief[key]
\* Of graphs that each hold what one option, or one choice, involves.
CompareOptions(graphs, g, d, runs) ==
    LET beliefs == RunScores(graphs, runs)
        at(i, key) == [o \in DOMAIN graphs |-> ValueAt(g, d, key, beliefs[i][o])]
        keys == OutcomeNodes(g, d) \cup {None}
    IN  [o \in DOMAIN graphs |->
          [best |-> [key \in keys |->
             OverRuns(runs, LAMBDA i : SixthsOf(Winners(at(i, key)), o))],
           higher |-> [p \in DOMAIN graphs \ {o} |-> [key \in keys |->
             OverRuns(runs, LAMBDA i : Tally(at(i, key)[o], at(i, key)[p]))]]]]
\* The leader is best in three runs of five.
Decisive(d, runs, forecasts) ==
    Len(d.options) > 1
    /\ \E o \in ToSet(d.options) : 5 * forecasts[o].best[None] >= 3 * 6 * Len(runs)

Verdict(a, b, valueA, valueB, sixths, runs) ==
    LET total == 6 * Len(runs)
        share == IF valueA > valueB THEN sixths ELSE total - sixths
    IN  IF Away(valueA, valueB) < Percent(2) THEN [verdict |-> "no_difference", higher |-> None]
        ELSE [higher |-> IF valueA > valueB THEN a ELSE b,
              verdict |-> IF 5 * share >= 4 * total THEN "robust"
                          ELSE IF 5 * share >= 3 * total THEN "sensitive"
                          ELSE "unresolved"]
SummarisePair(verdicts) ==
    LET directed == {v \in verdicts : v.verdict \in {"robust", "sensitive"}}
    IN  IF directed # {}
          THEN IF Cardinality({v.higher : v \in directed}) = 2 THEN "mixed" ELSE "consistent"
        ELSE IF \A v \in verdicts : v.verdict = "no_difference" THEN "no_difference"
        ELSE "unresolved"

-----------------------------------------------------------------------------
(* Drivers: what would move the comparison *)

ScoreOf(g, d, graph, key) == ValueAt(g, d, key, PropagateOnce(graph, NoDraw(graph)))
WithStrength(g, e, value) == [g EXCEPT !.strength[e] = value]
WithPrior(g, n, value) == [g EXCEPT !.prior[n] = value]

\* A link within two sigmas of its strength, a root within twenty points of its
\* likelihood; levers and outcomes are fixed.
PerturbationDrivers(g, d, sigma) ==
    LET relevant == OutcomeNodes(g, d) \cup UNION {Ancestors(g, n) : n \in OutcomeNodes(g, d)}
        held == UNION {OptionGraph(g, d, o).edges : o \in ToSet(d.options)}
        links == {e \in held : e[2] \in relevant}
        roots == {n \in relevant \ (Telling(g, d) \cup OutcomeNodes(g, d)) : Parents(g, n) = {}}
        spread(e) == 2 * EdgeSigma(g.certainty[e], sigma)
    IN  {[kind |-> "link", key |-> e, current |-> g.strength[e],
          low |-> Clamp(g.strength[e] - spread(e)), high |-> Clamp(g.strength[e] + spread(e))] :
            e \in links}
        \cup {[kind |-> "claim", key |-> <<n>>, current |-> RootPrior(g, n),
               low |-> Clamp(RootPrior(g, n) - Percent(20)),
               high |-> Clamp(RootPrior(g, n) + Percent(20))] : n \in roots}
DriverAt(graph, driver, value) ==
    IF driver.kind = "link" THEN WithStrength(graph, driver.key, value)
    ELSE WithPrior(graph, driver.key[1], value)

\* What an option scores by a key at the low and at the high end of a driver.
Effects(g, d, o, driver, key) ==
    LET graph == OptionGraph(g, d, o)
        at(value) == IF driver.kind = "link" /\ driver.key \notin graph.edges THEN graph
                     ELSE DriverAt(graph, driver, value)
    IN  <<ScoreOf(g, d, at(driver.low), key), ScoreOf(g, d, at(driver.high), key)>>

Sign(gap) == IF 200 * gap > One THEN 1 ELSE IF 200 * gap < -One THEN -1 ELSE 0
FlipStatus(base, low, high) ==
    IF Sign(base) = 0 THEN "no_flip"
    ELSE IF -Sign(base) \in {Sign(low), Sign(high)} THEN "flips"
    ELSE IF 0 \in {Sign(low), Sign(high)} THEN "erases"
    ELSE "no_flip"
\* How far a driver moves the gaps between two options, from what both score at
\* its low and its high end.
Impact(driver, base, first, second) ==
    LET gap(key, end) == first[key][end] - second[key][end]
    IN  [driver |-> driver, moves |-> [key \in DOMAIN base |-> Away(gap(key, 2), gap(key, 1))],
         flip |-> [key \in DOMAIN base |-> FlipStatus(base[key], gap(key, 1), gap(key, 2))]]
RankDrivers(g, d, sigma, a, b) ==
    LET keys == OutcomeNodes(g, d) \cup {None}
        base == [key \in keys |-> ScoreOf(g, d, OptionGraph(g, d, a), key)
                                  - ScoreOf(g, d, OptionGraph(g, d, b), key)]
        effects(o, driver) == [key \in keys |-> Effects(g, d, o, driver, key)]
    IN  {i \in {Impact(driver, base, effects(a, driver), effects(b, driver)) :
                  driver \in PerturbationDrivers(g, d, sigma)} :
           \E key \in keys : i.moves[key] > 0}
IsReportable(i) == 200 * i.moves[None] >= One \/ \E key \in DOMAIN i.flip : i.flip[key] = "flips"

LinkUncertainty(certainty, score) == One - Mul(certainty, Half + Percent(score) \div 2)
DriverUncertainty(g, driver) ==
    IF driver.kind = "link" THEN LinkUncertainty(g.certainty[driver.key], g.evidence[driver.key])
    ELSE 4 * Mul(driver.current, One - driver.current)
Relevance(flip) == CASE flip = "flips" -> 100 [] flip = "erases" -> 75 [] OTHER -> 50
\* What it is worth finding out first.
InformationScore(g, i) ==
    Mul(Mul(DriverUncertainty(g, i.driver), Min({One, 5 * i.moves[None]})),
        Percent(Relevance(i.flip[None])))
RankInformation(g, ranked) ==
    {[key |-> i.driver.key, score |-> InformationScore(g, i)] :
       i \in {j \in ranked : IsReportable(j) /\ InformationScore(g, j) > 0}}

-----------------------------------------------------------------------------
(* Sub-decisions: [parent, choices], an option and for each choice within   *)
(* it the claims it involves (reasoning/sub_decisions.py).                  *)

UsableClaims(g, d) == g.nodes \ ToSet(d.outcomes)
IsSubDecision(d, s) == s.parent \in ToSet(d.options) /\ Cardinality(DOMAIN s.choices) \in 2..4

\* Claims that cannot be used are left out, and what is then no choice, or no
\* sub-decision.
Normalised(g, d, raw) ==
    LET usable(s) == {k \in DOMAIN s.choices : s.choices[k] \cap UsableClaims(g, d) # {}}
        clean(s) == [s EXCEPT !.choices = [k \in usable(s) |-> s.choices[k] \cap UsableClaims(g, d)]]
    IN  SelectSeq([i \in DOMAIN raw |-> clean(raw[i])], LAMBDA s : IsSubDecision(d, s))

\* A choice's claims hold, the other choices' do not, and of the option's levers
\* those that neither names.
Others(s, k) == UNION {s.choices[j] : j \in DOMAIN s.choices \ {k}} \ s.choices[k]
ChoiceGraphs(g, d, s) ==
    [k \in DOMAIN s.choices |->
       Intervene(g, (LeversOn(g, d, s.parent) \ Others(s, k)) \cup s.choices[k],
                    (LeversOff(g, d, s.parent) \ s.choices[k]) \cup Others(s, k))]
ChoiceReaches(g, d, claims) == OutcomeNodes(g, d) \cap UNION {Descendants(g, c) : c \in claims} # {}

\* What each choice comes to, and the verdict on the two that come to most.
ChoiceBeliefs(graphs) == [k \in DOMAIN graphs |-> PropagateOnce(graphs[k], NoDraw(graphs[k]))]
ChoiceView(g, d, belief) == [k \in DOMAIN belief |-> WeightedView(belief[k], Weights(g, d), OutcomeNodes(g, d))]
Most(view, S) == CHOOSE k \in S : \A j \in S : view[j] <= view[k]
ChoiceVerdict(view, forecasts, runs) ==
    LET top == Most(view, DOMAIN view)
        second == Most(view, DOMAIN view \ {top})
    IN  Verdict(top, second, view[top], view[second], forecasts[top].higher[second][None], runs)

-----------------------------------------------------------------------------
(* The upside and the downside *)

\* How much a driver lifts the score from its low to its high end, over all
\* options together.
Lift(g, d, driver) ==
    SumOf(ToSet(d.options), LAMBDA o :
            LET effects == Effects(g, d, o, driver, None) IN effects[2] - effects[1])

\* Slip: the high end is the better one whatever the driver does.
HighEnd(g, d, driver, better) == IF better THEN driver.high ELSE driver.low

CaseEnd(g, d, driver, better) ==
    IF (Lift(g, d, driver) > 0) = better THEN driver.high ELSE driver.low
\* The five drivers that lift most, each at the end that is better, or worse.
AutoInputs == 5
Strongest(lift) ==
    {driver \in DOMAIN lift :
       /\ lift[driver] # 0
       /\ Cardinality({e \in DOMAIN lift : Away(lift[e], 0) > Away(lift[driver], 0)}) < AutoInputs}
AutomaticAssumptions(g, d, drivers, better) ==
    {[driver |-> driver, value |-> CaseEnd(g, d, driver, better)] :
       driver \in Strongest([driver \in drivers |-> Lift(g, d, driver)])}
ApplyAssumptions(g, assumptions) ==
    FoldSet(LAMBDA a, graph :
              IF a.driver.kind = "link" THEN WithStrength(graph, a.driver.key, Clamp(a.value))
              ELSE WithPrior(graph, a.driver.key[1], Clamp(a.value)),
            g, assumptions)
=============================================================================
