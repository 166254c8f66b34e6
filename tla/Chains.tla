------------------------------- MODULE Chains -------------------------------
(***************************************************************************)
(* What a generation is shown of the graph, and what it may keep of the    *)
(* theories the model answers with (reasoning/context_builder.py,          *)
(* validation.py).                                                         *)
(*                                                                         *)
(* A snapshot is a graph with, for each node, status, noted, stated (its   *)
(* relevance in percent, or None) and outcome (its key in the anchor, or   *)
(* None), and the links that have evidence for and against them.  A walk   *)
(* is a sequence of tokens: <<c>> a claim, <<a, b>> a link, <<>> a         *)
(* reference that resolves to nothing.                                     *)
(***************************************************************************)
EXTENDS GraphViews, Indices

CONSTANTS MaxClaims, MaxLinks   \* shown to the model

IsOutcome(g, c) == g.outcome[c] # None
OutcomesOf(g) == {c \in g.nodes : IsOutcome(g, c)}

-----------------------------------------------------------------------------
(* What is shown.  Scores are in hundredths. *)

PathOf(g) == FindCriticalPath(BreakCycles(g))
StatusScore == [accepted |-> 0, business_critical |-> 400, uncertain |-> 150, needs_evidence |-> 150]
If(holds, points) == IF holds THEN points ELSE 0

ScoreClaim(g, critical, distance, c) ==
    LET ins == Cardinality(Parents(g, c))
        outs == Cardinality(Children(g, c))
        incident == {g.evidence[e] : e \in {e \in g.edges : c \in {e[1], e[2]}}}
        relevance == EffectiveRelevance(g.stated[c], distance[c])
    IN  If(c \in critical, 300) + If(ins = 0, 100) + If(outs = 0, 150) + If(ins > 1, 50)
        + 35 * Min({ins + outs, 6}) + StatusScore[g.status[c]] + If(c \in g.noted, 150)
        + Max({0} \cup incident) + (50 * g.confidence[c]) \div One
        + If(relevance # None, 4 * relevance) + If(IsOutcome(g, c), 300)

ScoreClaims(g) ==
    LET critical == ToSet(PathOf(g))
        distance == [c \in g.nodes |-> AnchorDistance(g, OutcomesOf(g), c)]
    IN  [c \in g.nodes |-> ScoreClaim(g, critical, distance, c)]

\* The first n of S by a score; of equals the first by place, a pair of numbers.
Earlier(p, q) == p[1] < q[1] \/ (p[1] = q[1] /\ p[2] < q[2])
Better(S, score, place, x) ==
    {y \in S : score[y] > score[x] \/ (score[y] = score[x] /\ Earlier(place[y], place[x]))}
Best(S, n, score, place) == {x \in S : Cardinality(Better(S, score, place, x)) < n}

Start(path, n) == {path[i] : i \in (1..n) \cap DOMAIN path}

\* A small graph whole; of a large one the claims of the highest scores, the
\* first half of the critical path, and every outcome.
SelectSubgraph(g) ==
    LET kept == Best(g.nodes, MaxClaims, ScoreClaims(g), [c \in g.nodes |-> <<c, 0>>])
                  \cup Start(PathOf(g), MaxClaims \div 2) \cup OutcomesOf(g)
        links == {e \in g.edges : e[1] \in kept /\ e[2] \in kept}
        weight == [e \in g.edges |-> g.strength[e] * g.evidence[e]]
    IN  IF Cardinality(g.nodes) <= MaxClaims /\ Cardinality(g.edges) <= MaxLinks
          THEN [claims |-> g.nodes, links |-> g.edges]
        ELSE [claims |-> kept, links |-> Best(links, MaxLinks, weight, [e \in g.edges |-> e])]

-----------------------------------------------------------------------------
(* Chains *)

IsLink(token) == Len(token) = 2
IsClaim(token) == Len(token) = 1
ClaimsIn(tokens) == UNION {ToSet(tokens[i]) : i \in DOMAIN tokens}

\* The references that name something shown, each once.
Resolve(refs, shown) ==
    Picked(refs, {i \in DOMAIN refs : refs[i] \in shown /\ \A j \in 1..(i - 1) : refs[j] # refs[i]})

\* The tokens of a walk that name something shown, as often as they do.
IsShown(token, shown) == token \in shown.links \/ (IsClaim(token) /\ token[1] \in shown.claims)
Steps(walk, shown) == Picked(walk, {i \in DOMAIN walk : IsShown(walk[i], shown)})

\* The claim right next to a step, or None at an end or beside another link.
NeighbourClaim(steps, i) ==
    IF i \in DOMAIN steps THEN IF IsClaim(steps[i]) THEN steps[i][1] ELSE None ELSE None

\* Slip: a link that is cited the wrong way round fits as well.
EdgeFitsEitherWay(link, before, after) ==
    IF (before = None \/ before \in {link[1], link[2]}) /\ (after = None \/ after \in {link[1], link[2]})
    THEN "connected" ELSE "disconnected"

EdgeFits(link, before, after) ==
    LET joins(a, b) == (before = None \/ before = a) /\ (after = None \/ after = b)
    IN  IF joins(link[1], link[2]) THEN "connected"
        ELSE IF joins(link[2], link[1]) THEN "reversed"
        ELSE "disconnected"

\* The walk without the links that do not fit; when none fits, the cited links
\* that were not tried, or the cited claims, with no link counted as connected.
BuildChain(walk, shown, claims, links) ==
    LET steps == Steps(walk, shown)
        fits(i) == EdgeFits(steps[i], NeighbourClaim(steps, i - 1), NeighbourClaim(steps, i + 1)) = "connected"
        cited == {i \in DOMAIN steps : IsLink(steps[i])}
        connected == {i \in cited : fits(i)}
        rejected == {steps[i] : i \in cited \ connected}
        untried == Picked(links, {i \in DOMAIN links : links[i] \notin rejected})
        chain == CASE connected # {} -> Picked(steps, (DOMAIN steps \ cited) \cup connected)
                   [] connected = {} /\ untried # <<>> -> untried
                   [] OTHER -> [i \in DOMAIN claims |-> <<claims[i]>>]
    IN  [chain |-> chain, connected |-> Cardinality(connected), cited |-> Cardinality(cited)]

-----------------------------------------------------------------------------
(* Theories.  A raw one has claims and links (what it cites), supporting    *)
(* and contradicting (links whose evidence it cites), walk, option,        *)
(* outcomes, effect and status.                                            *)

\* The option if the anchor has it, the outcomes it names or its chain meets,
\* and whether the chain meets one.
TheoryOfValue(raw, chain, g, keys) ==
    LET reached == {g.outcome[c] : c \in ClaimsIn(chain)} \ {None}
    IN  [option |-> IF raw.option \in keys.options THEN raw.option ELSE None,
         outcomes |-> (raw.outcomes \cap keys.outcomes) \cup reached,
         reaches |-> reached # {}]

\* No theory is supported without evidence for it, nor with evidence only against.
SettledStatus(status, supporting, contradicting) ==
    CASE status = "supported" /\ supporting = {} /\ contradicting # {} -> "contested"
      [] status = "supported" /\ supporting = {} /\ contradicting = {} -> "hypothesis"
      [] OTHER -> status

\* The claims that are cited, and the ends of the links that are.
WithEnds(claims, links, shown) ==
    Resolve(claims \o [p \in 1..(2 * Len(links)) |-> links[(p + 1) \div 2][2 - (p % 2)]], shown.claims)

\* A theory the references of which resolve, or None.
Validated(raw, g, shown, keys) ==
    LET links == Resolve(raw.links, shown.links)
        ends == WithEnds(raw.claims, links, shown)
        supporting == raw.supporting \cap g.supported \cap ToSet(links)
        contradicting == raw.against \cap g.contradicted \cap ToSet(links)
        built == BuildChain(raw.walk, shown, ends, links)
        value == TheoryOfValue(raw, built.chain, g, keys)
    IN  IF ends = <<>> \/ (built.cited > 0 /\ built.connected = 0) THEN None
        ELSE [claims |-> ends, links |-> links, supporting |-> supporting, against |-> contradicting,
              chain |-> built.chain, connected |-> built.connected, cited |-> built.cited,
              status |-> SettledStatus(raw.status, supporting, contradicting),
              option |-> value.option, outcomes |-> value.outcomes, reaches |-> value.reaches,
              walk |-> raw.walk]

\* Four fifths of their links in common.
SameLinks(a, b) ==
    LET mine == ToSet(a.links) theirs == ToSet(b.links)
    IN  mine \cup theirs # {} /\ 5 * Cardinality(mine \cap theirs) >= 4 * Cardinality(mine \cup theirs)

\* Each is compared with those that are kept.
DropDuplicateTheories(theories) ==
    Picked(theories,
           Firsts(Len(theories), {p \in (DOMAIN theories) \X (DOMAIN theories) :
                                    SameLinks(theories[p[2]], theories[p[1]])}))

ValidateTheories(raws, g, shown, keys) ==
    LET validated == [i \in DOMAIN raws |-> Validated(raws[i], g, shown, keys)]
    IN  DropDuplicateTheories(Picked(validated, {i \in DOMAIN raws : validated[i] # None}))
=============================================================================
