------------------------------ MODULE MCFrame ------------------------------
(***************************************************************************)
(* The frame of four claims in a chain with a branch, of which the last    *)
(* leads to the outcomes, and theories that walk it well and badly.        *)
(***************************************************************************)
EXTENDS Frame

Lists ==
    {<<>>,
     <<[kind |-> "frame", options |-> 1, alike |-> FALSE]>>,
     <<[kind |-> "frame", options |-> 2, alike |-> TRUE],
       [kind |-> "authority", options |-> 0, alike |-> FALSE]>>}

FourClaims == 1..4
FourLinks == {<<1, 2>>, <<2, 4>>, <<1, 3>>, <<3, 4>>}
Each(S, x) == [n \in S |-> x]
Analysed ==
    [nodes |-> FourClaims, edges |-> FourLinks, inhibits |-> {}, contradicted |-> {<<2, 4>>},
     supported |-> {<<1, 2>>},
     strength |-> [e \in FourLinks |-> IF e[1] = 1 THEN 14000 ELSE 9000],
     evidence |-> [e \in FourLinks |-> IF e[2] = 2 THEN 100 ELSE 25],
     certainty |-> Each(FourLinks, 8192),
     confidence |-> Each(FourClaims, 9000), prior |-> Each(FourClaims, None), gate |-> Each(FourClaims, "or"),
     status |-> [Each(FourClaims, "accepted") EXCEPT ![4] = "business_critical"],
     stated |-> <<None, 80, 20, None>>, noted |-> {2}, outcome |-> Each(FourClaims, None)]

Raw(claims, links, walk) ==
    [claims |-> claims, links |-> links, walk |-> walk, supporting |-> {<<1, 2>>}, against |-> {<<2, 4>>},
     option |-> 1, outcomes |-> {1}, status |-> "supported"]
Straight == Raw(<<1>>, <<<<1, 2>>, <<2, 4>>>>, <<<<1>>, <<1, 2>>, <<2>>, <<2, 4>>, <<4>>>>)
Skipping == Raw(<<1>>, <<<<2, 4>>>>, <<<<1>>, <<1, 2>>, <<2>>, <<1, 2>>, <<4>>>>)
Backwards == Raw(<<>>, <<<<1, 2>>>>, <<<<2>>, <<1, 2>>, <<1>>>>)
HalfBack == Raw(<<1>>, <<<<1, 2>>>>, <<<<2>>, <<1, 2>>, <<1>>, <<1, 2>>, <<2>>>>)
Arriving == Raw(<<4>>, <<<<4, 5>>>>, <<<<4>>, <<4, 5>>, <<5>>>>)
Bare == Raw(<<5>>, <<>>, <<>>)
Invented == Raw(<<9>>, <<<<9, 1>>>>, <<<<>>>>)
Holed == Raw(<<2>>, <<<<1, 2>>>>, <<<<1>>, <<1, 2>>, <<>>, <<2, 4>>, <<4>>>>)
Gapped == Raw(<<>>, <<<<2, 4>>>>, <<<<4>>, <<1, 2>>, <<9>>, <<2, 4>>, <<4>>>>)
Some == {Gapped, Straight, Skipping, Backwards, HalfBack, Arriving, Bare, Invented, Holed}
Theories == {<<a, b, Straight>> : a \in Some, b \in {Skipping, Arriving}}

\* Long material is followed until its run starts, short from there on to the
\* first theories, which are asked for when all else is done.
FollowedThusFar ==
    /\ generation # generation' => drafting.phase = "idle" /\ saving.phase = "idle" /\ saves > 0
    /\ generation.phase = "none" \/ (generation.phase = "waiting" /\ generation'.phase = "done")
    /\ project.material = "long" => run.phase = "none" /\ drafting' = drafting /\ saves' = saves
    /\ project.material = "short" => asks' = asks
=============================================================================
