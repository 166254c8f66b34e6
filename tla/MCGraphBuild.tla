---------------------------- MODULE MCGraphBuild ----------------------------
(***************************************************************************)
(* A graph of four claims of which the last is the outcome, and materials  *)
(* in which causes add up, are all needed, inhibit or are contradicted.    *)
(***************************************************************************)
EXTENDS GraphBuild

FourClaims == 1..4
TheOutcome == {4}
ByNumber == <<<<2, 3>>, <<3, 1>>, <<1, 2>>, <<>>>>

Links == FourClaims \X FourClaims
Everywhere(x) == [e \in Links |-> x]
EachClaim(x) == [n \in FourClaims |-> x]

Plain ==
    [links |-> {<<1, 2>>, <<2, 3>>, <<3, 1>>, <<2, 1>>, <<1, 4>>, <<3, 4>>},
     strength |-> [e \in Links |-> IF e[1] < e[2] THEN 14000 ELSE 9000],
     evidence |-> Everywhere(50),
     certainty |-> Everywhere(Half), contradicted |-> {},
     kind |-> Everywhere("causal"), necessary |-> {},
     prior |-> EachClaim(None), confidence |-> EachClaim(Percent(60)),
     stated |-> <<None, 100, 20, None>>]
Demanding ==
    [Plain EXCEPT !.links = {<<1, 2>>, <<1, 3>>, <<2, 3>>, <<1, 4>>, <<2, 4>>, <<3, 4>>},
                  !.kind = [e \in Links |-> IF e[1] = 1 THEN "enabling" ELSE "causal"],
                  !.necessary = {<<2, 4>>}, !.prior[3] = Percent(30),
                  !.evidence[<<1, 3>>] = 100]
Opposed ==
    [Plain EXCEPT !.links = {<<1, 2>>, <<1, 3>>, <<3, 2>>, <<1, 4>>, <<2, 4>>, <<3, 4>>},
                  !.kind = [e \in Links |-> IF e[1] = 3 THEN "inhibiting" ELSE "causal"],
                  !.contradicted = {<<1, 2>>}, !.evidence[<<1, 2>>] = 25, !.evidence[<<3, 4>>] = 100,
                  !.strength[<<2, 4>>] = 1000, !.certainty[<<1, 4>>] = One]
AllMaterials == {Plain, Demanding, Opposed}

TwoOptions ==
    [options |-> <<"A", "B">>, outcomes |-> <<4>>,
     bears |-> (1 :> {"A"} @@ 2 :> {"B"} @@ 3 :> {"A", "B"}), importance |-> EachClaim(None)]

TwoRuns ==
    LET up == Everywhere(Percent(10)) down == Everywhere(-Percent(20)) IN
    <<[shared |-> up, own |-> [o \in {"A", "B", "a", "b"} |-> IF o \in {"A", "b"} THEN up ELSE down]],
      [shared |-> down, own |-> [o \in {"A", "B", "a", "b"} |-> down]]>>

Changes ==
    {<<[type |-> "node", of |-> <<1>>, value |-> One]>>,
     <<[type |-> "edge", of |-> <<1, 2>>, value |-> One]>>,
     <<[type |-> "node", of |-> <<2>>, value |-> One], [type |-> "edge", of |-> <<2, 4>>, value |-> 0]>>}
HandMade == {<<3, 1>>, <<4, 2>>}
Open == {<<1, 4>>, <<2, 3>>}
Within ==
    {<<[parent |-> "A", choices |-> [a |-> {1, 3}, b |-> {2}]]>>,
     <<[parent |-> "B", choices |-> [a |-> {1, 2}, b |-> {2, 3}]]>>,
     <<[parent |-> "A", choices |-> [a |-> {3}, b |-> {4}]]>>}
SomeOverrides == {<<>>, <<1, 4>> :> 0, <<2, 1>> :> One}
=============================================================================
