----------------------------- MODULE MCTheories -----------------------------
(***************************************************************************)
(* Theories on small instances: three links, one option and its opposite   *)
(* effects, answers that continue a theory by name or by its links.        *)
(***************************************************************************)
EXTENDS TheoryViews

Candidate == [names |-> None, links |-> {"l1", "l2"}, option |-> "O1", effect |-> "achieves"]

Renamed == [Candidate EXCEPT !.names = 1, !.links = {"l3"}]
Grown == [Candidate EXCEPT !.links = {"l1", "l2", "l3"}]
Opposite == [Candidate EXCEPT !.names = 1, !.effect = "threatens"]

LineAnswers == {<<Candidate>>, <<Renamed, Grown>>, <<Opposite>>}

Nothing ==
    [ops |-> {"generate"}, theories |-> 3, objections |-> 0, tripwires |-> 0,
     debates |-> 0, experiments |-> 0, hypotheses |-> 0, time |-> 0, recollections |-> 0]
Attacked == [Nothing EXCEPT !.ops = {"generate", "challenge", "execute"},
                            !.theories = 2, !.objections = 2, !.experiments = 1]
Debated == [Nothing EXCEPT !.ops = {"generate", "debates"},
                           !.tripwires = 3, !.debates = 1, !.time = 2]
Tested == [Nothing EXCEPT !.ops = {"generate", "tripwires"}, !.theories = 2,
                          !.tripwires = 1, !.experiments = 1, !.time = 2]
Believed == [Nothing EXCEPT !.ops = {"generate", "tripwires", "hypotheses"}, !.theories = 1,
                            !.tripwires = 1, !.hypotheses = 1, !.time = 3]
Recommended == [Nothing EXCEPT !.ops = {"generate", "recommend", "edit"}]
Recalled == [Nothing EXCEPT !.ops = {"generate", "outside"}, !.theories = 2,
                            !.recollections = 2]
AllBudgets == {Attacked, Debated, Tested, Believed, Recommended, Recalled}

OneRateOrNone == {<<>>, <<3>>}
BothWays == {{"falsifies"}, {"confirms"}}
OneGivenOrNone == {None, -40}
Attacks == {<<>>, <<80>>}
=============================================================================
