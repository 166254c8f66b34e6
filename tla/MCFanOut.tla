------------------------------ MODULE MCFanOut ------------------------------
(***************************************************************************)
(* FanOut with three edges: prompts one and two are about the same thing,  *)
(* the cache has room for two and holds the answer to prompt three; a model    *)
(* refuses two parameters, or the connection breaks up to three times.     *)
(* Two batches of evidence yield claims that overlap.                      *)
(***************************************************************************)
EXTENDS FanOut

PromptNames == {"p1", "p2", "p3", "p4"}
Topics == [p \in PromptNames |-> IF p = "p2" THEN "p1" ELSE p]
ThreeEdges == 1..3
StagePrompts == [audit |-> <<"p4", "p1", "p2">>, rescore |-> <<"p3", "p2">>, discover |-> <<"p4", "p3">>]
StoredEarlier == <<"p3">>
TwoProviders == {[refused |-> {"temperature", "max_tokens"}, faults |-> 0],
                 [refused |-> {}, faults |-> 3]}
\* The middle one of three claims is close to both others, which are not close.
Contents == [p \in PromptNames |-> CASE p = "p3" -> <<"a", "b">> [] p = "p4" -> <<"b", "c", "k">>
                                     [] OTHER -> <<"c">>]
Likeness == {<<"a", "b">>, <<"b", "c">>}
Shuffled == <<<<3, 1>>, <<2>>>>
=============================================================================
