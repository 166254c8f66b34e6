------------------------------ MODULE Indices -------------------------------
(***************************************************************************)
(* What a comprehension, or a loop, over a list keeps of it, in its order  *)
(* (pipeline/evidence_grounder.py, reasoning/decision_anchor.py,           *)
(* claim_extractor.py, reasoning/validation.py).                           *)
(***************************************************************************)
EXTENDS Integers, Sequences, FiniteSets, SequencesExt

\* The indices in a set, in their order.
InOrder(indices) ==
    [k \in 1..Cardinality(indices) |->
       CHOOSE i \in indices : Cardinality({j \in indices : j <= i}) = k]

\* The elements of a list at these indices.
Picked(list, indices) ==
    LET kept == InOrder(indices) IN [n \in DOMAIN kept |-> list[kept[n]]]

\* The places of a list of n that are kept when each is compared with those that
\* are kept before it, and dropped when it is close to one.
FirstsUpto(n, close) ==
    LET kept[m \in 0..n] ==
          IF m = 0 THEN {}
          ELSE IF \E i \in kept[m - 1] : <<i, m>> \in close THEN kept[m - 1]
          ELSE kept[m - 1] \cup {m}
    IN  kept

Firsts(n, close) == FirstsUpto(n, close)[n]
=============================================================================
