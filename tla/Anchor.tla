------------------------------- MODULE Anchor -------------------------------
(***************************************************************************)
(* The decision anchor: what is being decided, its options and the         *)
(* outcomes it is judged by (reasoning/decision_anchor.py).                *)
(*                                                                         *)
(* An anchor is a record: decision, options and outcomes (sequences of     *)
(* items), and status.  An item is [key, item]: the number of its key      *)
(* (O1, O2... or Y1, Y2...), Blank where it has none yet, and what the     *)
(* user means by it, None where it has no label.                           *)
(***************************************************************************)
EXTENDS Indices, FiniteSetsExt

CONSTANTS None,
          MaxOptions, MaxOutcomes   \* of an anchor

ASSUME AnchorAssumption ==
    /\ MaxOptions \in Nat \ {0} /\ MaxOutcomes \in Nat \ {0}
    /\ None \notin Nat

Blank == 0
KeysOf(items) == {items[i].key : i \in DOMAIN items}
Nothing == [options |-> {}, outcomes |-> {}]

\* The keys of an anchor.
AnchorKeys(anchor) ==
    IF anchor = None THEN Nothing
    ELSE [options |-> KeysOf(anchor.options), outcomes |-> KeysOf(anchor.outcomes)]

\* Items that have a key keep it, the first of those that share one; the others
\* get keys past the highest of them and of the reserved.
Keyed(items, limit, reserved) ==
    LET labelled == Picked(items, {i \in DOMAIN items : items[i].item # None})
        cleaned == SubSeq(labelled, 1, Min({limit, Len(labelled)}))
        keeps(i) == cleaned[i].key # Blank /\ \A j \in 1..(i - 1) : cleaned[j].key # cleaned[i].key
        highest == Max({0} \cup reserved \cup KeysOf(cleaned))
        others(i) == Cardinality({j \in 1..i : ~keeps(j)})
    IN  [i \in DOMAIN cleaned |->
           IF keeps(i) THEN cleaned[i] ELSE [cleaned[i] EXCEPT !.key = highest + others(i)]]

\* An anchor without a decision is none.
NormaliseAnchor(raw, status, reserved) ==
    IF raw = None THEN None
    ELSE IF raw.decision = None THEN None
    ELSE [decision |-> raw.decision,
          options  |-> Keyed(raw.options, MaxOptions, reserved.options),
          outcomes |-> Keyed(raw.outcomes, MaxOutcomes, reserved.outcomes),
          status   |-> status]

\* What the model made of an objective: its answer, or the user's words alone
\* when it names no decision.  None without an objective, or without an answer.
DraftAnchor(objective, answer) ==
    LET draft == NormaliseAnchor(answer, "draft", Nothing)
        bare == [decision |-> objective, options |-> <<>>, outcomes |-> <<>>]
    IN  IF objective = None \/ answer = None THEN None
        ELSE IF draft # None THEN draft
        ELSE NormaliseAnchor(bare, "draft", Nothing)

\* Of the options a score names, those the anchor has, and what they mean in it.
CleanClaimScores(anchor, named) == {x \in ToSet(anchor.options) : x.key \in named}

\* Two anchors that say the same, whatever their status.
SameContent(a, b) ==
    IF a = None \/ b = None THEN a = b ELSE [a EXCEPT !.status = b.status] = b
=============================================================================
