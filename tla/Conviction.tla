----------------------------- MODULE Conviction -----------------------------
(***************************************************************************)
(* What the decider believes of a theory: a prior, stated, and evidence    *)
(* that was observed, kept as rows in the order they were written and      *)
(* replayed whenever the conviction is read (reasoning/theory_value.py).   *)
(*                                                                         *)
(* A probability is its log-odds and a likelihood ratio its logarithm,     *)
(* both in tenths, so Bayes' rule is a sum; the bounds 0.01 and 0.99 of a  *)
(* conviction are -46 and 46, the bounds 1/20 and 20 of a ratio -30 and 30.*)
(***************************************************************************)
EXTENDS Indices

CONSTANT None

MaxConviction == 46
MaxWeight == 30

Clamp(x, bound) == IF x > bound THEN bound ELSE IF x < -bound THEN -bound ELSE x
BayesUpdate(belief, weight) == Clamp(belief + Clamp(weight, MaxWeight), MaxConviction)

Decisiveness == {"weak", "moderate", "decisive"}
PresenceWeight == [weak |-> 7, moderate |-> 14, decisive |-> 23]
AbsenceWeight == [weak |-> 2, moderate |-> 4, decisive |-> 4]

\* What a tripwire's outcome is worth when the caller does not say.
TripwireWeight(direction, observed, level) ==
    IF observed = (direction = "confirms")
      THEN IF observed THEN PresenceWeight[level] ELSE AbsenceWeight[level]
      ELSE IF observed THEN -PresenceWeight[level] ELSE -AbsenceWeight[level]

\* What the result of a tested link, and of a field test, is worth.
LinkWeight(result, level) ==
    CASE result = "held"    -> [weak |-> 4, moderate |-> 7, decisive |-> 11][level]
      [] result = "refuted" -> -[weak |-> 7, moderate |-> 14, decisive |-> 23][level]
      [] OTHER -> 0
FieldWeight == [supports |-> 7, refutes |-> -14, inconclusive |-> 0]

-----------------------------------------------------------------------------
(***************************************************************************)
(* Rows: [kind, key, weight, source, id, event, at].  A prior's weight is  *)
(* its value; at is the time it was written.                               *)
(***************************************************************************)
Prior(key, value, at) ==
    [kind |-> "prior", key |-> key, weight |-> Clamp(value, MaxConviction),
     source |-> "elicited", id |-> None, event |-> None, at |-> at]
Evidence(key, weight, source, id, event, at) ==
    [kind |-> "evidence", key |-> key, weight |-> Clamp(weight, MaxWeight),
     source |-> source, id |-> id, event |-> event, at |-> at]

\* One observation, one row: recording it again replaces the row.
WithEvidence(rows, row) ==
    Append(Picked(rows, {i \in DOMAIN rows : ~(/\ rows[i].key = row.key
                                               /\ rows[i].source = row.source
                                               /\ rows[i].id = row.id)}), row)

Of(rows, key, kind) == Picked(rows, {i \in DOMAIN rows : rows[i].key = key /\ rows[i].kind = kind})
LatestPrior(rows, key) == IF Of(rows, key, "prior") = <<>> THEN None ELSE Last(Of(rows, key, "prior"))

Abs(x) == IF x < 0 THEN -x ELSE x

\* Slip: an event that was known before the prior still counts.
CountsKnown(evidence, prior, i) ==
    /\ evidence[i].at >= prior.at
    /\ evidence[i].event # None =>
         \A j \in 1..Len(evidence) : evidence[j].event = evidence[i].event =>
            \/ Abs(evidence[j].weight) < Abs(evidence[i].weight)
            \/ Abs(evidence[j].weight) = Abs(evidence[i].weight) /\ i <= j

\* Of the observations of one event the strongest counts, the earliest on a
\* tie; none does when one of them is older than the prior.
Counts(evidence, prior, i) ==
    LET group == {j \in 1..Len(evidence) : evidence[j].event = evidence[i].event}
    IN  /\ evidence[i].at >= prior.at
        /\ evidence[i].event # None =>
             /\ \A j \in group : evidence[j].at >= prior.at
             /\ \A j \in group : \/ Abs(evidence[j].weight) < Abs(evidence[i].weight)
                                 \/ Abs(evidence[j].weight) = Abs(evidence[i].weight) /\ i <= j

\* What is believed after each observation, in their order.
AfterEach(evidence, prior) ==
    LET after[i \in 0..Len(evidence)] ==
          IF i = 0 THEN prior.weight
          ELSE IF Counts(evidence, prior, i) THEN BayesUpdate(after[i - 1], evidence[i].weight)
          ELSE after[i - 1]
    IN  after

Replay(rows, key) ==
    LET evidence == Of(rows, key, "evidence")
        prior == LatestPrior(rows, key)
    IN  IF prior = None THEN None ELSE AfterEach(evidence, prior)[Len(evidence)]
=============================================================================
