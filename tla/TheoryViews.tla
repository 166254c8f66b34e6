---------------------------- MODULE TheoryViews ----------------------------
(***************************************************************************)
(* What the screens show of the theories: their order, what would change   *)
(* the decider's mind (reasoning/mind_changers.py) and the decision        *)
(* journal (reasoning/decision_timeline.py).  All of it is computed from   *)
(* the rows of Theories on every request; nothing is stored.               *)
(***************************************************************************)
EXTENDS Theories

\* What is shown of a signal, or of a change, is not nothing.
ASSUME ViewsAssumption == None \notin BOOLEAN /\ None \notin Int \X Int

-----------------------------------------------------------------------------
(* What would change the decider's mind *)

Sided(weight) == IF weight < 0 THEN "weaken" ELSE "strengthen"

\* Whether an answered test came out as a signal says, or None.
Fired(resolved, decided, result, signal) ==
    IF resolved /\ decided THEN result = signal ELSE None

TripwireSignals(t) ==
    {[kind |-> "tripwire", id |-> w.id,
      effect |-> IF w.direction = "falsifies" THEN "weaken" ELSE "strengthen",
      resolved |-> w.status # "pending",
      fired |-> Fired(w.status # "pending", TRUE, w.status, "observed")]
       : w \in {w \in tripwires : w.theory = t}}

LinkSignals(t) ==
    {[kind |-> "link_hypothesis", id |-> p[1].id,
      effect |-> IF p[2] = "refuted" THEN "weaken" ELSE "strengthen",
      resolved |-> p[1].status # "open",
      fired |-> Fired(p[1].status # "open", p[1].status # "inconclusive", p[1].status, p[2])]
       : p \in {h \in hypotheses : h.key = theories[t].key} \X {"refuted", "held"}}

\* The outcome of a field test, from the counters its results left.
Outcome(e) == IF experiments[e].support THEN "supports"
              ELSE IF experiments[e].oppose THEN "refutes" ELSE "inconclusive"

FieldSignals(t) ==
    {[kind |-> "field_experiment", id |-> p[1],
      effect |-> IF p[2] = "refutes" THEN "weaken" ELSE "strengthen",
      resolved |-> experiments[p[1]].status \in {"executed", "abandoned"},
      fired |-> Fired(experiments[p[1]].status = "executed", Outcome(p[1]) # "inconclusive",
                      Outcome(p[1]), p[2])]
       : p \in {e \in DOMAIN experiments : /\ experiments[e].kind = "field"
                                           /\ experiments[e].theory = t
                                           /\ experiments[e].designed} \X {"refutes", "supports"}}

\* Slip: what weakens a theory weakens the option, whatever it predicts.
ForAnyOption(effect, predicted) == effect

\* What weakens a theory that an option threatens an outcome speaks for the
\* option.
ForOption(effect, predicted) ==
    IF predicted # "threatens" THEN effect
    ELSE IF effect = "weaken" THEN "strengthen" ELSE "weaken"

\* The signals of all current theories about an option, with the side of the
\* option they are listed on.
Consolidated(option) ==
    UNION {{[theory |-> t, signal |-> signal, effect |-> ForOption(signal.effect, theories[t].effect)]
              : signal \in TripwireSignals(t) \cup LinkSignals(t) \cup FieldSignals(t)}
           : t \in {t \in Current : /\ theories[t].option = option
                                    /\ theories[t].effect \in {"achieves", "threatens"}}}

-----------------------------------------------------------------------------
(* The decision journal *)

\* What an observation that counts moved the conviction from, and to, or None.
ConvictionChange(key, source, id) ==
    LET rows == Of(beliefs, key, "evidence")
        prior == LatestPrior(beliefs, key)
        told == {i \in DOMAIN rows : /\ rows[i].source = source /\ rows[i].id = id
                                     /\ prior # None /\ Counts(rows, prior, i)}
        after == AfterEach(rows, prior)
    IN  IF told = {} THEN None ELSE <<after[Max(told) - 1], after[Max(told)]>>

\* The events of the journal about one theory: what was stated, and what was
\* observed, dated by the row the observation is kept in.
Entry(kind, at, change, falsified) ==
    [kind |-> kind, at |-> at, change |-> change, falsified |-> falsified]
DecisionTimeline(key) ==
    {Entry("conviction", r.at, None, FALSE) : r \in ToSet(Of(beliefs, key, "prior"))}
    \cup {Entry("tripwire", w.last.at, ConvictionChange(key, "tripwire", w.id),
                w.status = "observed" /\ w.direction = "falsifies")
            : w \in {w \in tripwires : w.last # None /\ theories[w.theory].key = key}}
    \cup {Entry("link_test", h.last.at, ConvictionChange(key, "link_hypothesis", h.id),
                h.status = "refuted")
            : h \in {h \in hypotheses : h.last # None /\ h.key = key}}
    \cup {Entry("field_test", experiments[e].last.at, ConvictionChange(key, "field_experiment", e),
                FALSE)
            : e \in {e \in DOMAIN experiments : /\ experiments[e].last # None
                                               /\ theories[experiments[e].theory].key = key}}

-----------------------------------------------------------------------------
(* Properties *)

Speaks(t, weight) == IF theories[t].effect = "threatens" THEN -weight ELSE weight

ByDefault(signal) ==
    \A x \in IF signal.kind = "tripwire" THEN tripwires ELSE hypotheses :
        x.id = signal.id => x.last.given = None

\* A tripwire or link test that is listed under an option as having come true
\* is one observation, and unless the caller gave it a weight of their own it did
\* weigh on the option in the direction it is listed under, through
\* regenerations, corrections and changes of decisiveness
\* (mind_changers.py:108-140, 165-169).
FiredSignalsWeigh ==
    \A t \in Current : \A listed \in Consolidated(theories[t].option) :
        listed.theory = t /\ listed.signal.kind # "field_experiment" /\ listed.signal.fired = TRUE =>
            LET rows == Of(beliefs, theories[t].key, "evidence")
                about == {i \in DOMAIN rows : /\ rows[i].source = listed.signal.kind
                                              /\ rows[i].id = listed.signal.id}
            IN  \E i \in about :
                  /\ about = {i}
                  /\ ByDefault(listed.signal) => Sided(Speaks(t, rows[i].weight)) = listed.effect

\* Where entries leave a conviction: where the latest of them does.
LeftAt(entries, prior) ==
    IF entries = {} THEN prior.weight
    ELSE (CHOOSE e \in entries : \A other \in entries : other.at <= e.at).change[2]

\* The journal tells the whole story of a conviction: the changes it shows are
\* of different dates, each goes on from where those before it left off, the
\* first from the prior that is in force, and together they lead to the
\* conviction that is held (decision_timeline.py:249-272).
JournalExplainsConviction ==
    \A key \in Keys :
      LET told == {e \in DecisionTimeline(key) : e.change # None}
          prior == LatestPrior(beliefs, key)
      IN  prior # None =>
            /\ \A e, other \in told : e.at = other.at => e = other
            /\ \A e \in told : e.change[1] = LeftAt({other \in told : other.at < e.at}, prior)
            /\ Replay(beliefs, key) = LeftAt(told, prior)

\* A theory is set against a case that is on record, the right way round and at
\* the rate that was recalled, whatever was deleted, matched or generated between
\* the reading of a case and the use of it; with no case it keeps a whole
\* comparison or none (outside_view.py:117-129, 304-350, theories.py:525-530).
ComparisonsStand ==
    \A t \in DOMAIN theories :
        LET m == theories[t].match
        IN  /\ m # NoMatch => m.polarity # None /\ m.delta # None
            /\ m.case # None => /\ OnRecord(m.case)
                               /\ CurrentComparison(t).rate = m.delta.rate
                               /\ CurrentComparison(t).polarity = m.delta.polarity

\* What is shown of a theory, under its option, in the journal and against
\* comparable cases, is what was counted (mind_changers.py:97-169,
\* decision_timeline.py:243-310, outside_view.py:76-129).
ShownIsCounted == FiredSignalsWeigh /\ JournalExplainsConviction /\ ComparisonsStand
=============================================================================
