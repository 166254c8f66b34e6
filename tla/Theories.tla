------------------------------ MODULE Theories ------------------------------
(***************************************************************************)
(* The life of a project's theories: generated and regenerated, attacked,  *)
(* given tripwires, compared in debates, tried in experiments, tested link *)
(* by link, set against comparable cases, and weighed in one               *)
(* recommendation.                                                         *)
(*                                                                         *)
(* A request that asks a model is two steps, what it reads before the      *)
(* model is asked and the transaction after the answer; other requests are *)
(* one step and may fall in between.  A row written through the ORM is     *)
(* written column by column, and only where the new value differs from the *)
(* copy the request loaded.                                                *)
(***************************************************************************)
EXTENDS Conviction

CONSTANTS Sessions,       \* requests that may wait for a model at one time
          Answers,        \* what generation may return: sequences of candidates
          Raised,         \* sequences of severities, in percent, of one attack
          Directions,     \* sets of directions one tripwire answer may hold
          Levels,         \* how decisive a source may be said to be
          Priors, Given,  \* stated beliefs; ratios a caller gives, or None
          Events,         \* names of events, or None
          Recollections,  \* the rates a recollection may be read as, as sequences
          Budgets         \* bounds on the tables; a behaviour has one of them

ASSUME TheoriesAssumption ==
    /\ None \notin Nat
    /\ \A answer \in Answers : answer \in Seq(ToSet(answer)) /\ answer # <<>>
    /\ Raised \subseteq Seq(0..100)

\* What a test may come to.
Results == {"observed", "not_observed", "held", "refuted"} \cup DOMAIN FieldWeight

\* What a caller gives is a number, and what is said of an observation is said.
ASSUME BeliefsAssumption ==
    /\ Levels \subseteq Decisiveness /\ Priors \subseteq Int /\ Given \subseteq Int \cup {None}
    /\ None \notin [what : Results, at : Nat, given : Given, event : Events]

\* How the outcome a theory predicts is compared with a case.
Polarities == {"same", "opposite"}

\* A rate is a number, and a comparison is one.
ASSUME CasesAssumption ==
    /\ Recollections \subseteq Seq(Nat)
    /\ None \notin Polarities /\ None \notin Nat \X Nat
    /\ None \notin [belief : Int \cup {None}, polarity : Polarities, rate : Nat]

VARIABLES
    theories,        \* rows, in the order they were written
    revisions,       \* numbers of the generations
    objections,      \* rows [theory, number, severity, dismissed]
    tripwires,       \* rows [id, theory, direction, level, status, asked, last]
    debates,         \* rows [a, b, discriminator, stale, promoted]
    experiments,     \* rows [theory, kind, status, designed, support, oppose, neutral, last]
    hypotheses,      \* rows [id, key, link, status, level, last]
    recommendation,  \* the theories the recommendation was written from, or None
    beliefs,         \* rows of Conviction
    time,            \* of the last observation or prior
    cases,           \* comparable cases: [round, rates]
    recall,          \* what the request about them holds while a model answers
    work,            \* what each session holds while a model answers
    budget           \* the bounds of this behaviour

vars == <<theories, revisions, objections, tripwires, debates, experiments,
          hypotheses, recommendation, beliefs, time, cases, recall, work, budget>>
outside == <<cases, recall>>
evidence == <<hypotheses, beliefs, time>>

\* A behaviour asks for the operations of its budget and keeps to its bounds;
\* time counts reports and stated beliefs.
Room ==
    /\ Len(theories') <= budget.theories /\ Cardinality(objections') <= budget.objections
    /\ Cardinality(tripwires') <= budget.tripwires /\ Len(debates') <= budget.debates
    /\ Len(experiments') <= budget.experiments
    /\ Cardinality(hypotheses') <= budget.hypotheses
    /\ cases'.round <= budget.recollections

\* Something is reported or stated, later than all before.
Tick == time < budget.time /\ time' = time + 1

Idle == [op |-> "idle", of |-> <<>>, seen |-> <<>>, on |-> None]

Init ==
    /\ theories = <<>> /\ revisions = <<>> /\ objections = {} /\ tripwires = {}
    /\ debates = <<>> /\ experiments = <<>> /\ hypotheses = {}
    /\ recommendation = None /\ beliefs = <<>> /\ time = 0
    /\ cases = [round |-> 0, rates |-> <<>>] /\ recall = Idle
    /\ budget \in Budgets
    /\ work = [s \in Sessions |-> Idle]

Current == {t \in DOMAIN theories : theories[t].current}
LastId(rows) == Max({0} \cup {r.id : r \in rows})

\* A session reads the current theories, in the order of their rank, and asks.
Ask(s, op, on) ==
    /\ op \in budget.ops
    /\ work[s] = Idle
    /\ Current # {}
    /\ \E order \in SetToSeqs(Current) :
         work' = [work EXCEPT ![s] = [op |-> op, of |-> order, on |-> on,
                    seen |-> [t \in Current |-> [load |-> theories[t].load,
                                                 contested |-> theories[t].contested]]]]

Answered(s, op) == work[s].op = op /\ work' = [work EXCEPT ![s] = Idle]

\* The model fails, or the commit does: the session is rolled back.
Fail(s) ==
    /\ work[s] # Idle
    /\ work' = [work EXCEPT ![s] = Idle]
    /\ UNCHANGED <<theories, revisions, objections, tripwires, debates, experiments,
                   hypotheses, recommendation, beliefs, time>>

-----------------------------------------------------------------------------
(* Generation *)

\* Whether a candidate and a theory of the last generation may be the same.
SameClaim(c, t) ==
    /\ c.option = t.option \/ None \in {c.option, t.option}
    /\ c.effect = t.effect \/ {c.effect, t.effect} \cap {None, "unclear"} # {}

Overlaps(links, others) ==
    5 * Cardinality(links \cap others) >= 3 * Cardinality(links \cup others)
Closer(links, a, b) ==
    Cardinality(links \cap a) * Cardinality(links \cup b)
        > Cardinality(links \cap b) * Cardinality(links \cup a)

\* The theory a candidate continues: the one it names, or else the first of
\* those that share most of its links, if they share three in five.
Continues(c, previous, used) ==
    LET Old(i) == theories[previous[i]]
        free == {i \in DOMAIN previous : Old(i).key \notin used /\ SameClaim(c, Old(i))}
        named == {i \in free : Old(i).key = c.names}
        linked == {i \in free : Old(i).links # {}}
        closest == {i \in linked : /\ Overlaps(c.links, Old(i).links)
                                   /\ \A j \in linked : ~Closer(c.links, Old(j).links, Old(i).links)}
    IN  IF named # {} THEN previous[Min(named)]
        ELSE IF closest # {} THEN previous[Min(closest)]
        ELSE None

\* Slip: a theory may be continued twice.
MatchesTwice(answer, previous) ==
    [i \in DOMAIN answer |-> Continues(answer[i], previous, {})]

\* For each candidate in turn the theory it continues, or None.
Matches(answer, previous) ==
    CHOOSE match \in [DOMAIN answer -> ToSet(previous) \cup {None}] :
      \A i \in DOMAIN answer :
        LET taken == {match[j] : j \in 1..(i - 1)} \ {None}
        IN  match[i] = Continues(answer[i], previous, {theories[t].key : t \in taken})

\* A match with a comparable case: the case, which way round the theory predicts
\* it, and the comparison as it was when they were matched.
NoMatch == [case |-> None, polarity |-> None, delta |-> None]
OnRecord(case) == case = None \/ case \in {cases.round} \X (DOMAIN cases.rates)

NextRevision == IF revisions = <<>> THEN 1 ELSE 1 + Max({revisions[i] : i \in DOMAIN revisions})
Keys == {theories[t].key : t \in DOMAIN theories}

Persisted(c, key, version) ==
    [key |-> key, version |-> version, links |-> c.links, option |-> c.option,
     effect |-> c.effect, revision |-> NextRevision, current |-> TRUE, stale |-> FALSE,
     superseded |-> FALSE, successor |-> None, load |-> 0, contested |-> FALSE,
     match |-> NoMatch]

AskGenerate(s) ==
    /\ "generate" \in budget.ops
    /\ work[s] = Idle
    /\ \E order \in SetToSeqs(Current) :
         work' = [work EXCEPT ![s] = [Idle EXCEPT !.op = "generate", !.of = order,
                                        !.on = [t \in Current |-> theories[t].match]]]
    /\ UNCHANGED <<theories, revisions, objections, tripwires, debates, experiments,
                   hypotheses, recommendation, beliefs, time>>

\* Slip: no tripwire goes over.
CarriedNone(w, heir) == w

\* A tripwire that waits goes over to the next version of its theory.
Carried(w, heir) == IF w.status = "pending" THEN [w EXCEPT !.theory = heir] ELSE w

\* The i-th candidate becomes row Row(i): the next version of what it
\* continues, or the first of a line of its own.
Row(i) == Len(theories) + i
KeyOf(match, i) == IF match[i] = None THEN Row(i) ELSE theories[match[i]].key
VersionOf(match, i) == IF match[i] = None THEN 1 ELSE theories[match[i]].version + 1

Heirs(match, t) == {i \in DOMAIN match : KeyOf(match, i) = theories[t].key}
Retired(match, t) ==
    LET heirs == Heirs(match, t)
    IN  [theories[t] EXCEPT
           !.current = FALSE,
           !.superseded = @ \/ heirs = {},
           !.successor = IF heirs = {} THEN @ ELSE Row(CHOOSE i \in heirs : TRUE)]
Heir(match, t) ==
    IF t \in ToSet(match) THEN Row(CHOOSE i \in DOMAIN match : match[i] = t) ELSE t

\* A match is taken over as it was read; one whose case was deleted meanwhile
\* breaks the commit.
Generate(s) ==
    /\ Answered(s, "generate")
    /\ \E answer \in Answers :
         LET previous == work[s].of
             match == Matches(answer, previous)
             Taken(i) == IF match[i] = None THEN NoMatch ELSE work[s].on[match[i]]
         IN  /\ \A i \in DOMAIN answer : OnRecord(Taken(i).case)
             /\ theories' =
                  [t \in DOMAIN theories |->
                     IF t \in ToSet(previous) THEN Retired(match, t) ELSE theories[t]]
                  \o [i \in DOMAIN answer |->
                        [Persisted(answer[i], KeyOf(match, i), VersionOf(match, i))
                           EXCEPT !.match = Taken(i)]]
             /\ tripwires' = {Carried(w, Heir(match, w.theory)) : w \in tripwires}
             /\ experiments' = [e \in DOMAIN experiments |->
                  [experiments[e] EXCEPT !.theory =
                     IF experiments[e].kind = "field" THEN Heir(match, @) ELSE @]]
             /\ revisions' = Append(revisions, NextRevision)
    /\ UNCHANGED <<objections, debates, recommendation, evidence>>

\* A change to the graph makes everything derived from it stale.
MarkStale ==
    /\ "edit" \in budget.ops
    /\ \/ \E t \in Current : ~theories[t].stale
       \/ \E d \in DOMAIN debates : ~debates[d].stale
    /\ theories' = [t \in DOMAIN theories |->
                      [theories[t] EXCEPT !.stale = @ \/ theories[t].current]]
    /\ debates' = [d \in DOMAIN debates |-> [debates[d] EXCEPT !.stale = TRUE]]
    /\ UNCHANGED <<revisions, objections, tripwires, experiments, recommendation, evidence, work>>

-----------------------------------------------------------------------------
(* Objections.  A load is the mean severity of the objections that stand,  *)
(* in twelfths of a percent, which keeps the mean of up to four exact.     *)

MeanSeverity(rows) ==
    IF rows = {} THEN 0
    ELSE (12 * FoldSet(LAMBDA o, sum : o.severity + sum, 0, rows)) \div Cardinality(rows)
Against(rows, t) == {o \in rows : o.theory = t}
ObjectionLoad(rows, t) == MeanSeverity({o \in Against(rows, t) : ~o.dismissed})
Contested(load) == load >= 12 * 45

Written(column, seen, new) == IF new = seen THEN column ELSE new
Rescored(row, seen, load) ==
    [row EXCEPT !.load = Written(@, seen.load, load),
                !.contested = Written(@, seen.contested, Contested(load))]

AskChallenge(s) ==
    /\ Ask(s, "challenge", None)
    /\ UNCHANGED <<theories, revisions, objections, tripwires, debates, experiments,
                   hypotheses, recommendation, beliefs, time>>

Objection(t, number, severity) ==
    [theory |-> t, number |-> number, severity |-> severity, dismissed |-> FALSE]

\* Each theory that was answered has its objections replaced; one whose
\* attack failed keeps them.
Challenge(s) ==
    /\ Answered(s, "challenge")
    /\ \E raised \in [ToSet(work[s].of) -> Raised \cup {None}] :
         LET told == {t \in DOMAIN raised : raised[t] # None}
             New(t) == {Objection(t, i, raised[t][i]) : i \in DOMAIN raised[t]}
         IN  /\ objections' = {o \in objections : o.theory \notin told} \cup UNION {New(t) : t \in told}
             /\ theories' = [t \in DOMAIN theories |->
                  IF t \in told
                    THEN Rescored(theories[t], work[s].seen[t], ObjectionLoad(New(t), t))
                    ELSE theories[t]]
    /\ UNCHANGED <<revisions, tripwires, debates, experiments, recommendation, evidence>>

\* Slip: the load is not computed again.
DismissOnly(o) ==
    /\ objections' = (objections \ {o}) \cup {[o EXCEPT !.dismissed = TRUE]}
    /\ UNCHANGED <<theories, revisions, tripwires, debates, experiments, recommendation, evidence, work>>

Dismiss(o) ==
    /\ objections' = (objections \ {o}) \cup {[o EXCEPT !.dismissed = TRUE]}
    /\ theories' = [theories EXCEPT ![o.theory] = Rescored(@, @, ObjectionLoad(objections', o.theory))]
    /\ UNCHANGED <<revisions, tripwires, debates, experiments, recommendation, evidence, work>>

-----------------------------------------------------------------------------
(* Tripwires *)

Pending(id, t, direction, asked) ==
    [id |-> id, theory |-> t, direction |-> direction, level |-> "moderate",
     status |-> "pending", asked |-> asked, last |-> None]

AskTripwires(s) ==
    /\ Ask(s, "tripwires", None)
    /\ UNCHANGED <<theories, revisions, objections, tripwires, debates, experiments,
                   hypotheses, recommendation, beliefs, time>>

\* Each theory that was answered has its pending tripwires replaced.
Unreplaced(proposed) ==
    {w \in tripwires : ~(/\ w.theory \in DOMAIN proposed
                         /\ proposed[w.theory] # None
                         /\ w.status = "pending")}
Proposals(proposed) ==
    {p \in (DOMAIN proposed) \X {"falsifies", "confirms"} :
       proposed[p[1]] # None /\ p[2] \in proposed[p[1]]}

GenerateTripwires(s) ==
    /\ Answered(s, "tripwires")
    /\ \E proposed \in [ToSet(work[s].of) -> Directions \cup {None}] :
         LET kept == Unreplaced(proposed)
             list == SetToSeq(Proposals(proposed))
         IN  tripwires' = kept \cup {Pending(LastId(kept) + i, list[i][1], list[i][2], None) : i \in DOMAIN list}
    /\ UNCHANGED <<theories, revisions, objections, debates, experiments, recommendation, evidence>>

\* What was answered last about an observation, and when.
Said(what, weight, event) == [what |-> what, at |-> time + 1, given |-> weight, event |-> event]
Weighed(given, default) == IF given = None THEN default ELSE given

Observe(w, observed, given, event) ==
    LET status == IF observed THEN "observed" ELSE "not_observed"
        against == observed = (w.direction = "falsifies")
        key == theories[w.theory].key
    IN  /\ Tick
        /\ tripwires' = (tripwires \ {w}) \cup {[w EXCEPT !.status = status, !.last = Said(status, given, event)]}
        /\ beliefs' = WithEvidence(beliefs,
             Evidence(key, Weighed(given, TripwireWeight(w.direction, observed, w.level)),
                      "tripwire", w.id, event, time'))
        /\ theories' = [theories EXCEPT ![w.theory].stale = @ \/ against]
        /\ UNCHANGED <<revisions, objections, debates, experiments, hypotheses, recommendation, work>>

SetDecisiveness(w, level) ==
    /\ w.status = "pending"
    /\ tripwires' = (tripwires \ {w}) \cup {[w EXCEPT !.level = level]}
    /\ UNCHANGED <<theories, revisions, objections, debates, experiments, recommendation, evidence, work>>

-----------------------------------------------------------------------------
(* Debates *)

Relation(a, b) ==
    LET shared == Cardinality(theories[a].links \cap theories[b].links)
        all == Cardinality(theories[a].links \cup theories[b].links)
    IN  IF all = 0 \/ 5 * shared <= all THEN "orthogonal"
        ELSE IF 10 * shared >= 7 * all THEN "same_story"
        ELSE "competing"

\* The leading four, each pair once.
SelectPairs(ranked) ==
    {<<ranked[p[1]], ranked[p[2]]>> : p \in
        {p \in (DOMAIN ranked) \X (DOMAIN ranked) : p[1] < p[2] /\ p[2] <= 4}}

AskDebates(s) ==
    /\ Cardinality(Current) >= 2
    /\ Ask(s, "debates", {d \in DOMAIN debates : ~debates[d].stale})
    /\ UNCHANGED <<theories, revisions, objections, tripwires, debates, experiments,
                   hypotheses, recommendation, beliefs, time>>

Compared(pairs, decided) ==
    {[a |-> p[1], b |-> p[2], discriminator |-> p \in decided, stale |-> FALSE,
      promoted |-> FALSE] : p \in pairs}

RunDebates(s) ==
    /\ Answered(s, "debates")
    /\ LET pairs == SelectPairs(work[s].of)
           asked == {p \in pairs : Relation(p[1], p[2]) # "same_story"}
       IN  \E decided \in SUBSET asked :
             debates' =
                  [d \in DOMAIN debates |->
                     [debates[d] EXCEPT !.stale = @ \/ d \in work[s].on]]
                  \o SetToSeq(Compared(pairs, decided))
    /\ UNCHANGED <<theories, revisions, objections, tripwires, experiments, recommendation, evidence>>

\* The discriminator becomes a tripwire of both theories, once.
Promote(d) ==
    /\ debates[d].discriminator
    /\ ~debates[d].promoted
    /\ LET id == LastId(tripwires)
       IN  tripwires' = tripwires \cup {Pending(id + 1, debates[d].a, "falsifies", d),
                                        Pending(id + 2, debates[d].b, "falsifies", d)}
    /\ debates' = [debates EXCEPT ![d].promoted = TRUE]
    /\ UNCHANGED <<theories, revisions, objections, experiments, recommendation, evidence, work>>

-----------------------------------------------------------------------------
(* Experiments *)

Experiment(t, kind, status) ==
    [theory |-> t, kind |-> kind, status |-> status, designed |-> status # "abandoned",
     support |-> FALSE, oppose |-> FALSE, neutral |-> FALSE, last |-> None]

\* A design reads its theory and adds a row; the theory is one the panel
\* lists.  A field test for which nothing feasible is found is abandoned.
Design(t, kind) ==
    /\ \E status \in IF kind = "field" THEN {"designed", "abandoned"} ELSE {"designed"} :
         experiments' = Append(experiments, Experiment(t, kind, status))
    /\ UNCHANGED <<theories, revisions, objections, tripwires, debates, recommendation, evidence, work>>

SimulatedSeverity == 35

AskReactions(s, e) ==
    /\ "execute" \in budget.ops
    /\ experiments[e].kind = "synthetic"
    /\ work[s] = Idle
    /\ LET t == experiments[e].theory
       IN  work' = [work EXCEPT ![s] =
             [op |-> "execute", of |-> <<t>>, on |-> e,
              seen |-> [u \in {t} |-> [load |-> theories[u].load, contested |-> theories[u].contested]]]]
    /\ UNCHANGED <<theories, revisions, objections, tripwires, debates, experiments,
                   hypotheses, recommendation, beliefs, time>>

\* The room reacts: results are replaced, objections join those of the
\* theory, whose load is computed again only if there were any.
Execute(s) ==
    /\ Answered(s, "execute")
    /\ LET e == work[s].on
           t == work[s].of[1]
           number == Cardinality(Against(objections, t)) + 1
       IN  \E promoted \in 0..1, support, oppose \in BOOLEAN :
             /\ promoted > 0 => oppose
             /\ experiments' = [experiments EXCEPT
                  ![e].status = "executed", ![e].support = support, ![e].oppose = oppose]
             /\ objections' = objections \cup {Objection(t, number, SimulatedSeverity) : i \in 1..promoted}
             /\ theories' = IF promoted = 0 THEN theories
                            ELSE [theories EXCEPT ![t] =
                                    Rescored(@, work[s].seen[t], ObjectionLoad(objections', t))]
    /\ UNCHANGED <<revisions, tripwires, debates, recommendation, evidence>>

\* What a real test found.  The field of the result is set; one that an
\* earlier result set stays.
RecordField(e, result, given, event) ==
    /\ experiments[e].kind = "field"
    /\ Tick
    /\ experiments' = [experiments EXCEPT
         ![e].status = "executed", ![e].last = Said(result, given, event),
         ![e].support = @ \/ result = "supports",
         ![e].oppose = @ \/ result = "refutes",
         ![e].neutral = @ \/ result = "inconclusive"]
    /\ beliefs' = WithEvidence(beliefs,
         Evidence(theories[experiments[e].theory].key, Weighed(given, FieldWeight[result]),
                  "field_experiment", e, event, time'))
    /\ UNCHANGED <<theories, revisions, objections, tripwires, debates, hypotheses, recommendation, work>>

-----------------------------------------------------------------------------
(* The links of a theory, tested one by one *)

AskHypotheses(s, t) ==
    /\ "hypotheses" \in budget.ops
    /\ theories[t].links # {}
    /\ work[s] = Idle
    /\ work' = [work EXCEPT ![s] = [Idle EXCEPT !.op = "hypotheses", !.of = <<t>>]]
    /\ UNCHANGED <<theories, revisions, objections, tripwires, debates, experiments,
                   hypotheses, recommendation, beliefs, time>>

MaxLinks == 3

\* Those of the theory that are still open are replaced; results stay. At most
\* MaxLinks links are ranked and asked about. An answer may make several
\* hypotheses of one; a bound of the model: no more in all than links are ranked.
ProposeHypotheses(s) ==
    /\ Answered(s, "hypotheses")
    /\ LET t == work[s].of[1]
           kept == {h \in hypotheses : ~(h.key = theories[t].key /\ h.status = "open")}
       IN  \E n \in 0..MaxLinks : \E links \in [1..n -> theories[t].links] :
             hypotheses' = kept \cup
               {[id |-> LastId(kept) + i, key |-> theories[t].key, link |-> links[i],
                 level |-> "moderate", status |-> "open", last |-> None] : i \in 1..n}
    /\ UNCHANGED <<theories, revisions, objections, tripwires, debates, experiments,
                   recommendation, beliefs, time>>

\* A refuted link makes the version of the theory that is current stale.
RecordLink(h, result, given, event) ==
    /\ Tick
    /\ hypotheses' = (hypotheses \ {h}) \cup {[h EXCEPT !.status = result, !.last = Said(result, given, event)]}
    /\ beliefs' = WithEvidence(beliefs,
         Evidence(h.key, Weighed(given, LinkWeight(result, h.level)),
                  "link_hypothesis", h.id, event, time'))
    /\ LET judged == {t \in Current : theories[t].key = h.key}
       IN  IF result = "refuted" /\ judged # {}
             THEN \E t \in judged : theories' = [theories EXCEPT ![t].stale = TRUE]
             ELSE UNCHANGED theories
    /\ UNCHANGED <<revisions, objections, tripwires, debates, experiments, recommendation, work>>

SetLinkDecisiveness(h, level) ==
    /\ h.status = "open"
    /\ hypotheses' = (hypotheses \ {h}) \cup {[h EXCEPT !.level = level]}
    /\ UNCHANGED <<theories, revisions, objections, tripwires, debates, experiments,
                   recommendation, beliefs, time, work>>

StatePrior(key, value) ==
    /\ Tick
    /\ beliefs' = Append(beliefs, Prior(key, value, time'))
    /\ UNCHANGED <<theories, revisions, objections, tripwires, debates, experiments,
                   hypotheses, recommendation, work>>

-----------------------------------------------------------------------------
(* The outside view: how often what a theory predicts happened in the cases *)
(* the decider recalls                                                      *)

\* By what decides it: the belief in the theory (None: the model's own
\* confidence stands in), which way round, and how often it happened.
Comparison(t, polarity, rate) ==
    [belief |-> Replay(beliefs, theories[t].key), polarity |-> polarity, rate |-> rate]
CurrentComparison(t) ==
    LET m == theories[t].match
    IN  IF m.case = None THEN m.delta ELSE Comparison(t, m.polarity, cases.rates[m.case[2]])

\* A theory keeps what its match with a deleted case came to.
WithoutCases == [t \in DOMAIN theories |-> [theories[t] EXCEPT !.match.case = None]]

AskRecollection ==
    /\ "outside" \in budget.ops
    /\ recall = Idle
    /\ recall' = [Idle EXCEPT !.op = "read"]
    /\ UNCHANGED <<theories, cases>>

ClearRecollection ==
    /\ "outside" \in budget.ops
    /\ cases.rates # <<>>
    /\ cases' = [cases EXCEPT !.rates = <<>>]
    /\ theories' = WithoutCases
    /\ UNCHANGED recall

\* What there is to match, if anything: the cases and the current theories.
Matching(found, rows) ==
    IF found.rates = <<>> \/ Current = {} THEN Idle
    ELSE [op |-> "match", of |-> SetToSeq(Current), on |-> found,
          seen |-> [t \in Current |-> rows[t].match]]

\* The cases read before are replaced, and the theories matched anew.
ReadRecollection ==
    /\ recall.op = "read"
    /\ \E rates \in Recollections : cases' = [round |-> cases.round + 1, rates |-> rates]
    /\ theories' = WithoutCases
    /\ recall' = Matching(cases', theories')

\* After a generation, too.
AskMatching ==
    /\ "outside" \in budget.ops
    /\ recall = Idle
    /\ recall' = Matching(cases, theories)
    /\ UNCHANGED <<theories, cases>>

WrittenMatch(row, seen, new) ==
    [column \in DOMAIN row |-> Written(row[column], seen[column], new[column])]

\* The match of a theory with the case that was chosen for it, if one was.
MatchOf(t, chosen) ==
    IF chosen = None THEN NoMatch
    ELSE [case |-> <<recall.on.round, chosen[1]>>, polarity |-> chosen[2],
          delta |-> Comparison(t, chosen[2], recall.on.rates[chosen[1]])]

MatchCases ==
    /\ recall.op = "match"
    /\ \E matched \in [ToSet(recall.of) ->
                       {None} \cup ((DOMAIN recall.on.rates) \X Polarities)] :
         /\ \A t \in DOMAIN matched :
              LET new == MatchOf(t, matched[t])
              IN  new.case = recall.seen[t].case \/ OnRecord(new.case)
         /\ theories' = [t \in DOMAIN theories |->
              IF t \in DOMAIN matched
                THEN [theories[t] EXCEPT !.match = WrittenMatch(@, recall.seen[t], MatchOf(t, matched[t]))]
                ELSE theories[t]]
    /\ recall' = Idle
    /\ UNCHANGED cases

FailRecollection ==
    /\ recall # Idle
    /\ recall' = Idle
    /\ UNCHANGED <<theories, cases>>

-----------------------------------------------------------------------------
(* One recommendation, from all the current theories *)

AskRecommendation(s) ==
    /\ Ask(s, "recommend", None)
    /\ UNCHANGED <<theories, revisions, objections, tripwires, debates, experiments,
                   hypotheses, recommendation, beliefs, time>>

Recommend(s) ==
    /\ Answered(s, "recommend")
    /\ recommendation' = ToSet(work[s].of)
    /\ UNCHANGED <<theories, revisions, objections, tripwires, debates, experiments, evidence>>

RecommendationStale == recommendation # None /\ recommendation # Current

-----------------------------------------------------------------------------
(* The requests, as the routers group them *)

TheoryRequests(s) == AskGenerate(s) \/ Generate(s)

AdversaryRequests ==
    \/ \E s \in Sessions : AskChallenge(s) \/ Challenge(s) \/ AskTripwires(s) \/ GenerateTripwires(s)
    \/ \E w \in tripwires : \/ \E observed \in BOOLEAN, given \in Given, event \in Events :
                                 Observe(w, observed, given, event)
                            \/ \E level \in Levels : SetDecisiveness(w, level)
    \/ \E o \in objections : Dismiss(o)

ExperimentRequests ==
    \/ \E t \in Current, kind \in {"synthetic", "field"} : Design(t, kind)
    \/ \E s \in Sessions : Execute(s) \/ \E e \in DOMAIN experiments : AskReactions(s, e)

DebateRequests ==
    \/ \E s \in Sessions : AskDebates(s) \/ RunDebates(s)
    \/ \E d \in DOMAIN debates : Promote(d)

RecommendationRequests(s) == AskRecommendation(s) \/ Recommend(s)

ConvictionRequests == \E key \in Keys, value \in Priors : StatePrior(key, value)

ResultRequests ==
    \/ \E s \in Sessions : ProposeHypotheses(s) \/ \E t \in Current : AskHypotheses(s, t)
    \/ \E given \in Given, event \in Events :
        \/ \E h \in hypotheses, result \in {"held", "refuted", "inconclusive"} :
             RecordLink(h, result, given, event)
        \/ \E e \in DOMAIN experiments, result \in DOMAIN FieldWeight :
             RecordField(e, result, given, event)
    \/ \E h \in hypotheses, level \in Levels : SetLinkDecisiveness(h, level)

OutsideRequests ==
    /\ \/ AskRecollection \/ ClearRecollection \/ ReadRecollection
       \/ AskMatching \/ MatchCases \/ FailRecollection
    /\ UNCHANGED <<revisions, objections, tripwires, debates, experiments, hypotheses,
                   recommendation, beliefs, time, work>>

Requests ==
    \/ MarkStale
    \/ AdversaryRequests
    \/ ExperimentRequests
    \/ DebateRequests
    \/ ConvictionRequests
    \/ ResultRequests
    \/ \E s \in Sessions : TheoryRequests(s) \/ RecommendationRequests(s) \/ Fail(s)

Next ==
    /\ \/ Requests /\ UNCHANGED outside
       \/ OutsideRequests
    /\ Room
    /\ UNCHANGED budget

Spec == Init /\ [][Next]_vars

-----------------------------------------------------------------------------
(* Properties *)

\* What every row and every number may be.
TypeOK ==
    /\ \A t \in DOMAIN theories :
         /\ theories[t].version \in Nat \ {0}
         /\ theories[t].successor \in {None} \cup DOMAIN theories
         /\ theories[t].load \in 0..1200
    /\ \A o \in objections : o.theory \in DOMAIN theories
    /\ \A w \in tripwires : w.theory \in DOMAIN theories
    /\ \A d \in DOMAIN debates : {debates[d].a, debates[d].b} \subseteq DOMAIN theories
    /\ \A e \in DOMAIN experiments : experiments[e].theory \in DOMAIN theories
    /\ \A i \in DOMAIN beliefs : beliefs[i].key \in Keys
    /\ recommendation = None \/ recommendation \subseteq DOMAIN theories
    /\ \A t \in DOMAIN theories : OnRecord(theories[t].match.case)

\* The versions of a theory are a line: numbered 1, 2, ... in the order they
\* were written, each followed by its successor, and only the last of them may
\* be current or dropped (theories.py:474-545).
Lineage ==
    \A k \in Keys :
      LET line == InOrder({t \in DOMAIN theories : theories[t].key = k})
      IN  \A v \in DOMAIN line :
            LET t == theories[line[v]]
            IN  /\ t.version = v
                /\ IF v < Len(line)
                     THEN ~t.current /\ ~t.superseded /\ t.successor = line[v + 1]
                     ELSE t.current # t.superseded /\ t.successor = None

\* What the decider committed to follows the theory: no tripwire that waits,
\* and no field test, is left on a version that has a successor, unless it was
\* put there by promoting a debate about that version (theories.py:504-525).
CommitmentsFollow ==
    /\ \A w \in tripwires :
         w.status = "pending" /\ theories[w.theory].successor # None => w.asked # None
    /\ \A e \in DOMAIN experiments :
         experiments[e].kind = "field" => theories[experiments[e].theory].successor = None

\* An observation that was reported is kept as it was: with the version it
\* judged, in the direction and with the decisiveness it was awaited with.  It
\* may be corrected; it is never awaited again and never deleted
\* (theories.py:504-507, adversary.py:329-338, 460-461).
AnswersStand ==
    \A w \in tripwires : w.status # "pending" =>
      \E x \in tripwires' : /\ x.id = w.id
                            /\ x.status # "pending"
                            /\ x.theory = w.theory
                            /\ x.direction = w.direction
                            /\ x.level = w.level

\* A new version takes over what is still open of the one before it, and nothing
\* that was answered (theories.py:504-525).
SuccessionIsFair == [][CommitmentsFollow' /\ AnswersStand]_vars

Consistent(t) ==
    /\ theories[t].load = ObjectionLoad(objections, t)
    /\ theories[t].contested = Contested(theories[t].load)
Outdated(t) ==
    \E s \in Sessions :
      /\ t \in DOMAIN work[s].seen
      /\ work[s].seen[t] # [load |-> theories[t].load, contested |-> theories[t].contested]

\* What a theory is discounted by is what stands against it, through every
\* attack, simulation and dismissal, unless an answer is written over a copy
\* of the theory that a dismissal has outdated (adversary.py:201-237,
\* experiments.py:291-326, reasoning.py:884-895).
LoadFollowsObjections ==
    [][\A t \in DOMAIN theories : Consistent(t) /\ ~Outdated(t) => Consistent(t)']_vars

\* The evidence about a theory that its answered tests are: what the answer was
\* worth, within bounds, when it was given and for which event.
Answer(key, source, id, weight, last) ==
    Evidence(key, Weighed(last.given, weight), source, id, last.event, last.at)
Observed(key) ==
    {Answer(key, "tripwire", w.id, TripwireWeight(w.direction, w.status = "observed", w.level), w.last)
        : w \in {w \in tripwires : w.last # None /\ theories[w.theory].key = key}}
    \cup
    {Answer(key, "field_experiment", e, FieldWeight[experiments[e].last.what], experiments[e].last)
        : e \in {e \in DOMAIN experiments : /\ experiments[e].last # None
                                           /\ theories[experiments[e].theory].key = key}}
    \cup
    {Answer(key, "link_hypothesis", h.id, LinkWeight(h.status, h.level), h.last)
        : h \in {h \in hypotheses : h.last # None /\ h.key = key}}

\* Every observation that was answered is one row of evidence, of the theory it
\* was about, worth what the answer that stands is worth at the decisiveness
\* that was stated before it; there is no other row (adversary.py:408-422,
\* experiments.py:463-471, link_tests.py:279-290, theory_value.py:330-353).
EvidenceIsWhatWasObserved ==
    \A key \in Keys :
      LET rows == Of(beliefs, key, "evidence")
      IN  ToSet(rows) = Observed(key) /\ Len(rows) = Cardinality(Observed(key))

\* The sum of a function of the places of a list over some of them.
SumOver(places, value, n) ==
    LET sum[i \in 0..n] ==
          IF i = 0 THEN 0 ELSE sum[i - 1] + (IF i \in places THEN value[i] ELSE 0)
    IN  sum[n]

\* The places of the reports of an event, and of the earliest of the strongest.
Sizes(rows) == [i \in DOMAIN rows |-> Abs(rows[i].weight)]
Reported(rows, event) == {i \in DOMAIN rows : rows[i].event = event}
Strongest(rows, event) ==
    {i \in Reported(rows, event) :
       Sizes(rows)[i] = Max({Sizes(rows)[j] : j \in Reported(rows, event)})}
Earliest(rows, event) ==
    CHOOSE i \in Strongest(rows, event) : \A j \in Strongest(rows, event) : rows[i].at <= rows[j].at

\* The reports that move a prior: of each event that nothing was known of before
\* it the strongest, and every later one that names no event.
Moving(rows, prior) ==
    LET fresh == {i \in DOMAIN rows : rows[i].at > prior.at}
        events == {e \in {rows[i].event : i \in DOMAIN rows} \ {None} : Reported(rows, e) \subseteq fresh}
    IN  {i \in fresh : rows[i].event = None} \cup {Earliest(rows, e) : e \in events}

\* The conviction is the latest prior plus what moves it, as long as no bound is
\* met (theory_value.py:170-237).
ConvictionIsBayes ==
    \A key \in Keys :
      LET prior == LatestPrior(beliefs, key)
          rows == Of(beliefs, key, "evidence")
          moving == Moving(rows, prior)
          weights == [i \in DOMAIN rows |-> rows[i].weight]
      IN  prior # None =>
            \/ Abs(prior.weight) + SumOver(moving, Sizes(rows), Len(rows)) > MaxConviction
            \/ Replay(beliefs, key) = prior.weight + SumOver(moving, weights, Len(rows))

\* A conviction is what was stated, moved by what was observed as it stands now,
\* and by nothing else (theory_value.py:162-355).
ConvictionIsEarned == EvidenceIsWhatWasObserved /\ ConvictionIsBayes

=============================================================================
