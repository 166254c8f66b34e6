--------------------------- MODULE TheoriesProofs ---------------------------
(***************************************************************************)
(* What holds of a project's theories, whatever the answers, the budgets   *)
(* and the beliefs: the line the versions of a theory form, what goes over *)
(* to the next version, what a theory is discounted by, and what a         *)
(* conviction comes to.                                                    *)
(***************************************************************************)
EXTENDS TheoryViews, IndicesProofs

\* At most one request waits for a model.
SingleSession == \A a, b \in Sessions : a = b

-----------------------------------------------------------------------------
(* Steps, by the rows they write *)

\* A request that asks, fails, or writes rows of no theory.
Aside(s) ==
    \/ AskGenerate(s) \/ AskChallenge(s) \/ AskTripwires(s) \/ AskDebates(s)
    \/ AskRecommendation(s) \/ Recommend(s) \/ ProposeHypotheses(s) \/ Fail(s)
    \/ \E e \in DOMAIN experiments : AskReactions(s, e)
    \/ \E t \in Current : AskHypotheses(s, t)

Writes(s) ==
    \/ Generate(s) \/ Challenge(s) \/ GenerateTripwires(s) \/ RunDebates(s) \/ Execute(s)

\* A request that asks no model and writes an observation.
Observes(w) ==
    \E observed \in BOOLEAN, given \in Given, event \in Events : Observe(w, observed, given, event)
Records(e) ==
    \E given \in Given, event \in Events, result \in DOMAIN FieldWeight :
       RecordField(e, result, given, event)
Links(h) ==
    \E given \in Given, event \in Events, result \in {"held", "refuted", "inconclusive"} :
       RecordLink(h, result, given, event)
Believes ==
    \/ \E key \in Keys, value \in Priors : StatePrior(key, value)
    \/ \E h \in hypotheses, level \in Levels : SetLinkDecisiveness(h, level)

Steps ==
    \/ \E s \in Sessions : Aside(s) \/ Writes(s)
    \/ MarkStale
    \/ \E w \in tripwires : Observes(w) \/ \E level \in Levels : SetDecisiveness(w, level)
    \/ \E o \in objections : Dismiss(o)
    \/ \E t \in Current, kind \in {"synthetic", "field"} : Design(t, kind)
    \/ \E d \in DOMAIN debates : Promote(d)
    \/ \E e \in DOMAIN experiments : Records(e)
    \/ \E h \in hypotheses : Links(h)
    \/ Believes
    \/ OutsideRequests

\* Every step is one of them.
LEMMA EveryStep ==
    ASSUME Next
    PROVE  Steps
  <1>1. CASE OutsideRequests
    BY <1>1 DEF Steps
  <1>2. CASE MarkStale
    BY <1>2 DEF Steps
  <1>3. CASE AdversaryRequests
    BY <1>3 DEF Steps, AdversaryRequests, Aside, Writes, Observes
  <1>4. CASE ExperimentRequests
    BY <1>4 DEF Steps, ExperimentRequests, Aside, Writes
  <1>5. CASE DebateRequests
    BY <1>5 DEF Steps, DebateRequests, Aside, Writes
  <1>6. CASE ConvictionRequests
    BY <1>6 DEF Steps, ConvictionRequests, Believes
  <1>7. CASE ResultRequests
    <2>1. CASE \E s \in Sessions : ProposeHypotheses(s) \/ \E t \in Current : AskHypotheses(s, t)
      BY <2>1 DEF Steps, Aside
    <2>2. CASE \E given \in Given, event \in Events :
                 \E h \in hypotheses, result \in {"held", "refuted", "inconclusive"} :
                    RecordLink(h, result, given, event)
      BY <2>2 DEF Steps, Links
    <2>3. CASE \E given \in Given, event \in Events :
                 \E e \in DOMAIN experiments, result \in DOMAIN FieldWeight :
                    RecordField(e, result, given, event)
      BY <2>3 DEF Steps, Records
    <2>4. CASE \E h \in hypotheses, level \in Levels : SetLinkDecisiveness(h, level)
      BY <2>4 DEF Steps, Believes
    <2>5. QED
      BY <1>7, <2>1, <2>2, <2>3, <2>4 DEF ResultRequests
  <1>8. CASE \E s \in Sessions : TheoryRequests(s) \/ RecommendationRequests(s) \/ Fail(s)
    BY <1>8 DEF Steps, TheoryRequests, RecommendationRequests, Aside, Writes
  <1>9. QED
    BY <1>1, <1>2, <1>3, <1>4, <1>5, <1>6, <1>7, <1>8 DEF Next, Requests

-----------------------------------------------------------------------------
(* Shapes of the rows, and the theories they are about *)

IsList(f) == \E n \in Nat : f = [i \in 1..n |-> f[i]]

TheoryColumns ==
    {"key", "version", "current", "superseded", "successor", "load", "contested", "match", "stale"}
ObjectionColumns == {"theory", "dismissed"}
TripwireColumns == {"id", "theory", "direction", "level", "status", "asked", "last"}
DebateColumns == {"a", "b", "discriminator", "stale", "promoted"}
ExperimentColumns == {"theory", "kind", "status", "support", "oppose", "neutral", "last"}

Shapes ==
    /\ IsList(theories) /\ IsList(debates) /\ IsList(experiments)
    /\ \A t \in DOMAIN theories : TheoryColumns \subseteq DOMAIN theories[t]
    /\ \A o \in objections : ObjectionColumns \subseteq DOMAIN o
    /\ \A w \in tripwires : TripwireColumns \subseteq DOMAIN w /\ w.theory \in DOMAIN theories
    /\ \A d \in DOMAIN debates : /\ DebateColumns \subseteq DOMAIN debates[d]
                                 /\ {debates[d].a, debates[d].b} \subseteq DOMAIN theories
    /\ \A e \in DOMAIN experiments : /\ ExperimentColumns \subseteq DOMAIN experiments[e]
                                     /\ experiments[e].theory \in DOMAIN theories

\* The rows of theories stay what they are, but for what they are discounted
\* by, what they were matched with and whether they are stale.
SameRow(row, old) ==
    /\ DOMAIN row = DOMAIN old
    /\ row.key = old.key /\ row.version = old.version
    /\ row.current = old.current /\ row.superseded = old.superseded
    /\ row.successor = old.successor
SameRows ==
    /\ IsList(theories')
    /\ DOMAIN theories' = DOMAIN theories
    /\ \A t \in DOMAIN theories : SameRow(theories'[t], theories[t])
SameLoad(row, old) == row.load = old.load /\ row.contested = old.contested
SameLoads ==
    /\ objections' = objections
    /\ \A t \in DOMAIN theories : SameLoad(theories'[t], theories[t])

\* A table rewritten row by row is one still.
LEMMA Rewritten ==
    ASSUME NEW table, IsList(table), NEW next, next = [i \in DOMAIN table |-> next[i]]
    PROVE  IsList(next) /\ DOMAIN next = DOMAIN table
  <1>1. PICK n \in Nat : table = [i \in 1..n |-> table[i]]
    BY DEF IsList
  <1>2. DOMAIN table = 1..n
    BY <1>1
  <1>3. next = [i \in 1..n |-> next[i]]
    BY <1>2
  <1>4. DOMAIN next = DOMAIN table
    BY <1>2, <1>3
  <1>5. QED
    BY <1>3, <1>4 DEF IsList

\* What each step does to the rows of theories.
LEMMA TheoryEffects ==
    ASSUME Shapes, Steps, ~\E s \in Sessions : Generate(s)
    PROVE  /\ SameRows
           /\ \/ SameLoads
              \/ \E s \in Sessions : Challenge(s) \/ Execute(s)
              \/ \E o \in objections : Dismiss(o)
  <1>0. /\ IsList(theories)
        /\ \A t \in DOMAIN theories : TheoryColumns \subseteq DOMAIN theories[t]
    BY DEF Shapes
  <1>1. CASE UNCHANGED <<theories, objections>>
    BY <1>0, <1>1 DEF SameRows, SameRow, SameLoads, SameLoad
  <1>2. ASSUME NEW s \in Sessions, Aside(s) PROVE UNCHANGED <<theories, objections>>
    BY <1>2 DEF Aside, AskGenerate, AskChallenge, AskTripwires, AskDebates, AskRecommendation,
         Recommend, ProposeHypotheses, Fail, AskReactions, AskHypotheses
  <1>3. ASSUME NEW t, theories' = [theories EXCEPT ![t].stale = theories'[t].stale],
               objections' = objections
        PROVE  SameRows /\ SameLoads
    <2>1. theories' = [u \in DOMAIN theories |-> theories'[u]] /\ DOMAIN theories' = DOMAIN theories
      BY <1>3
    <2>2. \A u \in DOMAIN theories : SameRow(theories'[u], theories[u]) /\ SameLoad(theories'[u], theories[u])
      BY <1>0, <1>3 DEF SameRow, SameLoad, TheoryColumns
    <2>3. QED
      BY <1>0, <1>3, <2>1, <2>2, Rewritten DEF SameRows, SameLoads
  <1>4. CASE MarkStale
    <2>1. /\ theories' = [t \in DOMAIN theories |->
                      [theories[t] EXCEPT !.stale = @ \/ theories[t].current]]
          /\ objections' = objections
      BY <1>4 DEF MarkStale
    <2>2. theories' = [t \in DOMAIN theories |-> theories'[t]]
      BY <2>1
    <2>3. \A u \in DOMAIN theories : SameRow(theories'[u], theories[u]) /\ SameLoad(theories'[u], theories[u])
      BY <1>0, <2>1 DEF SameRow, SameLoad, TheoryColumns
    <2>4. QED
      BY <1>0, <2>1, <2>2, <2>3, Rewritten DEF SameRows, SameLoads
  <1>5. ASSUME NEW w \in tripwires, Observes(w) PROVE SameRows /\ SameLoads
    <2>1. PICK observed, given, event : Observe(w, observed, given, event)
      BY <1>5 DEF Observes
    <2>2. /\ \E flag : theories' = [theories EXCEPT ![w.theory].stale = flag]
          /\ objections' = objections
      BY <2>1 DEF Observe
    <2>3. PICK flag : theories' = [theories EXCEPT ![w.theory].stale = flag]
      BY <2>2
    <2>4. theories' = [theories EXCEPT ![w.theory].stale = theories'[w.theory].stale]
      BY <1>0, <2>3 DEF TheoryColumns
    <2>5. QED
      BY <1>3, <2>2, <2>4
  <1>6. ASSUME NEW h \in hypotheses, Links(h) PROVE SameRows /\ SameLoads
    <2>1. PICK given, event, result : RecordLink(h, result, given, event)
      BY <1>6 DEF Links
    <2>2. objections' = objections /\ (UNCHANGED theories \/
            \E t \in Current : theories' = [theories EXCEPT ![t].stale = TRUE])
      BY <2>1 DEF RecordLink
    <2>3. CASE UNCHANGED theories
      BY <1>0, <2>2, <2>3 DEF SameRows, SameRow, SameLoads, SameLoad
    <2>4. ASSUME NEW t \in Current, theories' = [theories EXCEPT ![t].stale = TRUE]
          PROVE  SameRows /\ SameLoads
      <3>1. theories' = [theories EXCEPT ![t].stale = theories'[t].stale]
        BY <1>0, <2>4 DEF TheoryColumns, Current
      <3>2. QED
        BY <1>3, <2>2, <3>1
    <2>5. QED
      BY <2>2, <2>3, <2>4
  <1>7. ASSUME OutsideRequests PROVE SameRows /\ SameLoads
    <2>1. objections' = objections
      BY <1>7 DEF OutsideRequests
    <2>2. ASSUME theories' = [t \in DOMAIN theories |-> theories'[t]],
                 \A u \in DOMAIN theories :
                    SameRow(theories'[u], theories[u]) /\ SameLoad(theories'[u], theories[u])
          PROVE  SameRows /\ SameLoads
      BY <1>0, <2>1, <2>2, Rewritten DEF SameRows, SameLoads
    <2>3. CASE theories' = WithoutCases
      <3>1. theories' = [t \in DOMAIN theories |-> theories'[t]]
        BY <2>3 DEF WithoutCases
      <3>2. \A u \in DOMAIN theories : SameRow(theories'[u], theories[u]) /\ SameLoad(theories'[u], theories[u])
        BY <1>0, <2>3 DEF SameRow, SameLoad, TheoryColumns, WithoutCases
      <3>3. QED
        BY <2>2, <3>1, <3>2
    <2>4. CASE MatchCases
      <3>1. PICK matched : theories' = [t \in DOMAIN theories |->
              IF t \in DOMAIN matched
                THEN [theories[t] EXCEPT !.match = WrittenMatch(@, recall.seen[t], MatchOf(t, matched[t]))]
                ELSE theories[t]]
        BY <2>4 DEF MatchCases
      <3>2. theories' = [t \in DOMAIN theories |-> theories'[t]]
        BY <3>1
      <3>3. \A u \in DOMAIN theories : SameRow(theories'[u], theories[u]) /\ SameLoad(theories'[u], theories[u])
        BY <1>0, <3>1 DEF SameRow, SameLoad, TheoryColumns
      <3>4. QED
        BY <2>2, <3>2, <3>3
    <2>5. CASE UNCHANGED theories
      BY <1>0, <2>1, <2>5 DEF SameRows, SameRow, SameLoads, SameLoad
    <2>6. QED
      BY <1>7, <2>3, <2>4, <2>5 DEF OutsideRequests, AskRecollection, ClearRecollection,
           ReadRecollection, AskMatching, FailRecollection
  <1>8. ASSUME NEW row, NEW seen, NEW load, TheoryColumns \subseteq DOMAIN row
        PROVE  SameRow(Rescored(row, seen, load), row)
    BY <1>8 DEF SameRow, Rescored, TheoryColumns
  <1>9. ASSUME NEW s \in Sessions, Challenge(s) PROVE SameRows
    <2>1. PICK raised : theories' = [t \in DOMAIN theories |->
                  IF t \in {u \in DOMAIN raised : raised[u] # None}
                    THEN Rescored(theories[t], work[s].seen[t],
                           ObjectionLoad({Objection(t, i, raised[t][i]) : i \in DOMAIN raised[t]}, t))
                    ELSE theories[t]]
      BY <1>9 DEF Challenge
    <2>2. theories' = [t \in DOMAIN theories |-> theories'[t]]
      BY <2>1
    <2>3. \A u \in DOMAIN theories : SameRow(theories'[u], theories[u])
      BY <1>0, <1>8, <2>1 DEF SameRow
    <2>4. QED
      BY <1>0, <2>2, <2>3, Rewritten DEF SameRows
  <1>10. ASSUME NEW t, NEW seen, NEW load,
                theories' = [theories EXCEPT ![t] = Rescored(@, seen, load)]
         PROVE  SameRows
    <2>1. theories' = [u \in DOMAIN theories |-> theories'[u]]
      BY <1>10
    <2>2. \A u \in DOMAIN theories : SameRow(theories'[u], theories[u])
      BY <1>0, <1>8, <1>10 DEF SameRow
    <2>3. QED
      BY <1>0, <2>1, <2>2, Rewritten DEF SameRows
  <1>11. ASSUME NEW s \in Sessions, Execute(s) PROVE SameRows
    <2>1. UNCHANGED theories \/ \E load : theories' = [theories EXCEPT ![work[s].of[1]] =
                                  Rescored(@, work[s].seen[work[s].of[1]], load)]
      BY <1>11 DEF Execute
    <2>2. CASE UNCHANGED theories
      BY <1>0, <2>2 DEF SameRows, SameRow
    <2>3. QED
      BY <1>10, <2>1, <2>2
  <1>12. ASSUME NEW o \in objections, Dismiss(o) PROVE SameRows
    <2>1. theories' = [theories EXCEPT ![o.theory] =
                         Rescored(@, theories[o.theory], ObjectionLoad(objections', o.theory))]
      BY <1>12 DEF Dismiss
    <2>2. QED
      BY <1>10, <2>1
  <1>13. ASSUME NEW s \in Sessions, Writes(s)
         PROVE  Challenge(s) \/ Execute(s) \/ UNCHANGED <<theories, objections>>
    BY <1>13 DEF Writes, GenerateTripwires, RunDebates
  <1>14. ASSUME NEW w \in tripwires, NEW level, SetDecisiveness(w, level)
         PROVE  UNCHANGED <<theories, objections>>
    BY <1>14 DEF SetDecisiveness
  <1>15. ASSUME NEW t, NEW kind, Design(t, kind) PROVE UNCHANGED <<theories, objections>>
    BY <1>15 DEF Design
  <1>16. ASSUME NEW d, Promote(d) PROVE UNCHANGED <<theories, objections>>
    BY <1>16 DEF Promote
  <1>17. ASSUME NEW e, Records(e) PROVE UNCHANGED <<theories, objections>>
    BY <1>17 DEF Records, RecordField
  <1>18. ASSUME Believes PROVE UNCHANGED <<theories, objections>>
    BY <1>18 DEF Believes, StatePrior, SetLinkDecisiveness
  <1>19. SUFFICES ASSUME ~UNCHANGED <<theories, objections>>
                  PROVE  SameRows /\ (\/ SameLoads
                                      \/ \E s \in Sessions : Challenge(s) \/ Execute(s)
                                      \/ \E o \in objections : Dismiss(o))
    BY <1>1
  <1>20. CASE \E s \in Sessions : Aside(s) \/ Writes(s)
    BY <1>2, <1>9, <1>11, <1>13, <1>19, <1>20
  <1>21. CASE \E o \in objections : Dismiss(o)
    BY <1>12, <1>21
  <1>22. QED
    BY <1>4, <1>5, <1>6, <1>7, <1>14, <1>15, <1>16, <1>17, <1>18, <1>19, <1>20, <1>21 DEF Steps

-----------------------------------------------------------------------------
(* What a session holds while a model answers *)

Reading == {"generate", "challenge", "tripwires", "debates", "recommend"}
Held(h) ==
    /\ h.op \in Reading => \E k \in Nat : h.of \in [1..k -> DOMAIN theories]
    /\ h.op = "challenge" => ToSet(h.of) \subseteq DOMAIN h.seen
    /\ h.op = "execute" => DOMAIN h.seen = {h.of[1]}
Holding ==
    /\ DOMAIN work = Sessions
    /\ \A s \in Sessions : Held(work[s])

\* What a session that asks holds.
Asked(h) ==
    \/ h.op = "hypotheses" /\ h.of[1] \in Current
    \/ /\ h.op = "generate" /\ h.of \in SetToSeqs(Current)
       /\ h.on = [t \in Current |-> theories[t].match]
    \/ /\ h.op \in {"challenge", "tripwires", "debates", "recommend"}
       /\ h.of \in SetToSeqs(Current) /\ DOMAIN h.seen = Current
    \/ /\ h.op = "execute" /\ DOMAIN h.seen = {h.of[1]}
       /\ \E e \in DOMAIN experiments : h.of[1] = experiments[e].theory

WorkEffect ==
    /\ DOMAIN work' = DOMAIN work
    /\ \A s \in Sessions : \/ work'[s] = work[s]
                           \/ work'[s] = Idle
                           \/ Asked(work'[s]) /\ UNCHANGED theories

\* What each step does to what the sessions hold.
LEMMA WorkEffects ==
    ASSUME DOMAIN work = Sessions, Steps
    PROVE  WorkEffect
  <1>1. ASSUME NEW s \in Sessions, NEW h, work' = [work EXCEPT ![s] = h],
               h = Idle \/ (Asked(h) /\ UNCHANGED theories)
        PROVE  WorkEffect
    BY <1>1 DEF WorkEffect
  <1>2. ASSUME UNCHANGED work PROVE WorkEffect
    BY <1>2 DEF WorkEffect
  <1>3. ASSUME NEW s \in Sessions, NEW op, NEW on, Ask(s, op, on), UNCHANGED theories,
               op \in {"challenge", "tripwires", "debates", "recommend"}
        PROVE  WorkEffect
    <2>1. PICK order \in SetToSeqs(Current) :
            work' = [work EXCEPT ![s] = [op |-> op, of |-> order, on |-> on,
                       seen |-> [t \in Current |-> [load |-> theories[t].load,
                                                    contested |-> theories[t].contested]]]]
      BY <1>3 DEF Ask
    <2> DEFINE h == [op |-> op, of |-> order, on |-> on,
                     seen |-> [t \in Current |-> [load |-> theories[t].load,
                                                  contested |-> theories[t].contested]]]
    <2>2. Asked(h)
      BY <1>3 DEF Asked
    <2>3. QED
      BY <1>1, <1>3, <2>1, <2>2
  <1>4. ASSUME NEW s \in Sessions, Aside(s) PROVE WorkEffect
    <2>1. CASE AskGenerate(s)
      <3>1. PICK order \in SetToSeqs(Current) :
              work' = [work EXCEPT ![s] = [Idle EXCEPT !.op = "generate", !.of = order,
                                             !.on = [t \in Current |-> theories[t].match]]]
        BY <2>1 DEF AskGenerate
      <3> DEFINE on == [t \in Current |-> theories[t].match]
      <3>2. Asked([Idle EXCEPT !.op = "generate", !.of = order, !.on = on])
        BY DEF Asked, Idle
      <3>3. QED
        BY <1>1, <2>1, <3>1, <3>2 DEF AskGenerate
    <2>2. CASE AskChallenge(s) \/ AskTripwires(s) \/ AskDebates(s) \/ AskRecommendation(s)
      BY <1>3, <2>2 DEF AskChallenge, AskTripwires, AskDebates, AskRecommendation
    <2>3. CASE Recommend(s) \/ ProposeHypotheses(s) \/ Fail(s)
      BY <1>1, <2>3 DEF Recommend, ProposeHypotheses, Fail, Answered
    <2>4. CASE \E e \in DOMAIN experiments : AskReactions(s, e)
      <3>1. PICK e \in DOMAIN experiments : AskReactions(s, e)
        BY <2>4
      <3>2. PICK t : t = experiments[e].theory
        OBVIOUS
      <3> DEFINE h == [op |-> "execute", of |-> <<t>>, on |-> e,
                       seen |-> [u \in {t} |-> [load |-> theories[u].load,
                                                contested |-> theories[u].contested]]]
      <3>5. work' = [work EXCEPT ![s] = h]
        BY <3>1, <3>2 DEF AskReactions
      <3>6. Asked(h)
        BY <3>2 DEF Asked
      <3>3. UNCHANGED theories
        BY <2>4 DEF AskReactions
      <3>4. QED
        BY <1>1, <3>3, <3>5, <3>6
    <2>5. CASE \E t \in Current : AskHypotheses(s, t)
      <3>1. PICK t \in Current :
              work' = [work EXCEPT ![s] = [Idle EXCEPT !.op = "hypotheses", !.of = <<t>>]]
        BY <2>5 DEF AskHypotheses
      <3>2. Asked([Idle EXCEPT !.op = "hypotheses", !.of = <<t>>])
        BY DEF Asked, Idle
      <3>3. QED
        BY <1>1, <2>5, <3>1, <3>2 DEF AskHypotheses
    <2>6. QED
      BY <1>4, <2>1, <2>2, <2>3, <2>4, <2>5 DEF Aside
  <1>5. ASSUME NEW s \in Sessions, Writes(s) PROVE WorkEffect
    <2>1. work' = [work EXCEPT ![s] = Idle]
      BY <1>5 DEF Writes, Generate, Challenge, GenerateTripwires, RunDebates, Execute, Answered
    <2>2. QED
      BY <2>1 DEF WorkEffect
  <1>6. ASSUME NEW w, Observes(w) \/ \E level \in Levels : SetDecisiveness(w, level)
        PROVE  UNCHANGED work
    BY <1>6 DEF Observes, Observe, SetDecisiveness
  <1>7. ASSUME NEW o, Dismiss(o) PROVE UNCHANGED work
    BY <1>7 DEF Dismiss
  <1>8. ASSUME NEW t, NEW kind, Design(t, kind) PROVE UNCHANGED work
    BY <1>8 DEF Design
  <1>9. ASSUME NEW d, Promote(d) PROVE UNCHANGED work
    BY <1>9 DEF Promote
  <1>10. ASSUME NEW e, Records(e) PROVE UNCHANGED work
    BY <1>10 DEF Records, RecordField
  <1>11. ASSUME NEW h, Links(h) PROVE UNCHANGED work
    BY <1>11 DEF Links, RecordLink
  <1>12. ASSUME Believes PROVE UNCHANGED work
    BY <1>12 DEF Believes, StatePrior, SetLinkDecisiveness
  <1>13. ASSUME OutsideRequests \/ MarkStale PROVE UNCHANGED work
    BY <1>13 DEF OutsideRequests, MarkStale
  <1>14. QED
    BY <1>2, <1>4, <1>5, <1>6, <1>7, <1>8, <1>9, <1>10, <1>11, <1>12, <1>13 DEF Steps

-----------------------------------------------------------------------------
(* A generation *)

\* A list joined to a list.
LEMMA Joined ==
    ASSUME NEW n \in Nat, NEW f, f = [i \in 1..n |-> f[i]],
           NEW m \in Nat, NEW g, g = [i \in 1..m |-> g[i]]
    PROVE  /\ f \o g = [i \in 1..(n + m) |-> (f \o g)[i]]
           /\ \A i \in 1..n : (f \o g)[i] = f[i]
           /\ \A i \in 1..m : (f \o g)[n + i] = g[i]
  <1> DEFINE S == {f[i] : i \in 1..n} \cup {g[i] : i \in 1..m}
  <1>1. f \in [1..n -> S] /\ g \in [1..m -> S]
    OBVIOUS
  <1> HIDE DEF S
  <1>2. f \in Seq(S) /\ Len(f) = n /\ g \in Seq(S) /\ Len(g) = m
    BY <1>1, FunctionsAreSequences
  <1>3. /\ f \o g \in Seq(S) /\ Len(f \o g) = n + m
        /\ \A i \in 1..(n + m) : (f \o g)[i] = IF i <= n THEN f[i] ELSE g[i - n]
    BY <1>2, ConcatProperties
  <1>4. f \o g = [i \in 1..(n + m) |-> (f \o g)[i]]
    BY <1>3
  <1>5. \A i \in 1..n : (f \o g)[i] = f[i]
    <2>1. \A i \in 1..n : i \in 1..(n + m) /\ i <= n
      OBVIOUS
    <2>2. QED
      BY <1>3, <2>1
  <1>6. \A i \in 1..m : (f \o g)[n + i] = g[i]
    <2>1. \A i \in 1..m : n + i \in 1..(n + m) /\ ~(n + i <= n) /\ (n + i) - n = i
      OBVIOUS
    <2>2. QED
      BY <1>3, <2>1
  <1>7. QED
    BY <1>4, <1>5, <1>6

\* The length of a list.
LEMMA ListLength ==
    ASSUME NEW f, IsList(f)
    PROVE  Len(f) \in Nat /\ f = [i \in 1..Len(f) |-> f[i]] /\ DOMAIN f = 1..Len(f)
  <1>1. PICK n \in Nat : f = [i \in 1..n |-> f[i]]
    BY DEF IsList
  <1>2. f \in [1..n -> {f[i] : i \in 1..n}]
    BY <1>1
  <1>3. Len(f) = n
    BY <1>2, FunctionsAreSequences
  <1>4. QED
    BY <1>1, <1>3

NewRow(row, match, i) ==
    /\ TheoryColumns \subseteq DOMAIN row
    /\ row.key = KeyOf(match, i) /\ row.version = VersionOf(match, i)
    /\ row.current = TRUE /\ row.superseded = FALSE /\ row.successor = None /\ row.load = 0
Generated(answer, match, previous, m) ==
    /\ m = Len(answer) /\ m \in Nat /\ DOMAIN answer = 1..m
    /\ IsList(theories')
    /\ DOMAIN theories' = 1..(Len(theories) + m)
    /\ \A t \in DOMAIN theories :
         theories'[t] = IF t \in previous THEN Retired(match, t) ELSE theories[t]
    /\ \A i \in 1..m : NewRow(theories'[Len(theories) + i], match, i)
    /\ tripwires' = {Carried(w, Heir(match, w.theory)) : w \in tripwires}
    /\ experiments' = [e \in DOMAIN experiments |->
         [experiments[e] EXCEPT !.theory =
            IF experiments[e].kind = "field" THEN Heir(match, @) ELSE @]]
    /\ UNCHANGED <<objections, debates>>

\* What a generation writes.
LEMMA GenerationWrites ==
    ASSUME Shapes, NEW s \in Sessions, Generate(s)
    PROVE  \E answer \in Answers :
             Generated(answer, Matches(answer, work[s].of), ToSet(work[s].of), Len(answer))
  <1> DEFINE n == Len(theories)
             previous == ToSet(work[s].of)
  <1>1. n \in Nat /\ theories = [t \in 1..n |-> theories[t]] /\ DOMAIN theories = 1..n
    BY ListLength DEF Shapes
  <1>2. PICK answer \in Answers :
          /\ theories' =
                  [t \in DOMAIN theories |->
                     IF t \in ToSet(work[s].of) THEN Retired(Matches(answer, work[s].of), t) ELSE theories[t]]
                  \o [i \in DOMAIN answer |->
                        [Persisted(answer[i], KeyOf(Matches(answer, work[s].of), i),
                                   VersionOf(Matches(answer, work[s].of), i))
                           EXCEPT !.match =
                              IF Matches(answer, work[s].of)[i] = None THEN NoMatch
                              ELSE work[s].on[Matches(answer, work[s].of)[i]]]]
          /\ tripwires' = {Carried(w, Heir(Matches(answer, work[s].of), w.theory)) : w \in tripwires}
          /\ experiments' = [e \in DOMAIN experiments |->
               [experiments[e] EXCEPT !.theory =
                  IF experiments[e].kind = "field" THEN Heir(Matches(answer, work[s].of), @) ELSE @]]
    BY DEF Generate
  <1>3. UNCHANGED <<objections, debates>>
    BY DEF Generate
  <1>4. PICK match : match = Matches(answer, work[s].of)
    OBVIOUS
  <1>5. PICK m : m = Len(answer) /\ m \in Nat /\ DOMAIN answer = 1..m
    BY TheoriesAssumption
  <1> DEFINE old == [t \in 1..n |-> IF t \in previous THEN Retired(match, t) ELSE theories[t]]
             new == [i \in 1..m |->
                        [Persisted(answer[i], KeyOf(match, i), VersionOf(match, i))
                           EXCEPT !.match = IF match[i] = None THEN NoMatch
                                            ELSE work[s].on[match[i]]]]
  <1>6. theories' = old \o new
    BY <1>1, <1>2, <1>4, <1>5
  <1>7. old = [t \in 1..n |-> old[t]] /\ new = [i \in 1..m |-> new[i]]
    OBVIOUS
  <1>8. \A i \in 1..m : NewRow(new[i], match, i)
    BY DEF NewRow, Persisted, TheoryColumns
  <1>9. \A t \in 1..n : old[t] = IF t \in previous THEN Retired(match, t) ELSE theories[t]
    OBVIOUS
  <1> HIDE DEF n, previous, old, new
  <1>10. /\ theories' = [t \in 1..(n + m) |-> theories'[t]]
         /\ \A t \in 1..n : theories'[t] = old[t]
         /\ \A i \in 1..m : theories'[n + i] = new[i]
    BY <1>1, <1>5, <1>6, <1>7, Joined
  <1>11. IsList(theories') /\ DOMAIN theories' = 1..(n + m)
    BY <1>1, <1>5, <1>10 DEF IsList
  <1>12. Generated(answer, match, previous, m)
    BY <1>1, <1>2, <1>3, <1>4, <1>5, <1>8, <1>9, <1>10, <1>11 DEF Generated, n
  <1>13. QED
    BY <1>4, <1>5, <1>12 DEF previous

-----------------------------------------------------------------------------
(* What a candidate continues *)

\* The sequence of a finite set lists it.
LEMMA SetToSeqFacts ==
    ASSUME NEW S, IsFiniteSet(S)
    PROVE  /\ Cardinality(S) \in Nat
           /\ SetToSeq(S) \in [1..Cardinality(S) -> S]
  <1>1. Cardinality(S) \in Nat /\ ExistsBijection(1..Cardinality(S), S)
    BY FS_CardinalityType
  <1>2. \E f \in [1..Cardinality(S) -> S] : IsInjective(f)
    BY <1>1 DEF ExistsBijection, Bijection, Injection, IsInjective
  <1>3. QED
    BY <1>1, <1>2 DEF SetToSeq

\* A non-empty set of numbers has a minimum in it.
LEMMA MinFacts ==
    ASSUME NEW T, T \subseteq Nat, T # {}
    PROVE  Min(T) \in T
  <1>1. \E m \in T : \A k \in T : m <= k
    BY LeastExists
  <1>2. QED
    BY <1>1 DEF Min

\* It continues one of the theories it is shown, of a line not yet continued.
LEMMA ContinuesFacts ==
    ASSUME NEW c, NEW previous, NEW k \in Nat, DOMAIN previous = 1..k, NEW used
    PROVE  \/ Continues(c, previous, used) = None
           \/ \E j \in 1..k : /\ Continues(c, previous, used) = previous[j]
                              /\ theories[previous[j]].key \notin used
  <1> DEFINE Old(i) == theories[previous[i]]
             free == {i \in DOMAIN previous : Old(i).key \notin used /\ SameClaim(c, Old(i))}
             named == {i \in free : Old(i).key = c.names}
             linked == {i \in free : Old(i).links # {}}
             closest == {i \in linked : /\ Overlaps(c.links, Old(i).links)
                                        /\ \A j \in linked : ~Closer(c.links, Old(j).links, Old(i).links)}
  <1>1. Continues(c, previous, used) = IF named # {} THEN previous[Min(named)]
                                       ELSE IF closest # {} THEN previous[Min(closest)]
                                       ELSE None
    BY DEF Continues
  <1>2. \A i \in free : i \in 1..k /\ theories[previous[i]].key \notin used
    OBVIOUS
  <1>3. named \subseteq free /\ closest \subseteq free /\ free \subseteq Nat
    OBVIOUS
  <1> HIDE DEF free, named, linked, closest
  <1>4. CASE named # {}
    <2>1. Min(named) \in named
      BY <1>3, <1>4, MinFacts
    <2>2. QED
      BY <1>1, <1>2, <1>3, <1>4, <2>1
  <1>5. CASE named = {} /\ closest # {}
    <2>1. Min(closest) \in closest
      BY <1>3, <1>5, MinFacts
    <2>2. QED
      BY <1>1, <1>2, <1>3, <1>5, <2>1
  <1>6. QED
    BY <1>1, <1>4, <1>5

Taken(match, i) == {match[j] : j \in 1..(i - 1)} \ {None}
KeysOf(rows) == {theories[t].key : t \in rows}
Chosen(match, answer, previous, i) == Continues(answer[i], previous, KeysOf(Taken(match, i)))

\* Each candidate is matched in turn.
LEMMA MatchesExist ==
    ASSUME NEW m \in Nat, NEW answer, DOMAIN answer = 1..m,
           NEW k \in Nat, NEW previous, DOMAIN previous = 1..k
    PROVE  /\ Matches(answer, previous) \in [1..m -> ToSet(previous) \cup {None}]
           /\ \A i \in 1..m : Matches(answer, previous)[i] =
                                Chosen(Matches(answer, previous), answer, previous, i)
  <1> DEFINE S == ToSet(previous) \cup {None}
             Upto(n) == \E match \in [1..n -> S] :
                          \A i \in 1..n : match[i] = Chosen(match, answer, previous, i)
             good == {n \in 0..m : Upto(n)}
  <1>0. \A c, used : Continues(c, previous, used) \in S
    BY ContinuesFacts DEF ToSet
  <1>1. 0 \in good
    <2>1. PICK match : match = [i \in 1..0 |-> None]
      OBVIOUS
    <2>2. match \in [1..0 -> S]
      BY <2>1
    <2>3. \A i \in 1..0 : match[i] = Chosen(match, answer, previous, i)
      OBVIOUS
    <2>4. Upto(0)
      BY <2>2, <2>3
    <2> HIDE DEF Upto
    <2>5. QED
      BY <2>4
  <1>2. ASSUME NEW n \in good, n # m PROVE n + 1 \in good
    <2>1. n \in 0..m /\ n + 1 \in 0..m /\ Upto(n)
      BY <1>2
    <2>2. PICK match \in [1..n -> S] :
            \A i \in 1..n : match[i] = Chosen(match, answer, previous, i)
      BY <2>1
    <2>3. PICK last : last = Continues(answer[n + 1], previous, KeysOf(Taken(match, n + 1)))
      OBVIOUS
    <2> DEFINE longer == [i \in 1..(n + 1) |-> IF i = n + 1 THEN last ELSE match[i]]
    <2>4. longer \in [1..(n + 1) -> S]
      <3>1. last \in S
        BY <1>0, <2>3
      <3>2. \A i \in 1..(n + 1) : i # n + 1 => match[i] \in S
        BY <2>2
      <3> HIDE DEF S
      <3>3. QED
        BY <3>1, <3>2
    <2>5. \A i \in 1..(n + 1) : Taken(longer, i) = Taken(match, i)
      <3>1. \A i \in 1..(n + 1) : \A j \in 1..(i - 1) : longer[j] = match[j]
        OBVIOUS
      <3> HIDE DEF longer
      <3>2. QED
        BY <3>1 DEF Taken
    <2>6. longer[n + 1] = last /\ \A i \in 1..n : longer[i] = match[i]
      BY <2>1
    <2> HIDE DEF longer
    <2>7. ASSUME NEW i \in 1..(n + 1) PROVE longer[i] = Chosen(longer, answer, previous, i)
      <3>1. Chosen(longer, answer, previous, i) = Chosen(match, answer, previous, i)
        BY <2>5 DEF Chosen
      <3>2. CASE i = n + 1
        BY <2>3, <2>6, <3>1, <3>2 DEF Chosen
      <3>3. CASE i # n + 1
        <4>1. i \in 1..n
          BY <3>3
        <4>2. QED
          BY <2>2, <2>6, <3>1, <4>1
      <3>4. QED
        BY <3>2, <3>3
    <2>8. Upto(n + 1)
      BY <2>4, <2>7
    <2>9. QED
      BY <2>1, <2>8
  <1>3. good \subseteq 0..m /\ m \in 0..m
    OBVIOUS
  <1>4. m \in good
    <2> HIDE DEF good
    <2>1. good = 0..m
      BY <1>1, <1>2, <1>3, Stepwise
    <2>2. QED
      BY <1>3, <2>1
  <1>5. \E match \in [1..m -> S] :
          \A i \in 1..m : match[i] = Chosen(match, answer, previous, i)
    BY <1>4
  <1>6. Matches(answer, previous) =
          CHOOSE match \in [1..m -> S] :
            \A i \in 1..m : match[i] = Chosen(match, answer, previous, i)
    BY DEF Matches, Chosen, Taken, KeysOf
  <1> HIDE DEF S
  <1>7. QED
    BY <1>5, <1>6 DEF S

\* No two candidates continue theories of one line.
LEMMA MatchedOnce ==
    ASSUME NEW m \in Nat, NEW answer, DOMAIN answer = 1..m,
           NEW k \in Nat, NEW previous, DOMAIN previous = 1..k,
           NEW i \in 1..m, Matches(answer, previous)[i] # None,
           NEW j \in 1..m, Matches(answer, previous)[j] # None, i < j
    PROVE  theories[Matches(answer, previous)[i]].key # theories[Matches(answer, previous)[j]].key
  <1>1. PICK match : match = Matches(answer, previous)
    OBVIOUS
  <1>2. match[j] = Chosen(match, answer, previous, j)
    BY <1>1, MatchesExist
  <1>3. theories[match[j]].key \notin KeysOf(Taken(match, j))
    BY <1>1, <1>2, ContinuesFacts DEF Chosen
  <1>4. match[i] \in Taken(match, j)
    <2>1. i \in 1..(j - 1)
      OBVIOUS
    <2>2. QED
      BY <1>1, <2>1 DEF Taken
  <1>5. QED
    BY <1>1, <1>3, <1>4 DEF KeysOf

-----------------------------------------------------------------------------
(* Shapes, references and what is held stay *)

\* What each step does to the rows that are about theories.
LEMMA OtherEffects ==
    ASSUME Steps
    PROVE  /\ \/ tripwires' = tripwires
              \/ \E s \in Sessions : Generate(s) \/ GenerateTripwires(s)
              \/ \E w \in tripwires : Observes(w) \/ \E level \in Levels : SetDecisiveness(w, level)
              \/ \E d \in DOMAIN debates : Promote(d)
           /\ \/ debates' = debates
              \/ MarkStale
              \/ \E s \in Sessions : RunDebates(s)
              \/ \E d \in DOMAIN debates : Promote(d)
           /\ \/ experiments' = experiments
              \/ \E s \in Sessions : Generate(s) \/ Execute(s)
              \/ \E t \in Current, kind \in {"synthetic", "field"} : Design(t, kind)
              \/ \E e \in DOMAIN experiments : Records(e)
  <1>1. ASSUME NEW s \in Sessions, Aside(s) PROVE UNCHANGED <<tripwires, debates, experiments>>
    BY <1>1 DEF Aside, AskGenerate, AskChallenge, AskTripwires, AskDebates, AskRecommendation,
         Recommend, ProposeHypotheses, Fail, AskReactions, AskHypotheses
  <1>2. ASSUME NEW s \in Sessions, Writes(s)
        PROVE  /\ tripwires' = tripwires \/ Generate(s) \/ GenerateTripwires(s)
               /\ debates' = debates \/ RunDebates(s)
               /\ experiments' = experiments \/ Generate(s) \/ Execute(s)
    <2>1. Generate(s) => UNCHANGED debates
      BY DEF Generate
    <2>2. Challenge(s) => UNCHANGED <<tripwires, debates, experiments>>
      BY DEF Challenge
    <2>3. GenerateTripwires(s) => UNCHANGED <<debates, experiments>>
      BY DEF GenerateTripwires
    <2>4. RunDebates(s) => UNCHANGED <<tripwires, experiments>>
      BY DEF RunDebates
    <2>5. Execute(s) => UNCHANGED <<tripwires, debates>>
      BY DEF Execute
    <2>6. QED
      BY <1>2, <2>1, <2>2, <2>3, <2>4, <2>5 DEF Writes
  <1>3. MarkStale => UNCHANGED <<tripwires, experiments>>
    BY DEF MarkStale
  <1>4. ASSUME NEW w, Observes(w) \/ \E level \in Levels : SetDecisiveness(w, level)
        PROVE  UNCHANGED <<debates, experiments>>
    BY <1>4 DEF Observes, Observe, SetDecisiveness
  <1>5. ASSUME NEW o, Dismiss(o) PROVE UNCHANGED <<tripwires, debates, experiments>>
    BY <1>5 DEF Dismiss
  <1>6. ASSUME NEW t, NEW kind, Design(t, kind) PROVE UNCHANGED <<tripwires, debates>>
    BY <1>6 DEF Design
  <1>7. ASSUME NEW d, Promote(d) PROVE UNCHANGED experiments
    BY <1>7 DEF Promote
  <1>8. ASSUME NEW e, Records(e) PROVE UNCHANGED <<tripwires, debates>>
    BY <1>8 DEF Records, RecordField
  <1>9. ASSUME NEW h, Links(h) PROVE UNCHANGED <<tripwires, debates, experiments>>
    BY <1>9 DEF Links, RecordLink
  <1>10. ASSUME Believes \/ OutsideRequests PROVE UNCHANGED <<tripwires, debates, experiments>>
    BY <1>10 DEF Believes, StatePrior, SetLinkDecisiveness, OutsideRequests
  <1>11. CASE \E s \in Sessions : Aside(s) \/ Writes(s)
    <2>1. PICK s \in Sessions : Aside(s) \/ Writes(s)
      BY <1>11
    <2>2. CASE Aside(s)
      BY <1>1, <2>2
    <2>3. CASE Writes(s)
      BY <1>2, <2>3
    <2>4. QED
      BY <2>1, <2>2, <2>3
  <1>12. CASE \E w \in tripwires : Observes(w) \/ \E level \in Levels : SetDecisiveness(w, level)
    BY <1>4, <1>12
  <1>13. CASE \E t \in Current, kind \in {"synthetic", "field"} : Design(t, kind)
    BY <1>6, <1>13
  <1>14. CASE \E d \in DOMAIN debates : Promote(d)
    BY <1>7, <1>14
  <1>15. CASE \E e \in DOMAIN experiments : Records(e)
    BY <1>8, <1>15
  <1>16. CASE (\E o \in objections : Dismiss(o)) \/ (\E h \in hypotheses : Links(h))
              \/ Believes \/ OutsideRequests
    BY <1>5, <1>9, <1>10, <1>16
  <1>17. CASE MarkStale
    BY <1>3, <1>17
  <1>18. QED
    BY <1>11, <1>12, <1>13, <1>14, <1>15, <1>16, <1>17 DEF Steps

\* The rows a theory is retired with.
LEMMA RetiredFacts ==
    ASSUME Shapes, NEW match, NEW t \in DOMAIN theories
    PROVE  /\ DOMAIN Retired(match, t) = DOMAIN theories[t]
           /\ Retired(match, t).key = theories[t].key
           /\ Retired(match, t).version = theories[t].version
           /\ SameLoad(Retired(match, t), theories[t])
           /\ Retired(match, t).current = FALSE
           /\ Retired(match, t).superseded = (theories[t].superseded \/ Heirs(match, t) = {})
           /\ Retired(match, t).successor = IF Heirs(match, t) = {} THEN theories[t].successor
                                            ELSE Row(CHOOSE i \in Heirs(match, t) : TRUE)
  BY DEF Retired, Shapes, TheoryColumns, SameLoad

\* Where a row of a theory goes when the theory is continued.
LEMMA HeirFacts ==
    ASSUME Shapes, NEW m \in Nat, NEW match, DOMAIN match = 1..m, NEW t \in DOMAIN theories
    PROVE  \/ Heir(match, t) = t /\ t \notin ToSet(match)
           \/ \E i \in 1..m : match[i] = t /\ Heir(match, t) = Len(theories) + i
  <1>1. CASE t \in ToSet(match)
    <2>1. \E i \in DOMAIN match : match[i] = t
      BY <1>1 DEF ToSet
    <2>2. PICK i : i = CHOOSE j \in DOMAIN match : match[j] = t
      OBVIOUS
    <2>3. i \in 1..m /\ match[i] = t
      BY <2>1, <2>2
    <2>4. Heir(match, t) = Len(theories) + i
      BY <1>1, <2>2 DEF Heir, Row
    <2>5. QED
      BY <2>3, <2>4
  <1>2. CASE t \notin ToSet(match)
    BY <1>2 DEF Heir
  <1>3. QED
    BY <1>1, <1>2

\* Theories are never deleted, and their rows keep their columns.
LEMMA TheoriesGrow ==
    ASSUME Shapes, Steps
    PROVE  /\ IsList(theories')
           /\ DOMAIN theories \subseteq DOMAIN theories'
           /\ \A t \in DOMAIN theories' : TheoryColumns \subseteq DOMAIN theories'[t]
  <1>1. ASSUME NEW s \in Sessions, Generate(s)
        PROVE  /\ IsList(theories')
               /\ DOMAIN theories \subseteq DOMAIN theories'
               /\ \A t \in DOMAIN theories' : TheoryColumns \subseteq DOMAIN theories'[t]
    <2>1. PICK answer, match, previous, m : Generated(answer, match, previous, m)
      BY <1>1, GenerationWrites
    <2>2. Len(theories) \in Nat /\ DOMAIN theories = 1..Len(theories)
      BY ListLength DEF Shapes
    <2>3. m \in Nat /\ IsList(theories') /\ DOMAIN theories' = 1..(Len(theories) + m)
      BY <2>1 DEF Generated
    <2>4. ASSUME NEW t \in DOMAIN theories' PROVE TheoryColumns \subseteq DOMAIN theories'[t]
      <3>1. CASE t \in DOMAIN theories
        <4>1. theories'[t] = IF t \in previous THEN Retired(match, t) ELSE theories[t]
          BY <2>1, <3>1 DEF Generated
        <4>2. DOMAIN Retired(match, t) = DOMAIN theories[t]
          BY <3>1, RetiredFacts
        <4>3. QED
          BY <3>1, <4>1, <4>2 DEF Shapes
      <3>2. CASE t \notin DOMAIN theories
        <4>1. PICK i : i = t - Len(theories)
          OBVIOUS
        <4>2. i \in 1..m /\ t = Len(theories) + i
          BY <2>2, <2>3, <3>2, <4>1
        <4>3. QED
          BY <2>1, <4>2 DEF Generated, NewRow
      <3>3. QED
        BY <3>1, <3>2
    <2>5. DOMAIN theories \subseteq DOMAIN theories'
      BY <2>2, <2>3
    <2>6. QED
      BY <2>3, <2>4, <2>5
  <1>2. CASE SameRows
    BY <1>2 DEF SameRows, SameRow, Shapes
  <1>3. QED
    BY <1>1, <1>2, TheoryEffects

\* The current theories are finitely many.
LEMMA FiniteCurrent ==
    ASSUME Shapes
    PROVE  IsFiniteSet(Current) /\ Cardinality(Current) \in Nat
  <1>1. Len(theories) \in Nat /\ DOMAIN theories = 1..Len(theories)
    BY ListLength DEF Shapes
  <1>2. IsFiniteSet(1..Len(theories))
    BY <1>1, FS_Interval
  <1>3. Current \subseteq 1..Len(theories)
    BY <1>1 DEF Current
  <1>4. QED
    BY <1>2, <1>3, FS_Subset, FS_CardinalityType

\* What the sessions hold stays as it was asked.
LEMMA HoldingStays ==
    ASSUME Shapes, Holding, Steps
    PROVE  Holding'
  <1>1. WorkEffect
    BY WorkEffects DEF Holding
  <1>2. ASSUME NEW s \in Sessions PROVE Held(work[s])'
    <2>1. CASE work'[s] = work[s]
      <3>1. ASSUME work[s].op \in Reading PROVE \E k \in Nat : work[s].of \in [1..k -> DOMAIN theories']
        <4>1. PICK k \in Nat : work[s].of \in [1..k -> DOMAIN theories]
          BY <3>1 DEF Holding, Held
        <4>2. DOMAIN theories \subseteq DOMAIN theories'
          BY TheoriesGrow
        <4>3. work[s].of \in [1..k -> DOMAIN theories']
          BY <4>1, <4>2
        <4>4. QED
          BY <4>3
      <3>2. QED
        BY <2>1, <3>1 DEF Holding, Held, Reading
    <2>2. CASE work'[s] = Idle
      BY <2>2 DEF Held, Idle, Reading
    <2>3. CASE Asked(work'[s]) /\ UNCHANGED theories
      <3>1. ASSUME work'[s].of \in SetToSeqs(Current)
            PROVE  work'[s].of \in [1..Cardinality(Current) -> Current]
        BY <3>1 DEF SetToSeqs
      <3>2. ASSUME work'[s].op \in Reading PROVE \E k \in Nat : work'[s].of \in [1..k -> DOMAIN theories']
        <4>1. work'[s].of \in SetToSeqs(Current)
          BY <2>3, <3>2 DEF Asked, Reading
        <4>2. work'[s].of \in [1..Cardinality(Current) -> DOMAIN theories']
          BY <2>3, <3>1, <4>1 DEF Current
        <4>3. QED
          BY <4>2, FiniteCurrent
      <3>3. ASSUME work'[s].op = "challenge" PROVE ToSet(work'[s].of) \subseteq DOMAIN work'[s].seen
        <4>1. work'[s].of \in SetToSeqs(Current) /\ DOMAIN work'[s].seen = Current
          BY <2>3, <3>3 DEF Asked
        <4>2. QED
          BY <3>1, <4>1 DEF ToSet
      <3>4. work'[s].op = "execute" => DOMAIN work'[s].seen = {work'[s].of[1]}
        BY <2>3 DEF Asked
      <3>5. QED
        BY <3>2, <3>3, <3>4 DEF Held, Reading
    <2>4. QED
      BY <1>1, <2>1, <2>2, <2>3 DEF WorkEffect
  <1>3. QED
    BY <1>1, <1>2 DEF Holding, WorkEffect

\* A list with one more element.
LEMMA Appended ==
    ASSUME NEW f, IsList(f), NEW x
    PROVE  /\ IsList(Append(f, x))
           /\ DOMAIN Append(f, x) = 1..(Len(f) + 1) /\ DOMAIN f = 1..Len(f)
           /\ \A i \in DOMAIN f : Append(f, x)[i] = f[i]
           /\ Append(f, x)[Len(f) + 1] = x
  <1>1. PICK n \in Nat : f = [i \in 1..n |-> f[i]]
    BY DEF IsList
  <1> DEFINE S == {f[i] : i \in 1..n} \cup {x}
  <1>2. f \in [1..n -> S] /\ x \in S
    BY <1>1
  <1> HIDE DEF S
  <1>3. f \in Seq(S) /\ Len(f) = n /\ DOMAIN f = 1..n
    BY <1>2, FunctionsAreSequences
  <1>4. PICK a : a = Append(f, x)
    OBVIOUS
  <1>5. /\ a \in Seq(S) /\ Len(a) = n + 1
        /\ \A i \in 1..n : a[i] = f[i]
        /\ a[n + 1] = x
    BY <1>2, <1>3, <1>4, AppendProperties
  <1>6. a = [i \in 1..(n + 1) |-> a[i]] /\ DOMAIN a = 1..(n + 1)
    BY <1>5
  <1>7. n + 1 \in Nat
    OBVIOUS
  <1>8. IsList(a)
    BY <1>6, <1>7 DEF IsList
  <1>9. QED
    BY <1>3, <1>4, <1>5, <1>6, <1>8

\* A list joined to a list, by their elements.
LEMMA JoinedRows ==
    ASSUME NEW f, IsList(f), NEW g, IsList(g)
    PROVE  /\ IsList(f \o g)
           /\ \A i \in DOMAIN (f \o g) :
                \/ i \in DOMAIN f /\ (f \o g)[i] = f[i]
                \/ \E j \in DOMAIN g : (f \o g)[i] = g[j]
  <1>1. Len(f) \in Nat /\ f = [i \in 1..Len(f) |-> f[i]] /\ DOMAIN f = 1..Len(f)
    BY ListLength
  <1>2. Len(g) \in Nat /\ g = [i \in 1..Len(g) |-> g[i]] /\ DOMAIN g = 1..Len(g)
    BY ListLength
  <1>3. PICK n \in Nat, m \in Nat : n = Len(f) /\ m = Len(g)
    BY <1>1, <1>2
  <1>4. /\ f = [i \in 1..n |-> f[i]] /\ DOMAIN f = 1..n
        /\ g = [i \in 1..m |-> g[i]] /\ DOMAIN g = 1..m
    BY <1>1, <1>2, <1>3
  <1>5. PICK h : h = f \o g
    OBVIOUS
  <1>6. /\ h = [i \in 1..(n + m) |-> h[i]]
        /\ \A i \in 1..n : h[i] = f[i]
        /\ \A i \in 1..m : h[n + i] = g[i]
    <2>1. /\ f \o g = [i \in 1..(n + m) |-> (f \o g)[i]]
          /\ \A i \in 1..n : (f \o g)[i] = f[i]
          /\ \A i \in 1..m : (f \o g)[n + i] = g[i]
      BY <1>3, <1>4, Joined
    <2>2. QED
      BY <1>5, <2>1
  <1>7. DOMAIN h = 1..(n + m)
    BY <1>6
  <1>8. ASSUME NEW i \in 1..(n + m)
        PROVE  (i \in 1..n /\ h[i] = f[i]) \/ \E j \in 1..m : h[i] = g[j]
    <2>1. CASE i \in 1..n
      BY <1>6, <2>1
    <2>2. CASE i \notin 1..n
      <3>1. i - n \in 1..m /\ n + (i - n) = i
        BY <2>2
      <3>2. h[n + (i - n)] = g[i - n]
        BY <1>6, <3>1
      <3>3. QED
        BY <3>1, <3>2
    <2>3. QED
      BY <2>1, <2>2
  <1>9. IsList(h)
    <2>1. n + m \in Nat
      OBVIOUS
    <2>2. QED
      BY <1>6, <2>1 DEF IsList
  <1>10. QED
    BY <1>4, <1>5, <1>7, <1>8, <1>9

\* The rows of objections keep their columns.
LEMMA ObjectionsStay ==
    ASSUME Shapes, Steps
    PROVE  \A o \in objections' : ObjectionColumns \subseteq DOMAIN o
  <1>0. \A o \in objections : ObjectionColumns \subseteq DOMAIN o
    BY DEF Shapes
  <1>1. CASE objections' = objections
    BY <1>0, <1>1
  <1>2. \A t, i, severity : ObjectionColumns \subseteq DOMAIN Objection(t, i, severity)
    BY DEF Objection, ObjectionColumns
  <1>3. ASSUME NEW s \in Sessions, Challenge(s)
        PROVE  \A o \in objections' : ObjectionColumns \subseteq DOMAIN o
    <2>1. PICK raised : objections' =
            {o \in objections : o.theory \notin {t \in DOMAIN raised : raised[t] # None}} \cup
            UNION {{Objection(t, i, raised[t][i]) : i \in DOMAIN raised[t]}
                     : t \in {t \in DOMAIN raised : raised[t] # None}}
      BY <1>3 DEF Challenge
    <2>2. QED
      BY <1>0, <1>2, <2>1
  <1>4. ASSUME NEW s \in Sessions, Execute(s)
        PROVE  \A o \in objections' : ObjectionColumns \subseteq DOMAIN o
    <2>1. PICK t, number, promoted : objections' =
            objections \cup {Objection(t, number, SimulatedSeverity) : i \in 1..promoted}
      BY <1>4 DEF Execute
    <2>2. QED
      BY <1>0, <1>2, <2>1
  <1>5. ASSUME NEW o \in objections, Dismiss(o)
        PROVE  \A x \in objections' : ObjectionColumns \subseteq DOMAIN x
    BY <1>0, <1>5 DEF Dismiss
  <1>6. ASSUME NEW s \in Sessions, Generate(s) PROVE objections' = objections
    BY <1>6 DEF Generate
  <1>7. SameLoads => objections' = objections
    BY DEF SameLoads
  <1>8. QED
    BY <1>1, <1>3, <1>4, <1>5, <1>6, <1>7, TheoryEffects

TripwireShape(w, rows) == TripwireColumns \subseteq DOMAIN w /\ w.theory \in rows

\* What a session that asked about tripwires or debates reads is finite.
LEMMA ReadsFinite ==
    ASSUME Holding, NEW s \in Sessions, work[s].op \in Reading
    PROVE  IsFiniteSet(ToSet(work[s].of)) /\ ToSet(work[s].of) \subseteq DOMAIN theories
  <1>1. PICK k \in Nat : work[s].of \in [1..k -> DOMAIN theories]
    BY DEF Holding, Held
  <1>2. PICK f : f = work[s].of
    OBVIOUS
  <1>3. f \in [1..k -> ToSet(f)] /\ \A t \in ToSet(f) : \E i \in 1..k : f[i] = t
    BY <1>1, <1>2 DEF ToSet
  <1>4. f \in Surjection(1..k, ToSet(f))
    BY <1>3 DEF Surjection
  <1>5. IsFiniteSet(1..k)
    BY FS_Interval
  <1>6. IsFiniteSet(ToSet(f))
    BY <1>4, <1>5, FS_Surjection
  <1>7. ToSet(f) \subseteq DOMAIN theories
    BY <1>1, <1>2 DEF ToSet
  <1>8. QED
    BY <1>2, <1>6, <1>7

\* What each answer about tripwires adds to those that are kept.
LEMMA TripwiresWritten ==
    ASSUME Holding, NEW s \in Sessions, GenerateTripwires(s)
    PROVE  /\ \A w \in tripwires : w.status # "pending" => w \in tripwires'
           /\ \A w \in tripwires' :
                \/ w \in tripwires
                \/ \E id, t, direction : /\ t \in ToSet(work[s].of)
                                         /\ w = Pending(id, t, direction, None)
  <1>1. work[s].op \in Reading
    BY DEF GenerateTripwires, Answered, Reading
  <1>2. PICK proposed \in [ToSet(work[s].of) -> Directions \cup {None}] :
          tripwires' = Unreplaced(proposed) \cup
             {Pending(LastId(Unreplaced(proposed)) + i, SetToSeq(Proposals(proposed))[i][1],
                      SetToSeq(Proposals(proposed))[i][2], None) : i \in DOMAIN SetToSeq(Proposals(proposed))}
    BY DEF GenerateTripwires
  <1>3. PICK kept, pairs : kept = Unreplaced(proposed) /\ pairs = Proposals(proposed)
    OBVIOUS
  <1>4. PICK list : list = SetToSeq(pairs)
    OBVIOUS
  <1>5. tripwires' = kept \cup {Pending(LastId(kept) + i, list[i][1], list[i][2], None) : i \in DOMAIN list}
    BY <1>2, <1>3, <1>4
  <1>6. pairs \subseteq ToSet(work[s].of) \X {"falsifies", "confirms"}
    BY <1>2, <1>3 DEF Proposals
  <1>7. IsFiniteSet(pairs)
    <2>1. IsFiniteSet({"falsifies", "confirms"})
      <3>1. IsFiniteSet({"falsifies"})
        BY FS_Singleton
      <3>2. IsFiniteSet({"falsifies"} \cup {"confirms"})
        BY <3>1, FS_AddElement
      <3>3. {"falsifies", "confirms"} = {"falsifies"} \cup {"confirms"}
        OBVIOUS
      <3>4. QED
        BY <3>2, <3>3
    <2>2. IsFiniteSet(ToSet(work[s].of) \X {"falsifies", "confirms"})
      BY <1>1, <2>1, ReadsFinite, FS_Product
    <2>3. QED
      BY <1>6, <2>2, FS_Subset
  <1>8. list \in [1..Cardinality(pairs) -> pairs]
    BY <1>4, <1>7, SetToSeqFacts
  <1>9. ASSUME NEW i \in DOMAIN list PROVE list[i][1] \in ToSet(work[s].of)
    <2>1. list[i] \in pairs
      BY <1>8, <1>9
    <2>2. QED
      BY <1>6, <2>1
  <1>10. \A w \in tripwires : w.status # "pending" => w \in tripwires'
    BY <1>3, <1>5 DEF Unreplaced
  <1>11. ASSUME NEW w \in tripwires', w \notin tripwires
         PROVE  \E id, t, direction : t \in ToSet(work[s].of) /\ w = Pending(id, t, direction, None)
    <2>1. w \notin kept
      BY <1>3, <1>11 DEF Unreplaced
    <2>2. PICK i \in DOMAIN list : w = Pending(LastId(kept) + i, list[i][1], list[i][2], None)
      BY <1>5, <1>11, <2>1
    <2>3. QED
      BY <1>9, <2>2
  <1>12. QED
    BY <1>10, <1>11

\* Tripwires keep their columns and are about theories.
LEMMA TripwiresStay ==
    ASSUME Shapes, Holding, Steps
    PROVE  \A w \in tripwires' : TripwireShape(w, DOMAIN theories')
  <1>0. /\ \A w \in tripwires : TripwireColumns \subseteq DOMAIN w /\ w.theory \in DOMAIN theories
        /\ DOMAIN theories \subseteq DOMAIN theories'
    BY TheoriesGrow DEF Shapes
  <1>1. \A w \in tripwires : TripwireShape(w, DOMAIN theories')
    BY <1>0 DEF TripwireShape
  <1>2. \A id, direction, asked, t :
          t \in DOMAIN theories => TripwireShape(Pending(id, t, direction, asked), DOMAIN theories')
    BY <1>0 DEF TripwireShape, Pending, TripwireColumns
  <1>3. ASSUME NEW s \in Sessions, Generate(s) PROVE \A w \in tripwires' : TripwireShape(w, DOMAIN theories')
    <2>1. PICK answer \in Answers : Generated(answer, Matches(answer, work[s].of), ToSet(work[s].of), Len(answer))
      BY <1>3, GenerationWrites
    <2>2. PICK k \in Nat : work[s].of \in [1..k -> DOMAIN theories]
      BY <1>3 DEF Generate, Answered, Holding, Held, Reading
    <2>3. PICK match, m : match = Matches(answer, work[s].of) /\ m = Len(answer)
      OBVIOUS
    <2>4. m \in Nat /\ DOMAIN answer = 1..m /\ DOMAIN theories' = 1..(Len(theories) + m)
      BY <2>1, <2>3 DEF Generated
    <2>5. DOMAIN match = 1..m
      BY <2>2, <2>3, <2>4, MatchesExist
    <2>6. Len(theories) \in Nat
      BY ListLength DEF Shapes
    <2>7. ASSUME NEW t \in DOMAIN theories PROVE Heir(match, t) \in DOMAIN theories'
      BY <1>0, <2>4, <2>5, <2>6, HeirFacts
    <2>8. tripwires' = {Carried(w, Heir(match, w.theory)) : w \in tripwires}
      BY <2>1, <2>3 DEF Generated
    <2>9. ASSUME NEW w \in tripwires
          PROVE  TripwireShape(Carried(w, Heir(match, w.theory)), DOMAIN theories')
      <3>1. PICK heir : heir = Heir(match, w.theory)
        OBVIOUS
      <3>2. heir \in DOMAIN theories'
        BY <1>0, <2>7, <3>1
      <3>3. TripwireShape(Carried(w, heir), DOMAIN theories')
        BY <1>0, <3>2 DEF Carried, TripwireShape, TripwireColumns
      <3>4. QED
        BY <3>1, <3>3
    <2>10. QED
      BY <2>8, <2>9
  <1>4. ASSUME NEW s \in Sessions, GenerateTripwires(s)
        PROVE  \A w \in tripwires' : TripwireShape(w, DOMAIN theories')
    <2>1. ToSet(work[s].of) \subseteq DOMAIN theories
      BY <1>4, ReadsFinite DEF GenerateTripwires, Answered, Reading
    <2>2. QED
      BY <1>1, <1>2, <1>4, <2>1, TripwiresWritten
  <1>5. ASSUME NEW w \in tripwires, NEW x, tripwires' = (tripwires \ {w}) \cup {x},
               DOMAIN x = DOMAIN w, x.theory = w.theory
        PROVE  \A y \in tripwires' : TripwireShape(y, DOMAIN theories')
    BY <1>0, <1>1, <1>5 DEF TripwireShape
  <1>6. ASSUME NEW w \in tripwires, Observes(w) PROVE \A y \in tripwires' : TripwireShape(y, DOMAIN theories')
    <2>1. PICK status, last : tripwires' = (tripwires \ {w}) \cup {[w EXCEPT !.status = status, !.last = last]}
      BY <1>6 DEF Observes, Observe
    <2>2. /\ DOMAIN [w EXCEPT !.status = status, !.last = last] = DOMAIN w
          /\ [w EXCEPT !.status = status, !.last = last].theory = w.theory
      BY <1>0 DEF TripwireColumns
    <2>3. QED
      BY <1>5, <2>1, <2>2
  <1>7. ASSUME NEW w \in tripwires, NEW level, SetDecisiveness(w, level)
        PROVE  \A y \in tripwires' : TripwireShape(y, DOMAIN theories')
    <2>1. tripwires' = (tripwires \ {w}) \cup {[w EXCEPT !.level = level]}
      BY <1>7 DEF SetDecisiveness
    <2>2. DOMAIN [w EXCEPT !.level = level] = DOMAIN w /\ [w EXCEPT !.level = level].theory = w.theory
      BY <1>0 DEF TripwireColumns
    <2>3. QED
      BY <1>5, <2>1, <2>2
  <1>8. ASSUME NEW d \in DOMAIN debates, Promote(d)
        PROVE  \A w \in tripwires' : TripwireShape(w, DOMAIN theories')
    <2>1. debates[d].a \in DOMAIN theories /\ debates[d].b \in DOMAIN theories
      BY DEF Shapes
    <2>2. PICK id : tripwires' = tripwires \cup {Pending(id + 1, debates[d].a, "falsifies", d),
                                                Pending(id + 2, debates[d].b, "falsifies", d)}
      BY <1>8 DEF Promote
    <2>3. QED
      BY <1>1, <1>2, <2>1, <2>2
  <1>9. QED
    BY <1>1, <1>3, <1>4, <1>6, <1>7, <1>8, OtherEffects

DebateShape(d, rows) == DebateColumns \subseteq DOMAIN d /\ {d.a, d.b} \subseteq rows
ExperimentShape(e, rows) == ExperimentColumns \subseteq DOMAIN e /\ e.theory \in rows

\* Debates keep their columns and are about theories.
LEMMA DebatesStay ==
    ASSUME Shapes, Holding, Steps
    PROVE  IsList(debates') /\ \A d \in DOMAIN debates' : DebateShape(debates'[d], DOMAIN theories')
  <1>0. /\ IsList(debates)
        /\ \A d \in DOMAIN debates : /\ DebateColumns \subseteq DOMAIN debates[d]
                                     /\ {debates[d].a, debates[d].b} \subseteq DOMAIN theories
        /\ DOMAIN theories \subseteq DOMAIN theories'
    BY TheoriesGrow DEF Shapes
  <1>1. \A d \in DOMAIN debates : DebateShape(debates[d], DOMAIN theories')
    BY <1>0 DEF DebateShape
  <1>2. ASSUME MarkStale
        PROVE  IsList(debates') /\ \A d \in DOMAIN debates' : DebateShape(debates'[d], DOMAIN theories')
    <2>1. debates' = [d \in DOMAIN debates |-> [debates[d] EXCEPT !.stale = TRUE]]
      BY <1>2 DEF MarkStale
    <2>2. debates' = [d \in DOMAIN debates |-> debates'[d]]
      BY <2>1
    <2>3. IsList(debates') /\ DOMAIN debates' = DOMAIN debates
      BY <1>0, <2>2, Rewritten
    <2>4. QED
      BY <1>0, <2>1, <2>3 DEF DebateShape, DebateColumns
  <1>3. ASSUME NEW d \in DOMAIN debates, Promote(d)
        PROVE  IsList(debates') /\ \A x \in DOMAIN debates' : DebateShape(debates'[x], DOMAIN theories')
    <2>1. debates' = [debates EXCEPT ![d].promoted = TRUE]
      BY <1>3 DEF Promote
    <2>2. debates' = [x \in DOMAIN debates |-> debates'[x]]
      BY <2>1
    <2>3. IsList(debates') /\ DOMAIN debates' = DOMAIN debates
      BY <1>0, <2>2, Rewritten
    <2>4. QED
      BY <1>0, <2>1, <2>3 DEF DebateShape, DebateColumns
  <1>4. ASSUME NEW s \in Sessions, RunDebates(s)
        PROVE  IsList(debates') /\ \A x \in DOMAIN debates' : DebateShape(debates'[x], DOMAIN theories')
    <2>1. work[s].op \in Reading
      BY <1>4 DEF RunDebates, Answered, Reading
    <2>2. PICK pairs, decided :
            /\ pairs = SelectPairs(work[s].of)
            /\ debates' = [d \in DOMAIN debates |-> [debates[d] EXCEPT !.stale = @ \/ d \in work[s].on]]
                          \o SetToSeq(Compared(pairs, decided))
      BY <1>4 DEF RunDebates
    <2>3. PICK old, new, list : /\ old = [d \in DOMAIN debates |-> [debates[d] EXCEPT !.stale = @ \/ d \in work[s].on]]
                                /\ new = Compared(pairs, decided)
                                /\ list = SetToSeq(new)
      OBVIOUS
    <2>4. debates' = old \o list
      BY <2>2, <2>3
    <2>5. PICK of, k : of = work[s].of /\ k \in Nat /\ of \in [1..k -> DOMAIN theories]
      BY <2>1 DEF Holding, Held
    <2>6. \A p \in pairs : p \in ToSet(of) \X ToSet(of)
      BY <2>2, <2>5 DEF SelectPairs, ToSet
    <2>7. IsFiniteSet(ToSet(of)) /\ ToSet(of) \subseteq DOMAIN theories
      BY <2>1, <2>5, ReadsFinite
    <2>8. IsFiniteSet(pairs)
      <3>1. IsFiniteSet(ToSet(of) \X ToSet(of))
        BY <2>7, FS_Product
      <3>2. pairs \subseteq ToSet(of) \X ToSet(of)
        BY <2>6
      <3>3. QED
        BY <3>1, <3>2, FS_Subset
    <2>9. IsFiniteSet(new)
      <3>1. PICK f : f = [p \in pairs |-> [a |-> p[1], b |-> p[2], discriminator |-> p \in decided,
                                           stale |-> FALSE, promoted |-> FALSE]]
        OBVIOUS
      <3>2. f \in Surjection(pairs, new)
        BY <2>3, <3>1 DEF Surjection, Compared
      <3>3. QED
        BY <2>8, <3>2, FS_Surjection
    <2>10. Cardinality(new) \in Nat /\ list \in [1..Cardinality(new) -> new]
      BY <2>3, <2>9, SetToSeqFacts
    <2>11. IsList(list) /\ \A j \in DOMAIN list : list[j] \in new
      <3>1. list = [j \in 1..Cardinality(new) |-> list[j]]
        BY <2>10
      <3>2. QED
        BY <2>10, <3>1 DEF IsList
    <2>12. IsList(old) /\ DOMAIN old = DOMAIN debates
      <3>1. old = [d \in DOMAIN debates |-> old[d]]
        BY <2>3
      <3>2. QED
        BY <1>0, <3>1, Rewritten
    <2>13. \A d \in DOMAIN old : DebateShape(old[d], DOMAIN theories')
      BY <1>0, <2>3 DEF DebateShape, DebateColumns
    <2>14. ASSUME NEW x \in new PROVE DebateShape(x, DOMAIN theories')
      <3>1. PICK p \in pairs : x = [a |-> p[1], b |-> p[2], discriminator |-> p \in decided,
                                    stale |-> FALSE, promoted |-> FALSE]
        BY <2>3 DEF Compared
      <3>2. p[1] \in DOMAIN theories' /\ p[2] \in DOMAIN theories'
        BY <1>0, <2>6, <2>7
      <3>3. QED
        BY <3>1, <3>2 DEF DebateShape, DebateColumns
    <2>15. IsList(old \o list) /\ \A i \in DOMAIN (old \o list) :
                 \/ i \in DOMAIN old /\ (old \o list)[i] = old[i]
                 \/ \E j \in DOMAIN list : (old \o list)[i] = list[j]
      BY <2>11, <2>12, JoinedRows
    <2>16. QED
      BY <2>4, <2>11, <2>13, <2>14, <2>15
  <1>5. QED
    BY <1>0, <1>1, <1>2, <1>3, <1>4, OtherEffects

SameExperiment(row, old) == DOMAIN row = DOMAIN old /\ row.kind = old.kind /\ row.theory = old.theory

\* Experiments that are not moved by a generation are about the theory they
\* were designed for.
LEMMA ExperimentEffects ==
    ASSUME Shapes, Steps, ~\E s \in Sessions : Generate(s)
    PROVE  /\ IsList(experiments')
           /\ \A e \in DOMAIN experiments' :
                \/ e \in DOMAIN experiments /\ SameExperiment(experiments'[e], experiments[e])
                \/ \E t, kind, status : t \in Current /\ experiments'[e] = Experiment(t, kind, status)
  <1>0. /\ IsList(experiments)
        /\ \A e \in DOMAIN experiments : ExperimentColumns \subseteq DOMAIN experiments[e]
    BY DEF Shapes
  <1>1. ASSUME experiments' = [x \in DOMAIN experiments |-> experiments'[x]],
               \A x \in DOMAIN experiments : SameExperiment(experiments'[x], experiments[x])
        PROVE  /\ IsList(experiments')
               /\ \A x \in DOMAIN experiments' : x \in DOMAIN experiments /\ SameExperiment(experiments'[x], experiments[x])
    BY <1>0, <1>1, Rewritten
  <1>2. CASE experiments' = experiments
    BY <1>0, <1>2 DEF SameExperiment
  <1>4. CASE \E s \in Sessions : Execute(s)
    <2>1. PICK s \in Sessions : Execute(s)
      BY <1>4
    <2>2. PICK e : e = work[s].on
      OBVIOUS
    <2>3. PICK support, oppose : experiments' = [experiments EXCEPT
                  ![e].status = "executed", ![e].support = support, ![e].oppose = oppose]
      BY <2>1, <2>2 DEF Execute
    <2>4. experiments' = [x \in DOMAIN experiments |-> experiments'[x]]
      BY <2>3
    <2>5. \A x \in DOMAIN experiments : SameExperiment(experiments'[x], experiments[x])
      BY <1>0, <2>3 DEF SameExperiment, ExperimentColumns
    <2>6. QED
      BY <1>1, <2>4, <2>5
  <1>5. CASE \E e \in DOMAIN experiments : Records(e)
    <2>1. PICK e \in DOMAIN experiments : Records(e)
      BY <1>5
    <2>2. PICK given, event, result : RecordField(e, result, given, event)
      BY <2>1 DEF Records
    <2>3. experiments' = [experiments EXCEPT
         ![e].status = "executed", ![e].last = Said(result, given, event),
         ![e].support = @ \/ result = "supports",
         ![e].oppose = @ \/ result = "refutes",
         ![e].neutral = @ \/ result = "inconclusive"]
      BY <2>2 DEF RecordField
    <2>4. experiments' = [x \in DOMAIN experiments |-> experiments'[x]]
      BY <2>3
    <2>5. \A x \in DOMAIN experiments : SameExperiment(experiments'[x], experiments[x])
      BY <1>0, <2>3 DEF SameExperiment, ExperimentColumns
    <2>6. QED
      BY <1>1, <2>4, <2>5
  <1>6. ASSUME NEW t \in Current, NEW kind, Design(t, kind)
        PROVE  /\ IsList(experiments')
               /\ \A e \in DOMAIN experiments' :
                    \/ e \in DOMAIN experiments /\ SameExperiment(experiments'[e], experiments[e])
                    \/ \E u, k, status : u \in Current /\ experiments'[e] = Experiment(u, k, status)
    <2>1. PICK status : experiments' = Append(experiments, Experiment(t, kind, status))
      BY <1>6 DEF Design
    <2>2. Len(experiments) \in Nat
      BY <1>0, ListLength
    <2>3. /\ IsList(experiments') /\ DOMAIN experiments = 1..Len(experiments)
          /\ DOMAIN experiments' = 1..(Len(experiments) + 1)
          /\ \A e \in DOMAIN experiments : experiments'[e] = experiments[e]
          /\ experiments'[Len(experiments) + 1] = Experiment(t, kind, status)
      BY <1>0, <2>1, Appended
    <2>4. ASSUME NEW e \in DOMAIN experiments', e \notin DOMAIN experiments
          PROVE  experiments'[e] = Experiment(t, kind, status)
      BY <2>2, <2>3, <2>4
    <2>5. QED
      BY <2>3, <2>4 DEF SameExperiment
  <1>7. QED
    BY <1>2, <1>4, <1>5, <1>6, OtherEffects

\* Experiments keep their columns and are about theories.
LEMMA ExperimentsStay ==
    ASSUME Shapes, Holding, Steps
    PROVE  /\ IsList(experiments')
           /\ \A e \in DOMAIN experiments' : ExperimentShape(experiments'[e], DOMAIN theories')
  <1>0. /\ IsList(experiments)
        /\ \A e \in DOMAIN experiments : /\ ExperimentColumns \subseteq DOMAIN experiments[e]
                                         /\ experiments[e].theory \in DOMAIN theories
        /\ DOMAIN theories \subseteq DOMAIN theories'
    BY TheoriesGrow DEF Shapes
  <1>1. ASSUME NEW s \in Sessions, Generate(s)
        PROVE  /\ IsList(experiments')
               /\ \A e \in DOMAIN experiments' : ExperimentShape(experiments'[e], DOMAIN theories')
    <2>1. PICK answer \in Answers : Generated(answer, Matches(answer, work[s].of), ToSet(work[s].of), Len(answer))
      BY <1>1, GenerationWrites
    <2>2. PICK k \in Nat : work[s].of \in [1..k -> DOMAIN theories]
      BY <1>1 DEF Generate, Answered, Holding, Held, Reading
    <2>3. PICK match, m : match = Matches(answer, work[s].of) /\ m = Len(answer)
      OBVIOUS
    <2>4. m \in Nat /\ DOMAIN answer = 1..m /\ DOMAIN theories' = 1..(Len(theories) + m)
      BY <2>1, <2>3 DEF Generated
    <2>5. DOMAIN match = 1..m
      BY <2>2, <2>3, <2>4, MatchesExist
    <2>6. Len(theories) \in Nat
      BY ListLength DEF Shapes
    <2>7. ASSUME NEW t \in DOMAIN theories PROVE Heir(match, t) \in DOMAIN theories'
      BY <1>0, <2>4, <2>5, <2>6, HeirFacts
    <2>8. experiments' = [e \in DOMAIN experiments |->
            [experiments[e] EXCEPT !.theory =
               IF experiments[e].kind = "field" THEN Heir(match, @) ELSE @]]
      BY <2>1, <2>3 DEF Generated
    <2>9. experiments' = [e \in DOMAIN experiments |-> experiments'[e]]
      BY <2>8
    <2>10. IsList(experiments') /\ DOMAIN experiments' = DOMAIN experiments
      BY <1>0, <2>9, Rewritten
    <2>11. ASSUME NEW e \in DOMAIN experiments PROVE ExperimentShape(experiments'[e], DOMAIN theories')
      <3>1. PICK heir : heir = Heir(match, experiments[e].theory)
        OBVIOUS
      <3>2. heir \in DOMAIN theories' /\ experiments[e].theory \in DOMAIN theories'
        BY <1>0, <2>7, <3>1
      <3>3. experiments'[e] = [experiments[e] EXCEPT !.theory =
                                 IF experiments[e].kind = "field" THEN heir ELSE @]
        BY <2>8, <3>1
      <3>4. QED
        BY <1>0, <3>2, <3>3 DEF ExperimentShape, ExperimentColumns
    <2>12. QED
      BY <2>10, <2>11
  <1>2. ASSUME ~\E s \in Sessions : Generate(s)
        PROVE  /\ IsList(experiments')
               /\ \A e \in DOMAIN experiments' : ExperimentShape(experiments'[e], DOMAIN theories')
    <2>1. ASSUME NEW e \in DOMAIN experiments, SameExperiment(experiments'[e], experiments[e])
          PROVE  ExperimentShape(experiments'[e], DOMAIN theories')
      BY <1>0, <2>1 DEF SameExperiment, ExperimentShape
    <2>2. ASSUME NEW t \in Current, NEW kind, NEW status
          PROVE  ExperimentShape(Experiment(t, kind, status), DOMAIN theories')
      BY <1>0 DEF Current, Experiment, ExperimentShape, ExperimentColumns
    <2>3. QED
      BY <1>2, <2>1, <2>2, ExperimentEffects
  <1>3. QED
    BY <1>1, <1>2

\* The shapes are kept by every step.
LEMMA ShapesStay ==
    ASSUME Shapes, Holding, Steps
    PROVE  Shapes'
  <1>1. /\ IsList(theories')
        /\ \A t \in DOMAIN theories' : TheoryColumns \subseteq DOMAIN theories'[t]
    BY TheoriesGrow
  <1>2. \A o \in objections' : ObjectionColumns \subseteq DOMAIN o
    BY ObjectionsStay
  <1>3. \A w \in tripwires' : TripwireColumns \subseteq DOMAIN w /\ w.theory \in DOMAIN theories'
    BY TripwiresStay DEF TripwireShape
  <1>4. /\ IsList(debates')
        /\ \A d \in DOMAIN debates' : /\ DebateColumns \subseteq DOMAIN debates'[d]
                                      /\ {debates'[d].a, debates'[d].b} \subseteq DOMAIN theories'
    BY DebatesStay DEF DebateShape
  <1>5. /\ IsList(experiments')
        /\ \A e \in DOMAIN experiments' : /\ ExperimentColumns \subseteq DOMAIN experiments'[e]
                                          /\ experiments'[e].theory \in DOMAIN theories'
    BY ExperimentsStay DEF ExperimentShape
  <1>6. QED
    BY <1>1, <1>2, <1>3, <1>4, <1>5 DEF Shapes, IsList, TheoryColumns, ObjectionColumns,
         TripwireColumns, DebateColumns, ExperimentColumns

Grounds == Shapes /\ Holding

\* The shapes, and what the sessions hold, whatever their number.
LEMMA GroundsHold ==
    Spec => []Grounds
  <1>1. Init => Grounds
    <2>1. SUFFICES ASSUME Init PROVE Grounds
      OBVIOUS
    <2>2. IsList(<<>>)
      <3>1. <<>> = [i \in 1..0 |-> <<>>[i]]
        OBVIOUS
      <3>2. QED
        BY <3>1 DEF IsList
    <2>3. Shapes
      BY <2>1, <2>2 DEF Init, Shapes
    <2>4. Holding
      BY <2>1 DEF Init, Holding, Held, Idle, Reading
    <2>5. QED
      BY <2>3, <2>4 DEF Grounds
  <1>2. Grounds /\ [Next]_vars => Grounds'
    <2>1. SUFFICES ASSUME Grounds, [Next]_vars PROVE Grounds'
      OBVIOUS
    <2>2. CASE Next
      BY <2>1, <2>2, EveryStep, ShapesStay, HoldingStays DEF Grounds
    <2>3. CASE UNCHANGED vars
      BY <2>1, <2>3 DEF Grounds, Shapes, Holding, Held, IsList, vars, TheoryColumns, ObjectionColumns,
         TripwireColumns, DebateColumns, ExperimentColumns, Reading
    <2>4. QED
      BY <2>1, <2>2, <2>3
  <1>3. QED
    BY <1>1, <1>2, PTL DEF Spec

-----------------------------------------------------------------------------
(* Loads *)

\* The objections against a theory decide what it is discounted by.
LEMMA SameObjections ==
    ASSUME NEW t, NEW rows, NEW others, Against(rows, t) = Against(others, t)
    PROVE  ObjectionLoad(rows, t) = ObjectionLoad(others, t)
  BY DEF ObjectionLoad

\* A load computed over the row as it is now is the load written.
LEMMA RescoredLoad ==
    ASSUME NEW row, TheoryColumns \subseteq DOMAIN row, NEW seen, NEW load,
           seen.load = row.load, seen.contested = row.contested
    PROVE  /\ Rescored(row, seen, load).load = load
           /\ Rescored(row, seen, load).contested = Contested(load)
  BY DEF Rescored, Written, TheoryColumns

LoadStays == \A t \in DOMAIN theories : Consistent(t) /\ ~Outdated(t) => Consistent(t)'

\* No step leaves the load of a theory behind its objections.
LEMMA LoadStep ==
    ASSUME Grounds, Steps
    PROVE  LoadStays
  <1>0. /\ \A t \in DOMAIN theories : TheoryColumns \subseteq DOMAIN theories[t]
        /\ \A o \in objections : ObjectionColumns \subseteq DOMAIN o
    BY DEF Grounds, Shapes
  <1>1. ASSUME NEW t \in DOMAIN theories, Consistent(t), Against(objections', t) = Against(objections, t),
               SameLoad(theories'[t], theories[t])
        PROVE  Consistent(t)'
    <2>1. ObjectionLoad(objections', t) = ObjectionLoad(objections, t)
      BY <1>1, SameObjections
    <2>2. QED
      BY <1>1, <2>1 DEF Consistent, SameLoad
  <1>2. ASSUME NEW t \in DOMAIN theories,
               theories'[t].load = ObjectionLoad(objections', t),
               theories'[t].contested = Contested(ObjectionLoad(objections', t))
        PROVE  Consistent(t)'
    BY <1>2 DEF Consistent
  <1>3. ASSUME SameLoads PROVE LoadStays
    BY <1>1, <1>3 DEF LoadStays, SameLoads
  <1>4. ASSUME NEW s \in Sessions, Generate(s) PROVE LoadStays
    <2>1. PICK answer, match, previous, m : Generated(answer, match, previous, m)
      BY <1>4, GenerationWrites DEF Grounds
    <2>2. objections' = objections
      BY <2>1 DEF Generated
    <2>3. ASSUME NEW t \in DOMAIN theories PROVE SameLoad(theories'[t], theories[t])
      <3>1. theories'[t] = IF t \in previous THEN Retired(match, t) ELSE theories[t]
        BY <2>1 DEF Generated
      <3>2. SameLoad(Retired(match, t), theories[t])
        BY RetiredFacts DEF Grounds
      <3>3. SameLoad(theories[t], theories[t])
        BY DEF SameLoad
      <3>4. QED
        BY <3>1, <3>2, <3>3
    <2>4. QED
      BY <1>1, <2>2, <2>3 DEF LoadStays
  <1>5. ASSUME NEW s \in Sessions, Challenge(s) PROVE LoadStays
    <2>1. PICK raised \in [ToSet(work[s].of) -> Raised \cup {None}] :
            /\ objections' = {o \in objections : o.theory \notin {t \in DOMAIN raised : raised[t] # None}}
                   \cup UNION {{Objection(t, i, raised[t][i]) : i \in DOMAIN raised[t]}
                                 : t \in {t \in DOMAIN raised : raised[t] # None}}
            /\ theories' = [t \in DOMAIN theories |->
                  IF t \in {u \in DOMAIN raised : raised[u] # None}
                    THEN Rescored(theories[t], work[s].seen[t],
                           ObjectionLoad({Objection(t, i, raised[t][i]) : i \in DOMAIN raised[t]}, t))
                    ELSE theories[t]]
      BY <1>5 DEF Challenge
    <2>2. PICK told : told = {t \in DOMAIN raised : raised[t] # None}
      OBVIOUS
    <2>3. \A t, i, severity : Objection(t, i, severity).theory = t
      BY DEF Objection
    <2>4. ASSUME NEW t \in DOMAIN theories, Consistent(t), ~Outdated(t) PROVE Consistent(t)'
      <3>1. PICK new : new = {Objection(t, i, raised[t][i]) : i \in DOMAIN raised[t]}
        OBVIOUS
      <3>2. CASE t \in told
        <4>1. Against(objections', t) = Against(new, t)
          BY <2>1, <2>2, <2>3, <3>1, <3>2 DEF Against
        <4>2. ObjectionLoad(objections', t) = ObjectionLoad(new, t)
          BY <4>1, SameObjections
        <4>3. theories'[t] = Rescored(theories[t], work[s].seen[t], ObjectionLoad(new, t))
          BY <2>1, <2>2, <3>1, <3>2
        <4>4. t \in DOMAIN work[s].seen
          <5>1. work[s].op = "challenge"
            BY <1>5 DEF Challenge, Answered
          <5>2. ToSet(work[s].of) \subseteq DOMAIN work[s].seen
            BY <5>1 DEF Grounds, Holding, Held
          <5>3. QED
            BY <2>1, <2>2, <3>2, <5>2
        <4>5. work[s].seen[t] = [load |-> theories[t].load, contested |-> theories[t].contested]
          BY <2>4, <4>4 DEF Outdated
        <4>6. work[s].seen[t].load = theories[t].load /\ work[s].seen[t].contested = theories[t].contested
          BY <4>5
        <4>7. QED
          BY <1>0, <1>2, <4>2, <4>3, <4>6, RescoredLoad
      <3>3. CASE t \notin told
        <4>1. Against(objections', t) = Against(objections, t)
          BY <2>1, <2>2, <2>3, <3>3 DEF Against
        <4>2. SameLoad(theories'[t], theories[t])
          BY <2>1, <2>2, <3>3 DEF SameLoad
        <4>3. QED
          BY <1>1, <2>4, <4>1, <4>2
      <3>4. QED
        BY <3>2, <3>3
    <2>5. QED
      BY <2>4 DEF LoadStays
  <1>6. ASSUME NEW s \in Sessions, Execute(s) PROVE LoadStays
    <2>1. PICK u, seen : u = work[s].of[1] /\ seen = work[s].seen[u]
      OBVIOUS
    <2>2. \/ UNCHANGED <<objections, theories>>
          \/ \E number :
               /\ objections' = objections \cup {Objection(u, number, SimulatedSeverity)}
               /\ theories' = [theories EXCEPT ![u] = Rescored(@, seen, ObjectionLoad(objections', u))]
      <3>1. PICK number, promoted :
              /\ promoted \in 0..1
              /\ objections' = objections \cup {Objection(u, number, SimulatedSeverity) : i \in 1..promoted}
              /\ theories' = IF promoted = 0 THEN theories
                            ELSE [theories EXCEPT ![u] = Rescored(@, seen, ObjectionLoad(objections', u))]
        BY <1>6, <2>1 DEF Execute
      <3>2. CASE promoted = 0
        BY <3>1, <3>2
      <3>3. CASE promoted = 1
        BY <3>1, <3>3
      <3>4. QED
        BY <3>1, <3>2, <3>3
    <2>3. CASE UNCHANGED <<objections, theories>>
      BY <1>1, <2>3 DEF LoadStays, SameLoad
    <2>4. ASSUME NEW number,
                 objections' = objections \cup {Objection(u, number, SimulatedSeverity)},
                 theories' = [theories EXCEPT ![u] = Rescored(@, seen, ObjectionLoad(objections', u))],
                 NEW t \in DOMAIN theories, Consistent(t), ~Outdated(t)
          PROVE  Consistent(t)'
      <3>1. CASE t = u
        <4>1. t \in DOMAIN work[s].seen
          <5>1. work[s].op = "execute"
            BY <1>6 DEF Execute, Answered
          <5>2. QED
            BY <2>1, <3>1, <5>1 DEF Grounds, Holding, Held
        <4>2. work[s].seen[t] = [load |-> theories[t].load, contested |-> theories[t].contested]
          BY <2>4, <4>1 DEF Outdated
        <4>3. seen.load = theories[t].load /\ seen.contested = theories[t].contested
          BY <2>1, <3>1, <4>2
        <4>4. PICK load : load = ObjectionLoad(objections', t)
          OBVIOUS
        <4>5. theories'[t] = Rescored(theories[t], seen, load)
          BY <2>4, <3>1, <4>4
        <4>6. QED
          BY <1>0, <1>2, <4>3, <4>4, <4>5, RescoredLoad
      <3>2. CASE t # u
        <4>1. Objection(u, number, SimulatedSeverity).theory # t
          BY <3>2 DEF Objection
        <4>2. Against(objections', t) = Against(objections, t)
          BY <2>4, <4>1 DEF Against
        <4>3. SameLoad(theories'[t], theories[t])
          BY <2>4, <3>2 DEF SameLoad
        <4>4. QED
          BY <1>1, <2>4, <4>2, <4>3
      <3>3. QED
        BY <3>1, <3>2
    <2>5. QED
      BY <2>2, <2>3, <2>4 DEF LoadStays
  <1>7. ASSUME NEW o \in objections, Dismiss(o) PROVE LoadStays
    <2>1. PICK u : u = o.theory
      OBVIOUS
    <2>2. /\ objections' = (objections \ {o}) \cup {[o EXCEPT !.dismissed = TRUE]}
          /\ theories' = [theories EXCEPT ![u] =
                            Rescored(@, theories[u], ObjectionLoad(objections', u))]
      BY <1>7, <2>1 DEF Dismiss
    <2>3. ASSUME NEW t \in DOMAIN theories, Consistent(t) PROVE Consistent(t)'
      <3>1. CASE t = u
        <4>1. PICK load : load = ObjectionLoad(objections', t)
          OBVIOUS
        <4>2. theories'[t] = Rescored(theories[t], theories[t], load)
          BY <2>2, <3>1, <4>1
        <4>3. QED
          BY <1>0, <1>2, <4>1, <4>2, RescoredLoad
      <3>2. CASE t # u
        <4>1. [o EXCEPT !.dismissed = TRUE].theory # t /\ o.theory # t
          BY <1>0, <2>1, <3>2 DEF ObjectionColumns
        <4>2. Against(objections', t) = Against(objections, t)
          BY <2>2, <4>1 DEF Against
        <4>3. SameLoad(theories'[t], theories[t])
          BY <2>2, <3>2 DEF SameLoad
        <4>4. QED
          BY <1>1, <2>3, <4>2, <4>3
      <3>3. QED
        BY <3>1, <3>2
    <2>4. QED
      BY <2>3 DEF LoadStays
  <1>8. QED
    BY <1>3, <1>4, <1>5, <1>6, <1>7, TheoryEffects DEF Grounds

\* What a theory is discounted by is what stands against it, however many
\* requests wait for a model, unless one of them holds a copy of the theory
\* that a dismissal has outdated.
THEOREM LoadsFollow ==
    Spec => LoadFollowsObjections
  <1>1. Grounds /\ [Next]_vars => [LoadStays]_vars
    BY EveryStep, LoadStep
  <1>2. [LoadStays]_vars =>
          [\A t \in DOMAIN theories : Consistent(t) /\ ~Outdated(t) => Consistent(t)']_vars
    BY DEF LoadStays
  <1>3. QED
    BY <1>1, <1>2, GroundsHold, PTL DEF Spec, LoadFollowsObjections

-----------------------------------------------------------------------------
(* Lines of versions *)

\* What a waiting session is bringing to an answer is what is current.
Orders ==
    \A s \in Sessions : work[s].op \in Reading => ToSet(work[s].of) = Current

\* An order of a finite set lists all of it.
LEMMA OrderIsWhole ==
    ASSUME NEW S, IsFiniteSet(S), NEW order \in SetToSeqs(S)
    PROVE  ToSet(order) = S
  <1>1. PICK k : k = Cardinality(S)
    OBVIOUS
  <1>2. k \in Nat
    BY <1>1, FS_CardinalityType
  <1>3. order \in [1..k -> S] /\ \A i, j \in 1..k : i # j => order[i] # order[j]
    BY <1>1 DEF SetToSeqs
  <1>4. order \in Injection(1..k, S)
    BY <1>3 DEF Injection, IsInjective
  <1>5. IsFiniteSet(1..k) /\ Cardinality(1..k) = k
    BY <1>2, FS_Interval
  <1>6. order \in Surjection(1..k, S)
    BY <1>1, <1>4, <1>5, FS_Injection
  <1>7. \A t \in S : \E i \in 1..k : order[i] = t
    BY <1>6 DEF Surjection
  <1>8. QED
    BY <1>3, <1>7 DEF ToSet

\* Steps that keep the rows keep what is current.
LEMMA SameCurrent ==
    ASSUME SameRows
    PROVE  Current' = Current
  BY DEF SameRows, SameRow, Current

\* A generation is the step of a session that read what is current.
LEMMA OrdersStay ==
    ASSUME SingleSession, Grounds, Orders, Steps
    PROVE  Orders'
  <1>1. ASSUME NEW s \in Sessions, Generate(s) PROVE Orders'
    <2>1. work' = [work EXCEPT ![s] = Idle]
      BY <1>1 DEF Generate, Answered
    <2>2. \A r \in Sessions : r = s
      BY DEF SingleSession
    <2>3. \A r \in Sessions : work'[r] = Idle
      BY <2>1, <2>2 DEF Grounds, Holding
    <2>4. QED
      BY <2>3 DEF Orders, Idle, Reading
  <1>2. ASSUME SameRows PROVE Orders'
    <2>1. Current' = Current
      BY <1>2, SameCurrent
    <2>2. WorkEffect
      BY WorkEffects DEF Grounds, Holding
    <2>3. ASSUME NEW s \in Sessions, work'[s].op \in Reading PROVE ToSet(work'[s].of) = Current
      <3>1. CASE work'[s] = work[s]
        BY <2>3, <3>1 DEF Orders
      <3>2. CASE work'[s] = Idle
        BY <2>3, <3>2 DEF Idle, Reading
      <3>3. CASE Asked(work'[s])
        <4>1. work'[s].of \in SetToSeqs(Current)
          BY <2>3, <3>3 DEF Asked, Reading
        <4>2. QED
          BY <4>1, FiniteCurrent, OrderIsWhole DEF Grounds
      <3>4. QED
        BY <2>2, <3>1, <3>2, <3>3 DEF WorkEffect
    <2>4. QED
      BY <2>1, <2>3 DEF Orders, Reading
  <1>3. QED
    BY <1>1, <1>2, TheoryEffects DEF Grounds

Later(t) == {u \in DOMAIN theories : u > t /\ theories[u].key = theories[t].key}
AtHead(row) ==
    /\ row.successor = None
    /\ \/ row.current = TRUE /\ row.superseded = FALSE
       \/ row.current = FALSE /\ row.superseded = TRUE
Behind(row) == row.current = FALSE /\ row.superseded = FALSE
Follows(t, u) ==
    /\ u \in Later(t)
    /\ \A v \in Later(t) : u <= v
    /\ theories[u].version = theories[t].version + 1
InLine(t) ==
    /\ theories[t].key \in 1..t
    /\ theories[theories[t].key].key = theories[t].key
    /\ theories[t].key = t => theories[t].version = 1
    /\ Later(t) = {} => AtHead(theories[t])
    /\ Later(t) # {} => Behind(theories[t]) /\ Follows(t, theories[t].successor)
Lines == \A t \in DOMAIN theories : InLine(t)

\* Of each line one version at most is current.
LEMMA OneCurrent ==
    ASSUME Shapes, Lines, NEW t \in Current, NEW u \in DOMAIN theories,
           theories[u].key = theories[t].key
    PROVE  u <= t /\ (u \in Current => u = t)
  <1>1. Len(theories) \in Nat /\ DOMAIN theories = 1..Len(theories)
    BY ListLength DEF Shapes
  <1>2. t \in DOMAIN theories /\ theories[t].current
    BY DEF Current
  <1>3. Later(t) = {}
    <2>1. Later(t) # {} => theories[t].current = FALSE
      BY <1>2 DEF Lines, InLine, Behind
    <2>2. QED
      BY <1>2, <2>1
  <1>4. u <= t
    <2>1. ~(u > t)
      BY <1>3 DEF Later
    <2>2. QED
      BY <1>1, <1>2, <2>1
  <1>5. ASSUME u \in Current PROVE u = t
    <2>1. Later(u) # {} => theories[u].current = FALSE
      BY DEF Lines, InLine, Behind
    <2>2. Later(u) = {}
      BY <1>5, <2>1 DEF Current
    <2>3. ~(t > u)
      BY <1>2, <2>2 DEF Later
    <2>4. QED
      BY <1>1, <1>2, <1>4, <2>3
  <1>6. QED
    BY <1>4, <1>5

\* Steps that keep the rows keep the lines.
LEMMA LinesKept ==
    ASSUME SameRows, Lines, Shapes
    PROVE  Lines'
  <1>1. /\ DOMAIN theories' = DOMAIN theories
        /\ \A t \in DOMAIN theories : SameRow(theories'[t], theories[t])
    BY DEF SameRows
  <1>2. \A t \in DOMAIN theories : Later(t)' = Later(t)
    BY <1>1 DEF Later, SameRow
  <1>3. DOMAIN theories = 1..Len(theories) /\ Len(theories) \in Nat
    BY ListLength DEF Shapes
  <1>4. ASSUME NEW t \in DOMAIN theories PROVE InLine(t)'
    <2>1. InLine(t) /\ SameRow(theories'[t], theories[t])
      BY <1>1 DEF Lines
    <2>2. theories[t].key \in DOMAIN theories
      BY <1>3, <2>1 DEF InLine
    <2>3. SameRow(theories'[theories[t].key], theories[theories[t].key])
      BY <1>1, <2>2
    <2>4. Later(t) # {} => Follows(t, theories[t].successor)'
      <3>1. SUFFICES ASSUME Later(t) # {} PROVE Follows(t, theories[t].successor)'
        OBVIOUS
      <3>2. PICK u : u = theories[t].successor
        OBVIOUS
      <3>3. Follows(t, u)
        BY <2>1, <3>1, <3>2 DEF InLine
      <3>4. u \in DOMAIN theories
        BY <3>3 DEF Follows, Later
      <3>5. SameRow(theories'[u], theories[u])
        BY <1>1, <3>4
      <3>6. theories'[t].successor = u
        BY <2>1, <3>2 DEF SameRow
      <3>7. Follows(t, u)'
        BY <1>2, <2>1, <3>3, <3>5 DEF Follows, SameRow
      <3>8. QED
        BY <3>6, <3>7
    <2>5. AtHead(theories[t]) => AtHead(theories'[t])
      BY <2>1 DEF AtHead, SameRow
    <2>6. Behind(theories[t]) => Behind(theories'[t])
      BY <2>1 DEF Behind, SameRow
    <2>7. /\ theories'[t].key \in 1..t
          /\ theories'[theories'[t].key].key = theories'[t].key
          /\ theories'[t].key = t => theories'[t].version = 1
      BY <2>1, <2>3 DEF InLine, SameRow
    <2>8. QED
      BY <1>2, <2>1, <2>4, <2>5, <2>6, <2>7 DEF InLine
  <1>5. QED
    BY <1>1, <1>4 DEF Lines

\* What a generation writes when it read what is current: each current theory
\* is retired, and each candidate follows one of them, or none.
Succession(match, m) ==
    /\ m \in Nat /\ DOMAIN match = 1..m
    /\ DOMAIN theories' = 1..(Len(theories) + m)
    /\ \A i \in 1..m : match[i] = None \/ match[i] \in Current
    /\ \A i, j \in 1..m :
         match[i] # None /\ match[j] # None /\ i # j =>
           theories[match[i]].key # theories[match[j]].key
    /\ \A t \in DOMAIN theories :
         theories'[t] = IF t \in Current THEN Retired(match, t) ELSE theories[t]
    /\ \A i \in 1..m : NewRow(theories'[Len(theories) + i], match, i)
    /\ tripwires' = {Carried(w, Heir(match, w.theory)) : w \in tripwires}
    /\ experiments' = [e \in DOMAIN experiments |->
         [experiments[e] EXCEPT !.theory =
            IF experiments[e].kind = "field" THEN Heir(match, @) ELSE @]]

\* A generation is one, when its session read what is current.
LEMMA Succeeds ==
    ASSUME Grounds, Orders, NEW s \in Sessions, Generate(s)
    PROVE  \E match, m : Succession(match, m)
  <1>1. PICK answer \in Answers : Generated(answer, Matches(answer, work[s].of), ToSet(work[s].of), Len(answer))
    BY GenerationWrites DEF Grounds
  <1>2. work[s].op \in Reading
    BY DEF Generate, Answered, Reading
  <1>3. PICK previous, k : previous = work[s].of /\ k \in Nat /\ previous \in [1..k -> DOMAIN theories]
    BY <1>2 DEF Grounds, Holding, Held
  <1>4. ToSet(previous) = Current
    BY <1>2, <1>3 DEF Orders
  <1>5. PICK match, m : match = Matches(answer, previous) /\ m = Len(answer)
    OBVIOUS
  <1>6. Generated(answer, match, Current, m)
    BY <1>1, <1>3, <1>4, <1>5
  <1>7. m \in Nat /\ DOMAIN answer = 1..m /\ DOMAIN previous = 1..k
    BY <1>3, <1>6 DEF Generated
  <1>8. match \in [1..m -> Current \cup {None}]
    BY <1>3, <1>4, <1>5, <1>7, MatchesExist
  <1>9. ASSUME NEW i \in 1..m, NEW j \in 1..m, match[i] # None, match[j] # None, i < j
        PROVE  theories[match[i]].key # theories[match[j]].key
    BY <1>3, <1>5, <1>7, <1>9, MatchedOnce
  <1>10. ASSUME NEW i \in 1..m, NEW j \in 1..m, match[i] # None, match[j] # None, i # j
         PROVE  theories[match[i]].key # theories[match[j]].key
    <2>1. i < j \/ j < i
      BY <1>10
    <2>2. QED
      BY <1>9, <1>10, <2>1
  <1>11. Succession(match, m)
    BY <1>6, <1>7, <1>8, <1>10 DEF Succession, Generated
  <1>12. QED
    BY <1>11

\* The key of what a candidate becomes.
LEMMA KeyFacts ==
    ASSUME Shapes, Lines, NEW match, NEW m, Succession(match, m), NEW i \in 1..m
    PROVE  /\ match[i] = None => KeyOf(match, i) = Len(theories) + i
           /\ match[i] # None => /\ match[i] \in Current
                                 /\ KeyOf(match, i) = theories[match[i]].key
                                 /\ KeyOf(match, i) \in 1..Len(theories)
  <1>1. Len(theories) \in Nat /\ DOMAIN theories = 1..Len(theories)
    BY ListLength DEF Shapes
  <1>2. match[i] = None => KeyOf(match, i) = Len(theories) + i
    BY DEF KeyOf, Row
  <1>3. ASSUME match[i] # None
        PROVE  /\ match[i] \in Current
               /\ KeyOf(match, i) = theories[match[i]].key
               /\ KeyOf(match, i) \in 1..Len(theories)
    <2>1. match[i] \in Current
      BY <1>3 DEF Succession
    <2>2. PICK t : t = match[i]
      OBVIOUS
    <2>3. t \in 1..Len(theories) /\ theories[t].key \in 1..t
      BY <1>1, <2>1, <2>2 DEF Current, Lines, InLine
    <2>4. theories[t].key \in 1..Len(theories)
      BY <1>1, <2>3
    <2>5. QED
      BY <1>3, <2>1, <2>2, <2>4 DEF KeyOf
  <1>4. QED
    BY <1>2, <1>3

\* What becomes of the line of a theory continues its last version, which is
\* current.
LEMMA HeirsFacts ==
    ASSUME Shapes, Lines, NEW match, NEW m, Succession(match, m), NEW i \in 1..m,
           NEW t \in DOMAIN theories, KeyOf(match, i) = theories[t].key
    PROVE  match[i] \in Current /\ theories[match[i]].key = theories[t].key /\ t <= match[i]
  <1>1. Len(theories) \in Nat /\ DOMAIN theories = 1..Len(theories)
    BY ListLength DEF Shapes
  <1>2. theories[t].key \in 1..t
    BY DEF Lines, InLine
  <1>3. match[i] # None
    <2>1. SUFFICES ASSUME match[i] = None PROVE FALSE
      OBVIOUS
    <2>2. theories[t].key = Len(theories) + i
      BY <2>1, KeyFacts
    <2>3. QED
      BY <1>1, <1>2, <2>2
  <1>4. match[i] \in Current /\ theories[match[i]].key = theories[t].key
    BY <1>3, KeyFacts
  <1>5. QED
    BY <1>4, OneCurrent

\* The heirs of a current theory: the candidate that was matched with it.
LEMMA CurrentHeirs ==
    ASSUME Shapes, Lines, NEW match, NEW m, Succession(match, m), NEW t \in Current
    PROVE  /\ Heirs(match, t) = {i \in 1..m : match[i] = t}
           /\ \A i, j \in Heirs(match, t) : i = j
  <1>0. t \in DOMAIN theories /\ DOMAIN match = 1..m
    BY DEF Current, Succession
  <1>1. ASSUME NEW i \in 1..m PROVE KeyOf(match, i) = theories[t].key <=> match[i] = t
    <2>1. ASSUME KeyOf(match, i) = theories[t].key PROVE match[i] = t
      <3>1. match[i] \in Current /\ theories[match[i]].key = theories[t].key
        BY <1>0, <2>1, HeirsFacts
      <3>2. match[i] \in DOMAIN theories
        BY <3>1 DEF Current
      <3>3. QED
        BY <3>1, <3>2, OneCurrent
    <2>2. ASSUME match[i] = t PROVE KeyOf(match, i) = theories[t].key
      <3>1. t # None
        <4>1. t \in Nat
          BY <1>0, ListLength DEF Shapes
        <4>2. QED
          BY <4>1, TheoriesAssumption
      <3>2. QED
        BY <2>2, <3>1, KeyFacts
    <2>3. QED
      BY <2>1, <2>2
  <1>2. Heirs(match, t) = {i \in 1..m : match[i] = t}
    BY <1>0, <1>1 DEF Heirs
  <1>3. t # None
    <2>1. t \in Nat
      BY <1>0, ListLength DEF Shapes
    <2>2. QED
      BY <2>1, TheoriesAssumption
  <1>4. \A i, j \in 1..m : match[i] = t /\ match[j] = t => i = j
    BY <1>3 DEF Succession
  <1>5. QED
    BY <1>2, <1>4

\* A generation keeps the lines.
LEMMA LinesGenerated ==
    ASSUME Shapes, Lines, NEW match, NEW m, Succession(match, m)
    PROVE  Lines'
  <1>1. PICK n : n = Len(theories)
    OBVIOUS
  <1>2. n \in Nat /\ DOMAIN theories = 1..n
    BY <1>1, ListLength DEF Shapes
  <1>3. /\ m \in Nat /\ DOMAIN match = 1..m
        /\ DOMAIN theories' = 1..(n + m)
        /\ \A t \in 1..n : theories'[t] = IF t \in Current THEN Retired(match, t) ELSE theories[t]
        /\ \A i \in 1..m : NewRow(theories'[n + i], match, i)
    BY <1>1, <1>2 DEF Succession
  <1>4. \A t \in 1..n : t \in 1..(n + m) /\ t \in DOMAIN theories
    BY <1>2, <1>3
  <1>5. \A i \in 1..m : n + i \in 1..(n + m) /\ n + i > n /\ n + i \notin 1..n
    BY <1>2, <1>3
  <1>6. ASSUME NEW t \in 1..(n + m), t \notin 1..n PROVE t - n \in 1..m /\ n + (t - n) = t
    BY <1>2, <1>3, <1>6
  <1>7. ASSUME NEW t \in 1..n
        PROVE  theories'[t].key = theories[t].key /\ theories'[t].version = theories[t].version
    <2>1. CASE t \in Current
      <3>1. theories'[t] = Retired(match, t)
        BY <1>3, <2>1
      <3>2. t \in DOMAIN theories
        BY <1>4
      <3>3. Retired(match, t).key = theories[t].key /\ Retired(match, t).version = theories[t].version
        BY <3>2, RetiredFacts
      <3>4. QED
        BY <3>1, <3>3
    <2>2. CASE t \notin Current
      BY <1>3, <2>2
    <2>3. QED
      BY <2>1, <2>2
  <1>8. ASSUME NEW i \in 1..m
        PROVE  /\ theories'[n + i].key = KeyOf(match, i)
               /\ theories'[n + i].version = VersionOf(match, i)
               /\ AtHead(theories'[n + i])
    BY <1>3 DEF NewRow, AtHead
  <1>9. ASSUME NEW t \in 1..n
        PROVE  Later(t)' = Later(t) \cup {n + i : i \in {i \in 1..m : KeyOf(match, i) = theories[t].key}}
    <2>1. ASSUME NEW u \in 1..(n + m)
          PROVE  (u > t /\ theories'[u].key = theories[t].key) <=>
                   \/ u \in Later(t)
                   \/ \E i \in 1..m : KeyOf(match, i) = theories[t].key /\ u = n + i
      <3>1. CASE u \in 1..n
        <4>1. theories'[u].key = theories[u].key
          BY <1>7, <3>1
        <4>2. \A i \in 1..m : u # n + i
          BY <1>5, <3>1
        <4>3. QED
          BY <1>2, <3>1, <4>1, <4>2 DEF Later
      <3>2. CASE u \notin 1..n
        <4>1. PICK i : i = u - n
          OBVIOUS
        <4>2. i \in 1..m /\ n + i = u
          BY <1>6, <3>2, <4>1
        <4>3. u > t /\ u \notin Later(t)
          BY <1>2, <1>5, <3>2, <4>2 DEF Later
        <4>4. \A j \in 1..m : u = n + j => j = i
          BY <1>2, <1>3, <4>2
        <4>5. theories'[u].key = KeyOf(match, i)
          BY <1>8, <4>2
        <4>6. QED
          BY <4>2, <4>3, <4>4, <4>5
      <3>3. QED
        BY <3>1, <3>2
    <2>2. Later(t)' = {u \in 1..(n + m) : u > t /\ theories'[u].key = theories[t].key}
      BY <1>3, <1>7 DEF Later
    <2>3. \A u \in Later(t) : u \in 1..(n + m)
      BY <1>2, <1>4 DEF Later
    <2>4. QED
      BY <1>5, <2>1, <2>2, <2>3
  <1>10. ASSUME NEW t \in 1..n PROVE InLine(t)'
    <2>1. InLine(t) /\ t \in DOMAIN theories
      BY <1>4 DEF Lines
    <2>2. theories[t].key \in 1..n
      BY <1>2, <2>1 DEF InLine
    <2>3. /\ theories'[t].key \in 1..t
          /\ theories'[theories'[t].key].key = theories'[t].key
          /\ theories'[t].key = t => theories'[t].version = 1
      BY <1>7, <2>1, <2>2 DEF InLine
    <2>4. CASE t \in Current
      <3>1. Later(t) = {}
        <4>1. theories[t].current
          BY <2>4 DEF Current
        <4>2. QED
          BY <2>1, <4>1 DEF InLine, Behind
      <3>2. theories[t].current = TRUE /\ theories[t].superseded = FALSE /\ theories[t].successor = None
        <4>1. theories[t].current
          BY <2>4 DEF Current
        <4>2. AtHead(theories[t])
          BY <2>1, <3>1 DEF InLine
        <4>3. QED
          BY <4>1, <4>2 DEF AtHead
      <3>3. theories'[t] = Retired(match, t)
        BY <1>3, <2>4
      <3>4. /\ Heirs(match, t) = {i \in 1..m : KeyOf(match, i) = theories[t].key}
            /\ \A i, j \in Heirs(match, t) : i = j
        BY <1>3, <2>4, CurrentHeirs DEF Heirs
      <3>5. CASE Heirs(match, t) = {}
        <4>1. Later(t)' = {}
          BY <1>9, <3>1, <3>4, <3>5
        <4>2. AtHead(theories'[t])
          <5>1. theories'[t].current = FALSE /\ theories'[t].superseded = TRUE
            BY <2>1, <3>2, <3>3, <3>5, RetiredFacts
          <5>2. theories'[t].successor = None
            BY <2>1, <3>2, <3>3, <3>5, RetiredFacts
          <5>3. QED
            BY <5>1, <5>2 DEF AtHead
        <4>3. QED
          BY <2>3, <4>1, <4>2 DEF InLine
      <3>6. CASE Heirs(match, t) # {}
        <4>1. PICK i : i = CHOOSE j \in Heirs(match, t) : TRUE
          OBVIOUS
        <4>2. i \in Heirs(match, t)
          BY <3>6, <4>1
        <4>3. Heirs(match, t) = {i}
          BY <3>4, <4>2
        <4>4. i \in 1..m /\ KeyOf(match, i) = theories[t].key
          BY <3>4, <4>2
        <4>5. Later(t)' = {n + i}
          BY <1>9, <3>1, <3>4, <4>3
        <4>6. Behind(theories'[t]) /\ theories'[t].successor = n + i
          <5>1. theories'[t].current = FALSE /\ theories'[t].superseded = FALSE
            BY <2>1, <3>2, <3>3, <3>6, RetiredFacts
          <5>2. theories'[t].successor = n + i
            BY <1>1, <2>1, <3>3, <3>6, <4>1, RetiredFacts DEF Row
          <5>3. QED
            BY <5>1, <5>2 DEF Behind
        <4>7. match[i] = t
          BY <2>4, <4>2, CurrentHeirs
        <4>8. t # None
          BY <1>2, TheoriesAssumption
        <4>9. theories'[n + i].version = theories'[t].version + 1
          BY <1>7, <1>8, <4>4, <4>7, <4>8 DEF VersionOf
        <4>10. PICK u : u = n + i
          OBVIOUS
        <4>11. u \in Nat /\ Later(t)' = {u} /\ theories'[t].successor = u
               /\ theories'[u].version = theories'[t].version + 1
          BY <1>2, <1>3, <4>4, <4>5, <4>6, <4>9, <4>10
        <4>12. Follows(t, u)'
          BY <4>11 DEF Follows
        <4>13. QED
          BY <2>3, <4>6, <4>11, <4>12 DEF InLine
      <3>7. QED
        BY <3>5, <3>6
    <2>5. CASE t \notin Current
      <3>1. theories'[t] = theories[t]
        BY <1>3, <2>5
      <3>2. CASE Later(t) = {}
        <4>1. ASSUME NEW i \in 1..m, KeyOf(match, i) = theories[t].key PROVE FALSE
          <5>1. match[i] \in Current /\ theories[match[i]].key = theories[t].key /\ t <= match[i]
            BY <2>1, <4>1, HeirsFacts
          <5>2. match[i] \in 1..n /\ match[i] # t
            BY <1>2, <2>5, <5>1 DEF Current
          <5>3. match[i] > t
            BY <5>1, <5>2
          <5>4. match[i] \in Later(t)
            BY <1>2, <5>1, <5>2, <5>3 DEF Later
          <5>5. QED
            BY <3>2, <5>4
        <4>2. Later(t)' = {}
          BY <1>9, <3>2, <4>1
        <4>3. AtHead(theories'[t])
          BY <2>1, <3>1, <3>2 DEF InLine
        <4>4. QED
          BY <2>3, <4>2, <4>3 DEF InLine
      <3>3. CASE Later(t) # {}
        <4>1. PICK u : u = theories[t].successor
          OBVIOUS
        <4>2. Behind(theories[t]) /\ Follows(t, u)
          BY <2>1, <3>3, <4>1 DEF InLine
        <4>3. u \in Later(t) /\ u \in 1..n
          BY <1>2, <4>2 DEF Follows, Later
        <4>4. u \in Later(t)' /\ \A v \in Later(t)' : u <= v
          <5>1. \A v \in Later(t) : u <= v
            BY <4>2 DEF Follows
          <5>2. \A i \in 1..m : u <= n + i
            BY <1>2, <1>3, <4>3
          <5>3. u \in Later(t)'
            BY <1>9, <4>3
          <5>4. ASSUME NEW v \in Later(t)' PROVE u <= v
            <6>1. v \in Later(t) \/ \E i \in 1..m : v = n + i
              BY <1>9
            <6>2. QED
              BY <5>1, <5>2, <6>1
          <5>5. QED
            BY <5>3, <5>4
        <4>5. theories'[u].version = theories'[t].version + 1
          BY <1>7, <4>2, <4>3 DEF Follows
        <4>6. Follows(t, u)'
          BY <4>4, <4>5 DEF Follows
        <4>7. theories'[t].successor = u /\ Behind(theories'[t])
          BY <3>1, <4>1, <4>2
        <4>8. Later(t)' # {}
          BY <4>4
        <4>9. QED
          BY <2>3, <4>6, <4>7, <4>8 DEF InLine
      <3>4. QED
        BY <3>2, <3>3
    <2>6. QED
      BY <2>4, <2>5
  <1>11. ASSUME NEW i \in 1..m PROVE InLine(n + i)'
    <2>1. PICK u : u = n + i
      OBVIOUS
    <2>2. u \in 1..(n + m) /\ u > n /\ u \in Nat
      BY <1>2, <1>5, <2>1
    <2>3. /\ theories'[u].key = KeyOf(match, i)
          /\ theories'[u].version = VersionOf(match, i)
          /\ AtHead(theories'[u])
      BY <1>8, <2>1
    <2>4. Later(u)' = {}
      <3>1. SUFFICES ASSUME NEW v \in 1..(n + m), v > u, theories'[v].key = theories'[u].key
                     PROVE  FALSE
        BY <1>3 DEF Later
      <3>2. PICK j : j = v - n
        OBVIOUS
      <3>3. v \notin 1..n
        BY <1>2, <2>2, <3>1
      <3>4. j \in 1..m /\ n + j = v
        BY <1>6, <3>2, <3>3
      <3>5. j # i
        BY <2>1, <2>2, <3>1, <3>4
      <3>6. KeyOf(match, j) = KeyOf(match, i)
        BY <1>8, <2>3, <3>1, <3>4
      <3>7. CASE match[i] = None
        <4>1. KeyOf(match, i) = n + i
          BY <1>1, <3>7, KeyFacts
        <4>2. match[j] = None
          <5>1. KeyOf(match, j) \notin 1..n
            BY <1>5, <3>6, <4>1
          <5>2. QED
            BY <1>1, <3>4, <5>1, KeyFacts
        <4>3. KeyOf(match, j) = n + j
          BY <1>1, <3>4, <4>2, KeyFacts
        <4>4. QED
          BY <1>2, <1>3, <3>4, <3>5, <3>6, <4>1, <4>3
      <3>8. CASE match[i] # None
        <4>1. KeyOf(match, i) = theories[match[i]].key /\ KeyOf(match, i) \in 1..n
          BY <1>1, <3>8, KeyFacts
        <4>2. match[j] # None
          <5>1. SUFFICES ASSUME match[j] = None PROVE FALSE
            OBVIOUS
          <5>2. KeyOf(match, j) = n + j
            BY <1>1, <3>4, <5>1, KeyFacts
          <5>3. QED
            BY <1>5, <3>4, <3>6, <4>1, <5>2
        <4>3. KeyOf(match, j) = theories[match[j]].key
          BY <3>4, <4>2, KeyFacts
        <4>4. theories[match[i]].key # theories[match[j]].key
          BY <3>4, <3>5, <3>8, <4>2 DEF Succession
        <4>5. QED
          BY <3>6, <4>1, <4>3, <4>4
      <3>9. QED
        BY <3>7, <3>8
    <2>5. CASE match[i] = None
      <3>1. KeyOf(match, i) = u
        BY <1>1, <2>1, <2>5, KeyFacts
      <3>2. theories'[u].key = u
        BY <2>3, <3>1
      <3>3. theories'[u].version = 1
        BY <2>3, <2>5 DEF VersionOf
      <3>4. u \in 1..u
        BY <2>2
      <3>5. InLine(u)'
        BY <2>3, <2>4, <3>2, <3>3, <3>4 DEF InLine
      <3>6. QED
        BY <2>1, <3>5
    <2>6. CASE match[i] # None
      <3>1. PICK key : key = KeyOf(match, i)
        OBVIOUS
      <3>2. match[i] \in Current /\ key = theories[match[i]].key /\ key \in 1..n
        BY <1>1, <2>6, <3>1, KeyFacts
      <3>3. match[i] \in DOMAIN theories
        BY <3>2 DEF Current
      <3>4. theories[key].key = key
        BY <3>2, <3>3 DEF Lines, InLine
      <3>5. theories'[key].key = key
        BY <1>7, <3>2, <3>4
      <3>6. key \in 1..u /\ key # u
        BY <1>2, <2>2, <3>2
      <3>7. InLine(u)'
        BY <2>3, <2>4, <3>1, <3>5, <3>6 DEF InLine
      <3>8. QED
        BY <2>1, <3>7
    <2>7. QED
      BY <2>5, <2>6
  <1>12. ASSUME NEW t \in 1..(n + m) PROVE InLine(t)'
    <2>1. CASE t \in 1..n
      BY <1>10, <2>1
    <2>2. CASE t \notin 1..n
      <3>1. PICK i : i = t - n
        OBVIOUS
      <3>2. i \in 1..m /\ n + i = t
        BY <1>6, <2>2, <3>1
      <3>3. InLine(n + i)'
        BY <1>11, <3>2
      <3>4. QED
        BY <3>2, <3>3
    <2>3. QED
      BY <2>1, <2>2
  <1>13. QED
    BY <1>3, <1>12 DEF Lines

Chained == Grounds /\ Orders /\ Lines

\* With one request at a time every generation continues all that is current:
\* the versions stay in their lines.
LEMMA ChainedHolds ==
    ASSUME SingleSession
    PROVE  Spec => []Chained
  <1>1. Init => Orders /\ Lines
    BY DEF Init, Orders, Lines, Idle, Reading
  <1>2. Grounds /\ Grounds' /\ Orders /\ Lines /\ [Next]_vars => Orders' /\ Lines'
    <2>1. SUFFICES ASSUME Grounds, Orders, Lines, [Next]_vars PROVE Orders' /\ Lines'
      OBVIOUS
    <2>2. CASE Next
      <3>1. Steps
        BY <2>2, EveryStep
      <3>2. Orders'
        BY <2>1, <3>1, OrdersStay
      <3>3. CASE \E s \in Sessions : Generate(s)
        <4>1. PICK match, m : Succession(match, m)
          BY <2>1, <3>3, Succeeds
        <4>2. Lines'
          BY <2>1, <4>1, LinesGenerated DEF Grounds
        <4>3. QED
          BY <3>2, <4>2
      <3>4. CASE ~\E s \in Sessions : Generate(s)
        <4>1. SameRows
          BY <2>1, <3>1, <3>4, TheoryEffects DEF Grounds
        <4>2. Lines'
          BY <2>1, <4>1, LinesKept DEF Grounds
        <4>3. QED
          BY <3>2, <4>2
      <3>5. QED
        BY <3>3, <3>4
    <2>3. CASE UNCHANGED vars
      BY <2>1, <2>3 DEF vars, Orders, Current, Lines, InLine, Later, Follows
    <2>4. QED
      BY <2>1, <2>2, <2>3
  <1>3. QED
    BY <1>1, <1>2, GroundsHold, PTL DEF Spec, Chained

\* What is in line is numbered in its order.
LEMMA LinesAreLineage ==
    ASSUME Shapes, Lines
    PROVE  Lineage
  <1>1. PICK n : n = Len(theories)
    OBVIOUS
  <1>2. n \in Nat /\ DOMAIN theories = 1..n
    BY <1>1, ListLength DEF Shapes
  <1>3. SUFFICES ASSUME NEW k \in Keys, NEW rows, rows = {t \in DOMAIN theories : theories[t].key = k},
                        NEW line, line = InOrder(rows), NEW v \in DOMAIN line
                 PROVE  /\ theories[line[v]].version = v
                        /\ IF v < Len(line)
                             THEN /\ ~theories[line[v]].current /\ ~theories[line[v]].superseded
                                  /\ theories[line[v]].successor = line[v + 1]
                             ELSE /\ theories[line[v]].current # theories[line[v]].superseded
                                  /\ theories[line[v]].successor = None
    BY DEF Lineage
  <1>4. PICK last : last = Cardinality(rows)
    OBVIOUS
  <1>5. last \in Nat /\ Lists(line, last, rows)
    <2>1. rows \subseteq 1..n
      BY <1>2, <1>3
    <2>2. QED
      BY <1>2, <1>3, <1>4, <2>1, InOrderFacts
  <1>6. /\ line \in [1..last -> rows]
        /\ \A i, j \in 1..last : i < j => line[i] < line[j]
        /\ \A t \in rows : \E i \in 1..last : line[i] = t
    BY <1>5 DEF Lists
  <1>7. Len(line) = last /\ DOMAIN line = 1..last
    BY <1>5, <1>6, FunctionsAreSequences
  <1>8. ASSUME NEW i \in 1..last
        PROVE  line[i] \in 1..n /\ theories[line[i]].key = k /\ InLine(line[i])
    <2>1. line[i] \in rows
      BY <1>6
    <2>2. line[i] \in DOMAIN theories /\ theories[line[i]].key = k
      BY <1>3, <2>1
    <2>3. QED
      BY <1>2, <2>2 DEF Lines
  <1>9. ASSUME NEW i \in 1..last
        PROVE  Later(line[i]) = {line[j] : j \in {j \in 1..last : j > i}}
    <2>1. ASSUME NEW u \in Later(line[i]) PROVE \E j \in 1..last : j > i /\ line[j] = u
      <3>1. u \in rows /\ u > line[i]
        BY <1>3, <1>8 DEF Later
      <3>2. PICK j \in 1..last : line[j] = u
        BY <1>6, <3>1
      <3>3. ~(j < i) /\ j # i
        <4>1. j < i => line[j] < line[i]
          BY <1>6
        <4>2. line[j] \in Int /\ line[i] \in Int /\ line[j] > line[i]
          BY <1>8, <3>1, <3>2
        <4>3. QED
          BY <4>1, <4>2
      <3>4. j > i
        BY <1>5, <3>3
      <3>5. QED
        BY <3>2, <3>4
    <2>2. ASSUME NEW j \in 1..last, j > i PROVE line[j] \in Later(line[i])
      <3>1. line[i] < line[j]
        BY <1>6, <2>2
      <3>2. line[j] > line[i]
        BY <1>8, <3>1
      <3>3. QED
        BY <1>2, <1>8, <3>2 DEF Later
    <2>3. QED
      BY <2>1, <2>2
  <1>10. ASSUME NEW i \in 1..last, i # last
         PROVE  /\ i + 1 \in 1..last
                /\ Behind(theories[line[i]])
                /\ theories[line[i]].successor = line[i + 1]
                /\ theories[line[i + 1]].version = theories[line[i]].version + 1
    <2>1. i + 1 \in 1..last /\ i + 1 > i
      BY <1>5, <1>10
    <2>2. line[i + 1] \in Later(line[i])
      BY <1>9, <2>1
    <2>3. PICK u : u = theories[line[i]].successor
      OBVIOUS
    <2>4. Behind(theories[line[i]]) /\ Follows(line[i], u)
      BY <1>8, <2>2, <2>3 DEF InLine
    <2>5. PICK j \in 1..last : j > i /\ line[j] = u
      BY <1>9, <2>4 DEF Follows
    <2>6. u <= line[i + 1]
      BY <2>2, <2>4 DEF Follows
    <2>7. j = i + 1
      <3>1. i + 1 < j => line[i + 1] < line[j]
        BY <1>6, <2>1
      <3>2. line[i + 1] \in Int /\ line[j] \in Int /\ line[j] <= line[i + 1]
        BY <1>8, <2>1, <2>5, <2>6
      <3>3. ~(i + 1 < j)
        BY <3>1, <3>2
      <3>4. QED
        BY <1>5, <2>5, <3>3
    <2>8. u = line[i + 1]
      BY <2>5, <2>7
    <2>9. QED
      BY <2>1, <2>3, <2>4, <2>8 DEF Follows
  <1>11. k \in rows /\ \A t \in rows : k <= t
    <2>1. ASSUME NEW t \in rows PROVE k \in rows /\ k <= t
      <3>1. t \in 1..n /\ theories[t].key = k /\ InLine(t)
        BY <1>2, <1>3, <2>1 DEF Lines
      <3>2. k \in 1..t /\ theories[k].key = k
        BY <3>1 DEF InLine
      <3>3. k \in 1..n
        BY <1>2, <3>1, <3>2
      <3>4. QED
        BY <1>2, <1>3, <3>1, <3>2, <3>3
    <2>2. \E t \in DOMAIN theories : theories[t].key = k
      BY <1>3 DEF Keys
    <2>3. rows # {}
      BY <1>3, <2>2
    <2>4. QED
      BY <2>1, <2>3
  <1>12. 1 \in 1..last /\ theories[line[1]].version = 1
    <2>1. PICK i \in 1..last : line[i] = k
      BY <1>6, <1>11
    <2>2. 1 \in 1..last
      BY <1>5
    <2>3. k <= line[1]
      BY <1>6, <1>11, <2>2
    <2>4. i = 1
      <3>1. 1 < i => line[1] < line[i]
        BY <1>6, <2>2
      <3>2. line[1] \in Int /\ line[i] \in Int /\ line[i] <= line[1]
        BY <1>8, <2>1, <2>2, <2>3
      <3>3. ~(1 < i)
        BY <3>1, <3>2
      <3>4. QED
        BY <1>5, <3>3
    <2>5. InLine(k) /\ theories[k].key = k
      BY <1>8, <2>1
    <2>6. QED
      BY <2>1, <2>2, <2>4, <2>5 DEF InLine
  <1>13. PICK numbered : numbered = {i \in 0..last : i = 0 \/ theories[line[i]].version = i}
    OBVIOUS
  <1>14. ASSUME NEW i \in numbered, i # last PROVE i + 1 \in numbered
    <2>1. i \in 0..last /\ (i = 0 \/ theories[line[i]].version = i)
      BY <1>13
    <2>2. CASE i = 0
      BY <1>5, <1>12, <1>13, <2>2
    <2>3. CASE i # 0
      <3>1. i \in 1..last
        BY <1>5, <2>1, <2>3
      <3>2. i + 1 \in 0..last /\ theories[line[i + 1]].version = i + 1
        BY <1>5, <1>10, <1>14, <2>1, <2>3, <3>1
      <3>3. QED
        BY <1>13, <3>2
    <2>4. QED
      BY <2>2, <2>3
  <1>15. numbered = 0..last
    <2>1. numbered \subseteq 0..last /\ 0 \in numbered
      BY <1>5, <1>13
    <2>2. QED
      BY <1>5, <1>14, <2>1, Stepwise
  <1>16. v \in 1..last /\ theories[line[v]].version = v
    <2>1. v \in 1..last /\ v \in 0..last /\ v # 0
      BY <1>3, <1>5, <1>7
    <2>2. v \in numbered
      BY <1>15, <2>1
    <2>3. QED
      BY <1>13, <2>1, <2>2
  <1>17. CASE v < last
    <2>1. v # last
      BY <1>5, <1>16, <1>17
    <2>2. Behind(theories[line[v]]) /\ theories[line[v]].successor = line[v + 1]
      BY <1>10, <1>16, <2>1
    <2>3. QED
      BY <1>7, <1>16, <1>17, <2>2 DEF Behind
  <1>18. CASE ~(v < last)
    <2>1. \A j \in 1..last : ~(j > v)
      BY <1>5, <1>16, <1>18
    <2>2. Later(line[v]) = {}
      BY <1>9, <1>16, <2>1
    <2>3. AtHead(theories[line[v]])
      BY <1>8, <1>16, <2>2 DEF InLine
    <2>4. QED
      BY <1>7, <1>16, <1>18, <2>3 DEF AtHead
  <1>19. QED
    BY <1>17, <1>18

\* The versions of a theory are a line, numbered 1, 2, ... in the order they
\* were written, each followed by its successor; only the last of them may be
\* current or dropped.  One request at a time: two generations that overlap
\* would both continue what they read.
THEOREM LineageHolds ==
    ASSUME SingleSession
    PROVE  Spec => []Lineage
  <1>1. Chained => Lineage
    BY LinesAreLineage DEF Chained, Grounds
  <1>2. QED
    BY <1>1, ChainedHolds, PTL

-----------------------------------------------------------------------------
(* What goes over to the next version *)

AtRest(w, rows) == w.status = "pending" /\ rows[w.theory].successor # None => w.asked # None
Tried(e, rows) == e.kind = "field" => rows[e.theory].successor = None

\* A current theory has no successor.
LEMMA CurrentAtHead ==
    ASSUME Lines, NEW t \in Current
    PROVE  t \in DOMAIN theories /\ theories[t].successor = None
  <1>1. t \in DOMAIN theories /\ theories[t].current
    BY DEF Current
  <1>2. Later(t) = {}
    BY <1>1 DEF Lines, InLine, Behind
  <1>3. QED
    BY <1>1, <1>2 DEF Lines, InLine, AtHead

\* What was on a theory without successor is, after a generation, on one
\* without successor.
LEMMA HeirAtHead ==
    ASSUME Shapes, Lines, NEW match, NEW m, Succession(match, m),
           NEW t \in DOMAIN theories, theories[t].successor = None
    PROVE  theories'[Heir(match, t)].successor = None
  <1>1. m \in Nat /\ DOMAIN match = 1..m
    BY DEF Succession
  <1>2. CASE Heir(match, t) = t /\ t \notin ToSet(match)
    <2>1. theories'[t] = IF t \in Current THEN Retired(match, t) ELSE theories[t]
      BY DEF Succession
    <2>2. CASE t \in Current
      <3>1. Heirs(match, t) = {}
        BY <1>1, <1>2, <2>2, CurrentHeirs DEF ToSet
      <3>2. Retired(match, t).successor = None
        BY <3>1, RetiredFacts
      <3>3. QED
        BY <1>2, <2>1, <2>2, <3>2
    <2>3. CASE t \notin Current
      BY <1>2, <2>1, <2>3
    <2>4. QED
      BY <2>2, <2>3
  <1>3. ASSUME NEW i \in 1..m, Heir(match, t) = Len(theories) + i
        PROVE  theories'[Heir(match, t)].successor = None
    <2>1. NewRow(theories'[Len(theories) + i], match, i)
      BY DEF Succession
    <2>2. QED
      BY <1>3, <2>1 DEF NewRow
  <1>4. QED
    BY <1>1, <1>2, <1>3, HeirFacts

\* A generation takes over what waits and what is tried in the field, and
\* leaves what was answered.
LEMMA CommitmentsGenerated ==
    ASSUME Shapes, Lines, CommitmentsFollow, NEW match, NEW m, Succession(match, m)
    PROVE  CommitmentsFollow' /\ AnswersStand
  <1>1. /\ \A w \in tripwires : TripwireColumns \subseteq DOMAIN w /\ w.theory \in DOMAIN theories
        /\ \A e \in DOMAIN experiments : /\ ExperimentColumns \subseteq DOMAIN experiments[e]
                                         /\ experiments[e].theory \in DOMAIN theories
    BY DEF Shapes
  <1>2. tripwires' = {Carried(w, Heir(match, w.theory)) : w \in tripwires}
    BY DEF Succession
  <1>3. ASSUME NEW w \in tripwires PROVE AtRest(Carried(w, Heir(match, w.theory)), theories')
    <2>1. PICK heir : heir = Heir(match, w.theory)
      OBVIOUS
    <2>2. AtRest(w, theories)
      BY DEF CommitmentsFollow, AtRest
    <2>3. CASE w.status # "pending"
      BY <2>3 DEF Carried, AtRest
    <2>4. CASE w.status = "pending"
      <3>1. /\ Carried(w, heir).asked = w.asked
            /\ Carried(w, heir).theory = heir
        BY <1>1, <2>4 DEF Carried, TripwireColumns
      <3>2. theories[w.theory].successor = None => theories'[heir].successor = None
        BY <1>1, <2>1, HeirAtHead
      <3>3. AtRest(Carried(w, heir), theories')
        BY <2>2, <2>4, <3>1, <3>2 DEF AtRest
      <3>4. QED
        BY <2>1, <3>3
    <2>5. QED
      BY <2>3, <2>4
  <1>4. ASSUME NEW e \in DOMAIN experiments' PROVE Tried(experiments'[e], theories')
    <2>1. /\ e \in DOMAIN experiments
          /\ experiments'[e] = [experiments[e] EXCEPT !.theory =
                                 IF experiments[e].kind = "field" THEN Heir(match, @) ELSE @]
      BY DEF Succession
    <2>2. Tried(experiments[e], theories)
      BY <2>1 DEF CommitmentsFollow, Tried
    <2>3. CASE experiments[e].kind # "field"
      <3>1. experiments'[e].kind = experiments[e].kind
        BY <1>1, <2>1 DEF ExperimentColumns
      <3>2. QED
        BY <2>3, <3>1 DEF Tried
    <2>4. CASE experiments[e].kind = "field"
      <3>1. PICK heir : heir = Heir(match, experiments[e].theory)
        OBVIOUS
      <3>2. experiments'[e].theory = heir
        BY <1>1, <2>1, <2>4, <3>1 DEF ExperimentColumns
      <3>3. theories'[heir].successor = None
        BY <1>1, <2>1, <2>2, <2>4, <3>1, HeirAtHead DEF Tried
      <3>4. QED
        BY <3>2, <3>3 DEF Tried
    <2>5. QED
      BY <2>3, <2>4
  <1>5. AnswersStand
    <2>1. ASSUME NEW w \in tripwires, w.status # "pending" PROVE w \in tripwires'
      BY <1>2, <2>1 DEF Carried
    <2>2. QED
      BY <2>1 DEF AnswersStand
  <1>6. \A w \in tripwires' : AtRest(w, theories')
    BY <1>2, <1>3
  <1>7. QED
    BY <1>4, <1>5, <1>6 DEF CommitmentsFollow, AtRest, Tried

\* Each other step adds commitments to what is current, or to a debate that was
\* held.
LEMMA CommitmentsKept ==
    ASSUME Grounds, Orders, Lines, CommitmentsFollow, Steps, ~\E s \in Sessions : Generate(s)
    PROVE  CommitmentsFollow' /\ AnswersStand
  <1>1. /\ \A w \in tripwires : TripwireColumns \subseteq DOMAIN w /\ w.theory \in DOMAIN theories
        /\ \A e \in DOMAIN experiments : /\ ExperimentColumns \subseteq DOMAIN experiments[e]
                                         /\ experiments[e].theory \in DOMAIN theories
    BY DEF Grounds, Shapes
  <1>2. \A t \in DOMAIN theories : theories'[t].successor = theories[t].successor
    BY TheoryEffects DEF Grounds, SameRows, SameRow
  <1>3. \A w \in tripwires : AtRest(w, theories')
    BY <1>1, <1>2 DEF CommitmentsFollow, AtRest
  <1>4. \A t \in Current : theories'[t].successor = None
    BY <1>2, CurrentAtHead
  <1>5. ASSUME NEW e \in DOMAIN experiments' PROVE Tried(experiments'[e], theories')
    <2>1. \/ e \in DOMAIN experiments /\ SameExperiment(experiments'[e], experiments[e])
          \/ \E t, kind, status : t \in Current /\ experiments'[e] = Experiment(t, kind, status)
      BY ExperimentEffects DEF Grounds
    <2>2. CASE e \in DOMAIN experiments /\ SameExperiment(experiments'[e], experiments[e])
      BY <1>1, <1>2, <2>2 DEF CommitmentsFollow, Tried, SameExperiment
    <2>3. ASSUME NEW t \in Current, NEW kind, NEW status, experiments'[e] = Experiment(t, kind, status)
          PROVE  Tried(experiments'[e], theories')
      BY <1>4, <2>3 DEF Tried, Experiment
    <2>4. QED
      BY <2>1, <2>2, <2>3
  <1>6. ASSUME \A w \in tripwires' : AtRest(w, theories')
        PROVE  CommitmentsFollow'
    BY <1>5, <1>6 DEF CommitmentsFollow, AtRest, Tried
  <1>7. ASSUME tripwires' = tripwires PROVE CommitmentsFollow' /\ AnswersStand
    BY <1>3, <1>6, <1>7 DEF AnswersStand
  <1>8. ASSUME NEW s \in Sessions, GenerateTripwires(s) PROVE CommitmentsFollow' /\ AnswersStand
    <2>1. work[s].op \in Reading
      BY <1>8 DEF GenerateTripwires, Answered, Reading
    <2>2. ToSet(work[s].of) = Current
      BY <2>1 DEF Orders
    <2>3. /\ \A w \in tripwires : w.status # "pending" => w \in tripwires'
          /\ \A w \in tripwires' :
               \/ w \in tripwires
               \/ \E id, t, direction : t \in Current /\ w = Pending(id, t, direction, None)
      BY <1>8, <2>2, TripwiresWritten DEF Grounds
    <2>4. \A id, direction, t : t \in Current => AtRest(Pending(id, t, direction, None), theories')
      BY <1>4 DEF AtRest, Pending
    <2>5. CommitmentsFollow'
      BY <1>3, <1>6, <2>3, <2>4
    <2>6. AnswersStand
      BY <2>3 DEF AnswersStand
    <2>7. QED
      BY <2>5, <2>6
  <1>9. ASSUME NEW w \in tripwires, NEW x, tripwires' = (tripwires \ {w}) \cup {x},
               AtRest(x, theories'),
               w.status # "pending" =>
                 /\ x.status # "pending" /\ x.id = w.id /\ x.theory = w.theory
                 /\ x.direction = w.direction /\ x.level = w.level
        PROVE  CommitmentsFollow' /\ AnswersStand
    <2>1. CommitmentsFollow'
      BY <1>3, <1>6, <1>9
    <2>2. ASSUME NEW y \in tripwires, y.status # "pending"
          PROVE  \E z \in tripwires' : /\ z.id = y.id /\ z.status # "pending" /\ z.theory = y.theory
                                       /\ z.direction = y.direction /\ z.level = y.level
      <3>1. x \in tripwires' /\ (y # w => y \in tripwires')
        BY <1>9
      <3>2. QED
        BY <1>9, <2>2, <3>1
    <2>3. QED
      BY <2>1, <2>2 DEF AnswersStand
  <1>10. ASSUME NEW w \in tripwires, Observes(w) PROVE CommitmentsFollow' /\ AnswersStand
    <2>1. PICK observed, given, event : Observe(w, observed, given, event)
      BY <1>10 DEF Observes
    <2>2. PICK status : status = IF observed THEN "observed" ELSE "not_observed"
      OBVIOUS
    <2>3. PICK x : x = [w EXCEPT !.status = status, !.last = Said(status, given, event)]
      OBVIOUS
    <2>4. tripwires' = (tripwires \ {w}) \cup {x}
      BY <2>1, <2>2, <2>3 DEF Observe
    <2>5. /\ x.status # "pending" /\ x.id = w.id /\ x.theory = w.theory
          /\ x.direction = w.direction /\ x.level = w.level
      BY <1>1, <2>2, <2>3 DEF TripwireColumns
    <2>6. AtRest(x, theories')
      BY <2>5 DEF AtRest
    <2>7. QED
      BY <1>9, <2>4, <2>5, <2>6
  <1>11. ASSUME NEW w \in tripwires, NEW level, SetDecisiveness(w, level)
         PROVE  CommitmentsFollow' /\ AnswersStand
    <2>1. PICK x : x = [w EXCEPT !.level = level]
      OBVIOUS
    <2>2. w.status = "pending" /\ tripwires' = (tripwires \ {w}) \cup {x}
      BY <1>11, <2>1 DEF SetDecisiveness
    <2>3. x.status = w.status /\ x.theory = w.theory /\ x.asked = w.asked
      BY <1>1, <2>1 DEF TripwireColumns
    <2>4. AtRest(x, theories')
      BY <1>3, <2>3 DEF AtRest
    <2>5. QED
      BY <1>9, <2>2, <2>4
  <1>12. ASSUME NEW d \in DOMAIN debates, Promote(d) PROVE CommitmentsFollow' /\ AnswersStand
    <2>1. d # None
      <3>1. d \in Nat
        BY ListLength DEF Grounds, Shapes
      <3>2. QED
        BY <3>1, TheoriesAssumption
    <2>2. PICK id : tripwires' = tripwires \cup {Pending(id + 1, debates[d].a, "falsifies", d),
                                                Pending(id + 2, debates[d].b, "falsifies", d)}
      BY <1>12 DEF Promote
    <2>3. \A i, t : AtRest(Pending(i, t, "falsifies", d), theories')
      BY <2>1 DEF AtRest, Pending
    <2>4. QED
      BY <1>3, <1>6, <2>2, <2>3 DEF AnswersStand
  <1>13. QED
    BY <1>7, <1>8, <1>10, <1>11, <1>12, OtherEffects

\* A new version takes over what is still open of the one before it, and nothing
\* that was answered: a tripwire that waits, or a field test, is on a theory that
\* has no successor, and an observation stays with what it judged.  One request
\* at a time, as for the lines.
THEOREM SuccessionHolds ==
    ASSUME SingleSession
    PROVE  Spec => SuccessionIsFair
  <1>1. Init => CommitmentsFollow
    BY DEF Init, CommitmentsFollow
  <1>2. Chained /\ CommitmentsFollow /\ [Next]_vars => CommitmentsFollow' /\ [AnswersStand]_vars
    <2>1. SUFFICES ASSUME Chained, CommitmentsFollow, [Next]_vars
                   PROVE  CommitmentsFollow' /\ [AnswersStand]_vars
      OBVIOUS
    <2>2. CASE Next
      <3>1. Steps
        BY <2>2, EveryStep
      <3>2. CASE \E s \in Sessions : Generate(s)
        <4>1. PICK match, m : Succession(match, m)
          BY <2>1, <3>2, Succeeds DEF Chained
        <4>2. QED
          BY <2>1, <4>1, CommitmentsGenerated DEF Chained, Grounds
      <3>3. CASE ~\E s \in Sessions : Generate(s)
        BY <2>1, <3>1, <3>3, CommitmentsKept DEF Chained
      <3>4. QED
        BY <3>2, <3>3
    <2>3. CASE UNCHANGED vars
      BY <2>1, <2>3 DEF vars, CommitmentsFollow
    <2>4. QED
      BY <2>1, <2>2, <2>3
  <1>3. CommitmentsFollow' /\ [AnswersStand]_vars => [CommitmentsFollow' /\ AnswersStand]_vars
    OBVIOUS
  <1>4. QED
    BY <1>1, <1>2, <1>3, ChainedHolds, PTL DEF Spec, SuccessionIsFair

-----------------------------------------------------------------------------
(* The rows of beliefs *)

BeliefColumns == {"kind", "key", "weight", "source", "id", "event", "at"}
BeliefShape(r, latest) ==
    /\ BeliefColumns \subseteq DOMAIN r
    /\ r.kind \in {"prior", "evidence"} /\ r.weight \in Int
    /\ r.kind = "evidence" => r.weight \in (-MaxWeight)..MaxWeight
    /\ r.at \in 1..latest
InTime(rows) == \A i, j \in DOMAIN rows : i < j => rows[i].at < rows[j].at
BeliefRows ==
    /\ IsList(beliefs) /\ time \in Nat /\ InTime(beliefs)
    /\ \A i \in DOMAIN beliefs : BeliefShape(beliefs[i], time)

EvidenceIn(rows) == {r \in ToSet(rows) : r.kind = "evidence"}
SameSource(r, row) == r.key = row.key /\ r.source = row.source /\ r.id = row.id

\* What is picked of a list is a list of rows of it, in their order.
LEMMA PickedRows ==
    ASSUME NEW rows, IsList(rows), NEW places, places \subseteq DOMAIN rows
    PROVE  /\ IsList(Picked(rows, places))
           /\ Len(Picked(rows, places)) \in Nat
           /\ \E kept : /\ Lists(kept, Len(Picked(rows, places)), places)
                        /\ \A n \in 1..Len(Picked(rows, places)) : Picked(rows, places)[n] = rows[kept[n]]
  <1>1. Len(rows) \in Nat /\ rows = [i \in 1..Len(rows) |-> rows[i]] /\ DOMAIN rows = 1..Len(rows)
    BY ListLength
  <1>2. PICK S : S = {rows[i] : i \in 1..Len(rows)}
    OBVIOUS
  <1>3. rows \in [1..Len(rows) -> S]
    BY <1>1, <1>2
  <1>4. rows \in Seq(S)
    BY <1>1, <1>3, FunctionsAreSequences
  <1>5. PICK p : p = Picked(rows, places)
    OBVIOUS
  <1>6. PICK kept : /\ p \in Seq(S) /\ Len(p) = Cardinality(places)
                    /\ Lists(kept, Cardinality(places), places)
                    /\ \A n \in 1..Cardinality(places) : p[n] = rows[kept[n]]
    BY <1>4, <1>5, PickedFacts
  <1>7. Len(p) \in Nat /\ p = [i \in 1..Len(p) |-> p[i]]
    BY <1>6
  <1>8. IsList(p)
    BY <1>7 DEF IsList
  <1>9. QED
    BY <1>5, <1>6, <1>7, <1>8

\* The rows that are picked, and their order.
LEMMA PickedFrom ==
    ASSUME NEW rows, IsList(rows), NEW places, places \subseteq DOMAIN rows
    PROVE  /\ IsList(Picked(rows, places))
           /\ ToSet(Picked(rows, places)) = {rows[i] : i \in places}
           /\ InTime(rows) => InTime(Picked(rows, places))
  <1>1. PICK p : p = Picked(rows, places)
    OBVIOUS
  <1>2. /\ IsList(p) /\ Len(p) \in Nat
        /\ \E kept : Lists(kept, Len(p), places) /\ \A n \in 1..Len(p) : p[n] = rows[kept[n]]
    BY <1>1, PickedRows
  <1>3. PICK kept : Lists(kept, Len(p), places) /\ \A n \in 1..Len(p) : p[n] = rows[kept[n]]
    BY <1>2
  <1>4. DOMAIN p = 1..Len(p)
    BY <1>2, ListLength
  <1>5. /\ \A n \in 1..Len(p) : kept[n] \in places
        /\ \A i, j \in 1..Len(p) : i < j => kept[i] < kept[j]
        /\ \A e \in places : \E n \in 1..Len(p) : kept[n] = e
    BY <1>3 DEF Lists
  <1>6. ToSet(p) = {rows[i] : i \in places}
    BY <1>3, <1>4, <1>5 DEF ToSet
  <1>7. ASSUME InTime(rows) PROVE InTime(p)
    BY <1>3, <1>4, <1>5, <1>7 DEF InTime
  <1>8. QED
    BY <1>1, <1>2, <1>6, <1>7

\* A row that is appended is the last.
LEMMA AppendedRow ==
    ASSUME NEW rows, IsList(rows), NEW row
    PROVE  /\ IsList(Append(rows, row))
           /\ ToSet(Append(rows, row)) = ToSet(rows) \cup {row}
           /\ InTime(rows) /\ (\A r \in ToSet(rows) : r.at < row.at) => InTime(Append(rows, row))
  <1>1. PICK a : a = Append(rows, row)
    OBVIOUS
  <1>2. /\ IsList(a) /\ DOMAIN a = 1..(Len(rows) + 1) /\ DOMAIN rows = 1..Len(rows)
        /\ \A i \in DOMAIN rows : a[i] = rows[i]
        /\ a[Len(rows) + 1] = row
    BY <1>1, Appended
  <1>3. Len(rows) \in Nat
    BY ListLength
  <1>4. ToSet(a) = ToSet(rows) \cup {row}
    <2>1. \A i \in DOMAIN a : i \in DOMAIN rows \/ i = Len(rows) + 1
      BY <1>2, <1>3
    <2>2. DOMAIN rows \subseteq DOMAIN a /\ Len(rows) + 1 \in DOMAIN a
      BY <1>2, <1>3
    <2>3. QED
      BY <1>2, <2>1, <2>2 DEF ToSet
  <1>5. ASSUME InTime(rows), \A r \in ToSet(rows) : r.at < row.at PROVE InTime(a)
    <2>1. SUFFICES ASSUME NEW i \in DOMAIN a, NEW j \in DOMAIN a, i < j PROVE a[i].at < a[j].at
      BY DEF InTime
    <2>2. i \in DOMAIN rows
      BY <1>2, <1>3, <2>1
    <2>3. CASE j \in DOMAIN rows
      BY <1>2, <1>5, <2>1, <2>2, <2>3 DEF InTime
    <2>4. CASE j \notin DOMAIN rows
      <3>1. j = Len(rows) + 1
        BY <1>2, <1>3, <2>4
      <3>2. rows[i] \in ToSet(rows)
        BY <2>2 DEF ToSet
      <3>3. QED
        BY <1>2, <1>5, <2>2, <3>1, <3>2
    <2>5. QED
      BY <2>3, <2>4
  <1>6. QED
    BY <1>1, <1>2, <1>4, <1>5

-----------------------------------------------------------------------------
(* What a step writes of beliefs *)

\* Recording an observation takes the row of the same source out and adds one.
LEMMA RecordedRows ==
    ASSUME BeliefRows, NEW row, BeliefShape(row, time + 1), row.at = time + 1,
           row.kind = "evidence",
           time' = time + 1, beliefs' = WithEvidence(beliefs, row)
    PROVE  /\ BeliefRows'
           /\ EvidenceIn(beliefs') = {r \in EvidenceIn(beliefs) : ~SameSource(r, row)} \cup {row}
  <1> DEFINE places == {i \in DOMAIN beliefs : ~(/\ beliefs[i].key = row.key
                                                 /\ beliefs[i].source = row.source
                                                 /\ beliefs[i].id = row.id)}
  <1>1. PICK p : p = Picked(beliefs, places)
    OBVIOUS
  <1>2. beliefs' = Append(p, row)
    BY <1>1 DEF WithEvidence
  <1>3. /\ IsList(p) /\ ToSet(p) = {beliefs[i] : i \in places} /\ InTime(p)
    BY <1>1, PickedFrom DEF BeliefRows
  <1>4. /\ ToSet(p) = {r \in ToSet(beliefs) : ~SameSource(r, row)}
    BY <1>3 DEF ToSet, SameSource
  <1>5. \A r \in ToSet(beliefs) : BeliefShape(r, time) /\ time \in Nat
    BY DEF BeliefRows, ToSet
  <1>6. \A r \in ToSet(p) : r.at < row.at
    BY <1>4, <1>5 DEF BeliefShape
  <1>7. IsList(beliefs') /\ ToSet(beliefs') = ToSet(p) \cup {row} /\ InTime(beliefs')
    BY <1>2, <1>3, <1>6, AppendedRow
  <1>8. \A r \in ToSet(beliefs') : BeliefShape(r, time')
    BY <1>4, <1>5, <1>7 DEF BeliefShape
  <1>9. BeliefRows'
    <2>1. time' \in Nat
      BY DEF BeliefRows
    <2>2. \A i \in DOMAIN beliefs' : BeliefShape(beliefs'[i], time')
      BY <1>8 DEF ToSet
    <2>3. QED
      BY <1>7, <2>1, <2>2 DEF BeliefRows
  <1>10. EvidenceIn(beliefs') = {r \in EvidenceIn(beliefs) : ~SameSource(r, row)} \cup {row}
    BY <1>4, <1>7 DEF EvidenceIn
  <1>11. QED
    BY <1>9, <1>10

\* A stated prior is added.
LEMMA StatedRows ==
    ASSUME BeliefRows, NEW row, BeliefShape(row, time + 1), row.at = time + 1,
           row.kind = "prior",
           time' = time + 1, beliefs' = Append(beliefs, row)
    PROVE  BeliefRows' /\ EvidenceIn(beliefs') = EvidenceIn(beliefs)
  <1>1. \A r \in ToSet(beliefs) : BeliefShape(r, time) /\ time \in Nat
    BY DEF BeliefRows, ToSet
  <1>2. \A r \in ToSet(beliefs) : r.at < row.at
    BY <1>1 DEF BeliefShape
  <1>3. IsList(beliefs') /\ ToSet(beliefs') = ToSet(beliefs) \cup {row} /\ InTime(beliefs')
    BY <1>2, AppendedRow DEF BeliefRows
  <1>4. \A r \in ToSet(beliefs') : BeliefShape(r, time')
    BY <1>1, <1>3 DEF BeliefShape
  <1>5. BeliefRows'
    <2>1. time' \in Nat
      BY DEF BeliefRows
    <2>2. \A i \in DOMAIN beliefs' : BeliefShape(beliefs'[i], time')
      BY <1>4 DEF ToSet
    <2>3. QED
      BY <1>3, <2>1, <2>2 DEF BeliefRows
  <1>6. EvidenceIn(beliefs') = EvidenceIn(beliefs)
    BY <1>3 DEF EvidenceIn
  <1>7. QED
    BY <1>5, <1>6

\* What an observation is worth is a number within the bounds.
LEMMA EvidenceShape ==
    ASSUME NEW key, NEW weight \in Int, NEW source, NEW id, NEW event, NEW at \in Nat \ {0}
    PROVE  /\ BeliefShape(Evidence(key, weight, source, id, event, at), at)
           /\ Evidence(key, weight, source, id, event, at).kind = "evidence"
           /\ Evidence(key, weight, source, id, event, at).at = at
           /\ Evidence(key, weight, source, id, event, at).key = key
           /\ Evidence(key, weight, source, id, event, at).source = source
           /\ Evidence(key, weight, source, id, event, at).id = id
  <1>1. Clamp(weight, MaxWeight) \in (-MaxWeight)..MaxWeight
    BY DEF Clamp, MaxWeight
  <1>2. Clamp(weight, MaxWeight) \in Int
    BY <1>1 DEF MaxWeight
  <1>3. QED
    BY <1>1, <1>2 DEF BeliefShape, Evidence, BeliefColumns

LEMMA PriorShape ==
    ASSUME NEW key, NEW value \in Int, NEW at \in Nat \ {0}
    PROVE  /\ BeliefShape(Prior(key, value, at), at)
           /\ Prior(key, value, at).kind = "prior" /\ Prior(key, value, at).at = at
  <1>1. Clamp(value, MaxConviction) \in Int
    BY DEF Clamp, MaxConviction
  <1>2. QED
    BY <1>1 DEF BeliefShape, Prior, BeliefColumns

\* The weights of the code are numbers.
LEMMA WeightsAreNumbers ==
    /\ \A direction, observed, level : level \in Decisiveness =>
         TripwireWeight(direction, observed, level) \in Int
    /\ \A result, level : level \in Decisiveness => LinkWeight(result, level) \in Int
    /\ \A result \in DOMAIN FieldWeight : FieldWeight[result] \in Int
    /\ \A given \in Given, default \in Int : Weighed(given, default) \in Int
  <1>1. /\ DOMAIN PresenceWeight = Decisiveness /\ DOMAIN AbsenceWeight = Decisiveness
        /\ \A level \in Decisiveness : PresenceWeight[level] \in Int /\ AbsenceWeight[level] \in Int
    BY DEF PresenceWeight, AbsenceWeight, Decisiveness
  <1>2. \A direction, observed, level : level \in Decisiveness =>
         TripwireWeight(direction, observed, level) \in Int
    <2>1. SUFFICES ASSUME NEW direction, NEW observed, NEW level \in Decisiveness
                   PROVE  TripwireWeight(direction, observed, level) \in Int
      OBVIOUS
    <2>2. PICK p \in Int, a \in Int : p = PresenceWeight[level] /\ a = AbsenceWeight[level]
      BY <1>1
    <2>3. TripwireWeight(direction, observed, level) \in {p, a, -p, -a}
      BY <2>2 DEF TripwireWeight
    <2>4. QED
      BY <2>2, <2>3
  <1>3. \A result, level : level \in Decisiveness => LinkWeight(result, level) \in Int
    BY DEF LinkWeight, Decisiveness
  <1>4. \A result \in DOMAIN FieldWeight : FieldWeight[result] \in Int
    BY DEF FieldWeight
  <1>5. \A given \in Given, default \in Int : Weighed(given, default) \in Int
    BY BeliefsAssumption DEF Weighed
  <1>6. QED
    BY <1>2, <1>3, <1>4, <1>5

-----------------------------------------------------------------------------
(* The tests, and what their answers come to *)

Numbered(tests) ==
    /\ \E last \in Nat : \A x \in tests : x.id \in 0..last
    /\ \A x, y \in tests : x.id = y.id => x = y
HypothesisColumns == {"id", "key", "level", "status", "last"}
TripwireState(w) ==
    /\ w.direction \in {"falsifies", "confirms"}
    /\ w.level \in Decisiveness /\ (w.last = None <=> w.status = "pending")
HypothesisState(h) ==
    /\ HypothesisColumns \subseteq DOMAIN h
    /\ h.level \in Decisiveness /\ (h.last = None <=> h.status = "open")
ExperimentState(e) == e.last # None => e.last.what \in DOMAIN FieldWeight
Tests ==
    /\ Numbered(tripwires) /\ \A w \in tripwires : TripwireState(w)
    /\ Numbered(hypotheses) /\ \A h \in hypotheses : HypothesisState(h)
    /\ \A e \in DOMAIN experiments : ExperimentState(experiments[e])

TripwireReport(w) ==
    Answer(theories[w.theory].key, "tripwire", w.id,
           TripwireWeight(w.direction, w.status = "observed", w.level), w.last)
FieldReport(e) ==
    Answer(theories[experiments[e].theory].key, "field_experiment", e,
           FieldWeight[experiments[e].last.what], experiments[e].last)
LinkReport(h) ==
    Answer(h.key, "link_hypothesis", h.id, LinkWeight(h.status, h.level), h.last)
TripwireReports == {TripwireReport(w) : w \in {w \in tripwires : w.last # None}}
FieldReports == {FieldReport(e) : e \in {e \in DOMAIN experiments : experiments[e].last # None}}
LinkReports == {LinkReport(h) : h \in {h \in hypotheses : h.last # None}}
Reports == TripwireReports \cup FieldReports \cup LinkReports

Ledger == BeliefRows /\ Tests /\ EvidenceIn(beliefs) = Reports

\* What is said of an observation is not nothing.
LEMMA SaidIsSaid ==
    ASSUME time \in Nat, NEW what \in Results, NEW given \in Given, NEW event \in Events
    PROVE  Said(what, given, event) # None
  <1>1. Said(what, given, event) \in [what : Results, at : Nat, given : Given, event : Events]
    BY DEF Said
  <1>2. QED
    BY <1>1, BeliefsAssumption

\* Theories keep their keys.
LEMMA KeysStay ==
    ASSUME Shapes, Holding, Steps, NEW t \in DOMAIN theories
    PROVE  theories'[t].key = theories[t].key
  <1>1. ASSUME NEW s \in Sessions, Generate(s) PROVE theories'[t].key = theories[t].key
    <2>1. PICK answer, match, previous, m : Generated(answer, match, previous, m)
      BY <1>1, GenerationWrites
    <2>2. theories'[t] = IF t \in previous THEN Retired(match, t) ELSE theories[t]
      BY <2>1 DEF Generated
    <2>3. Retired(match, t).key = theories[t].key
      BY RetiredFacts
    <2>4. QED
      BY <2>2, <2>3
  <1>2. CASE SameRows
    BY <1>2 DEF SameRows, SameRow
  <1>3. QED
    BY <1>1, <1>2, TheoryEffects

\* What goes over to the next version of a theory stays under its key.
LEMMA HeirKeeps ==
    ASSUME Shapes, Holding, NEW s \in Sessions, Generate(s),
           NEW answer, NEW match, match = Matches(answer, work[s].of),
           Generated(answer, match, ToSet(work[s].of), Len(answer)),
           NEW t \in DOMAIN theories
    PROVE  theories'[Heir(match, t)].key = theories[t].key
  <1>1. Steps
    BY DEF Steps, Writes
  <1>2. PICK k \in Nat : work[s].of \in [1..k -> DOMAIN theories]
    BY DEF Generate, Answered, Holding, Held, Reading
  <1>3. PICK m : m = Len(answer) /\ m \in Nat /\ DOMAIN answer = 1..m
    BY DEF Generated
  <1>4. DOMAIN match = 1..m
    BY <1>2, <1>3, MatchesExist
  <1>5. CASE Heir(match, t) = t
    BY <1>1, <1>5, KeysStay
  <1>6. ASSUME NEW i \in 1..m, match[i] = t, Heir(match, t) = Len(theories) + i
        PROVE  theories'[Heir(match, t)].key = theories[t].key
    <2>1. theories'[Len(theories) + i].key = KeyOf(match, i)
      BY <1>3, <1>6 DEF Generated, NewRow
    <2>2. match[i] # None
      <3>1. t \in Nat
        BY ListLength DEF Shapes
      <3>2. QED
        BY <1>6, <3>1, TheoriesAssumption
    <2>3. QED
      BY <1>6, <2>1, <2>2 DEF KeyOf
  <1>7. QED
    BY <1>3, <1>4, <1>5, <1>6, HeirFacts

\* What each step does to beliefs and link tests.
LEMMA EvidenceEffects ==
    ASSUME Steps
    PROVE  /\ \/ UNCHANGED <<beliefs, time>>
              \/ \E w \in tripwires : Observes(w)
              \/ \E e \in DOMAIN experiments : Records(e)
              \/ \E h \in hypotheses : Links(h)
              \/ \E key \in Keys, value \in Priors : StatePrior(key, value)
           /\ \/ hypotheses' = hypotheses
              \/ \E s \in Sessions : ProposeHypotheses(s)
              \/ \E h \in hypotheses : Links(h) \/ \E level \in Levels : SetLinkDecisiveness(h, level)
  <1>1. ASSUME NEW s \in Sessions, Aside(s)
        PROVE  UNCHANGED <<beliefs, time>> /\ (hypotheses' = hypotheses \/ ProposeHypotheses(s))
    BY <1>1 DEF Aside, AskGenerate, AskChallenge, AskTripwires, AskDebates, AskRecommendation,
         Recommend, ProposeHypotheses, Fail, AskReactions, AskHypotheses, evidence
  <1>2. ASSUME NEW s \in Sessions, Writes(s) PROVE UNCHANGED <<beliefs, time, hypotheses>>
    <2>1. CASE Generate(s)
      BY <2>1 DEF Generate, evidence
    <2>2. CASE Challenge(s)
      BY <2>2 DEF Challenge, evidence
    <2>3. CASE GenerateTripwires(s)
      BY <2>3 DEF GenerateTripwires, evidence
    <2>4. CASE RunDebates(s)
      BY <2>4 DEF RunDebates, evidence
    <2>5. CASE Execute(s)
      BY <2>5 DEF Execute, evidence
    <2>6. QED
      BY <1>2, <2>1, <2>2, <2>3, <2>4, <2>5 DEF Writes
  <1>3. MarkStale => UNCHANGED <<beliefs, time, hypotheses>>
    BY DEF MarkStale, evidence
  <1>4. ASSUME NEW w, \E level \in Levels : SetDecisiveness(w, level)
        PROVE  UNCHANGED <<beliefs, time, hypotheses>>
    BY <1>4 DEF SetDecisiveness, evidence
  <1>5. ASSUME NEW o, Dismiss(o) PROVE UNCHANGED <<beliefs, time, hypotheses>>
    BY <1>5 DEF Dismiss, evidence
  <1>6. ASSUME NEW t, NEW kind, Design(t, kind) PROVE UNCHANGED <<beliefs, time, hypotheses>>
    BY <1>6 DEF Design, evidence
  <1>7. ASSUME NEW d, Promote(d) PROVE UNCHANGED <<beliefs, time, hypotheses>>
    BY <1>7 DEF Promote, evidence
  <1>8. OutsideRequests => UNCHANGED <<beliefs, time, hypotheses>>
    BY DEF OutsideRequests
  <1>9. ASSUME NEW w, Observes(w) PROVE hypotheses' = hypotheses
    BY <1>9 DEF Observes, Observe
  <1>10. ASSUME NEW e, Records(e) PROVE hypotheses' = hypotheses
    BY <1>10 DEF Records, RecordField
  <1>11. ASSUME NEW h, NEW level, SetLinkDecisiveness(h, level) PROVE UNCHANGED <<beliefs, time>>
    BY <1>11 DEF SetLinkDecisiveness
  <1>12. ASSUME NEW key, NEW value, StatePrior(key, value) PROVE hypotheses' = hypotheses
    BY <1>12 DEF StatePrior
  <1>13. CASE \E s \in Sessions : Aside(s) \/ Writes(s)
    BY <1>1, <1>2, <1>13
  <1>14. CASE Believes
    BY <1>11, <1>12, <1>14 DEF Believes
  <1>15. CASE MarkStale \/ OutsideRequests
    BY <1>3, <1>8, <1>15
  <1>16. CASE \E w \in tripwires : Observes(w) \/ \E level \in Levels : SetDecisiveness(w, level)
    BY <1>4, <1>9, <1>16
  <1>17. CASE \E o \in objections : Dismiss(o)
    BY <1>5, <1>17
  <1>18. CASE \E t \in Current, kind \in {"synthetic", "field"} : Design(t, kind)
    BY <1>6, <1>18
  <1>19. CASE \E d \in DOMAIN debates : Promote(d)
    BY <1>7, <1>19
  <1>20. CASE \E e \in DOMAIN experiments : Records(e)
    BY <1>10, <1>20
  <1>21. CASE \E h \in hypotheses : Links(h)
    BY <1>21
  <1>22. QED
    BY <1>13, <1>14, <1>15, <1>16, <1>17, <1>18, <1>19, <1>20, <1>21 DEF Steps

-----------------------------------------------------------------------------
(* Numbers of tests *)

LEMMA NumberedPart ==
    ASSUME NEW tests, Numbered(tests), NEW kept, kept \subseteq tests
    PROVE  Numbered(kept)
  BY DEF Numbered

LEMMA NumberedReplaced ==
    ASSUME NEW tests, Numbered(tests), NEW w \in tests, NEW x, x.id = w.id
    PROVE  Numbered((tests \ {w}) \cup {x})
  <1>1. PICK last \in Nat : \A y \in tests : y.id \in 0..last
    BY DEF Numbered
  <1>2. \A y \in (tests \ {w}) \cup {x} : y.id \in 0..last
    BY <1>1
  <1>3. \A y, z \in (tests \ {w}) \cup {x} : y.id = z.id => y = z
    BY DEF Numbered
  <1>4. QED
    BY <1>2, <1>3 DEF Numbered

\* Tests that are added get the numbers after the last.
LEMMA NumberedFurther ==
    ASSUME NEW kept, Numbered(kept), NEW n \in Nat, NEW new,
           \A i \in 1..n : new[i].id = LastId(kept) + i
    PROVE  Numbered(kept \cup {new[i] : i \in 1..n})
  <1>1. PICK bound \in Nat : \A x \in kept : x.id \in 0..bound
    BY DEF Numbered
  <1>2. PICK ids : ids = {0} \cup {r.id : r \in kept}
    OBVIOUS
  <1>3. ids \subseteq Nat /\ ids # {} /\ \A k \in ids : k <= bound
    BY <1>1, <1>2
  <1>4. Max(ids) \in ids /\ \A k \in ids : k <= Max(ids)
    BY <1>3, MaxFacts
  <1>5. PICK last \in Nat : last = LastId(kept) /\ \A x \in kept : x.id \in 0..last
    <2>1. PICK last : last = Max(ids)
      OBVIOUS
    <2>2. last = LastId(kept)
      BY <1>2, <2>1 DEF LastId
    <2>3. last \in Nat /\ \A k \in ids : k <= last
      BY <1>3, <1>4, <2>1
    <2>4. ASSUME NEW x \in kept PROVE x.id \in 0..last
      <3>1. x.id \in ids /\ x.id \in Nat
        BY <1>1, <1>2
      <3>2. QED
        BY <2>3, <3>1
    <2>5. QED
      BY <2>2, <2>3, <2>4
  <1>6. \A i \in 1..n : new[i].id = last + i
    BY <1>5
  <1>7. \A x \in kept \cup {new[i] : i \in 1..n} : x.id \in 0..(last + n)
    BY <1>5, <1>6
  <1>8. ASSUME NEW x \in kept \cup {new[i] : i \in 1..n}, NEW y \in kept \cup {new[i] : i \in 1..n},
               x.id = y.id
        PROVE  x = y
    <2>1. CASE x \in kept /\ y \in kept
      BY <1>8, <2>1 DEF Numbered
    <2>2. ASSUME NEW u \in kept, NEW i \in 1..n PROVE u.id # new[i].id
      BY <1>5, <1>6
    <2>3. ASSUME NEW i \in 1..n, NEW j \in 1..n, new[i].id = new[j].id PROVE i = j
      BY <1>6, <2>3
    <2>4. QED
      BY <1>8, <2>1, <2>2, <2>3
  <1>9. last + n \in Nat
    OBVIOUS
  <1>10. QED
    BY <1>7, <1>8, <1>9 DEF Numbered

-----------------------------------------------------------------------------
(* What is reported of tripwires *)

\* Answered tripwires that stay, under the keys of their theories, report the same.
LEMMA SameTripwireReports ==
    ASSUME Shapes, Holding, Steps,
           \A w \in tripwires : w.last # None => w \in tripwires',
           \A w \in tripwires' : w.last # None => w \in tripwires
    PROVE  TripwireReports' = TripwireReports
  <1>1. {w \in tripwires' : w.last # None} = {w \in tripwires : w.last # None}
    OBVIOUS
  <1>2. ASSUME NEW w \in tripwires PROVE TripwireReport(w)' = TripwireReport(w)
    <2>1. theories'[w.theory].key = theories[w.theory].key
      BY KeysStay DEF Shapes
    <2>2. QED
      BY <2>1 DEF TripwireReport
  <1>3. TripwireReports' = {TripwireReport(w)' : w \in {w \in tripwires : w.last # None}}
    BY <1>1 DEF TripwireReports
  <1>4. QED
    BY <1>2, <1>3 DEF TripwireReports

LEMMA PendingFacts ==
    ASSUME NEW id, NEW t, NEW direction \in {"falsifies", "confirms"}, NEW asked
    PROVE  /\ TripwireState(Pending(id, t, direction, asked))
           /\ Pending(id, t, direction, asked).last = None
           /\ Pending(id, t, direction, asked).id = id
  BY DEF Pending, TripwireState, Decisiveness

TripwiresHold ==
    /\ Numbered(tripwires') /\ \A w \in tripwires' : TripwireState(w)
    /\ \A w \in tripwires : w.last # None => w \in tripwires'
    /\ \A w \in tripwires' : w.last # None => w \in tripwires

LEMMA GenerationHoldsTripwires ==
    ASSUME Shapes, Tests, NEW s \in Sessions, Generate(s)
    PROVE  TripwiresHold
  <1>0. /\ Numbered(tripwires)
        /\ \A w \in tripwires : TripwireState(w) /\ TripwireColumns \subseteq DOMAIN w
    BY DEF Shapes, Tests
  <1>1. PICK match : tripwires' = {Carried(w, Heir(match, w.theory)) : w \in tripwires}
    <2>1. PICK answer, match, previous, m : Generated(answer, match, previous, m)
      BY GenerationWrites
    <2>2. tripwires' = {Carried(w, Heir(match, w.theory)) : w \in tripwires}
      BY <2>1 DEF Generated
    <2>3. QED
      BY <2>2
  <1>2. ASSUME NEW w \in tripwires, NEW heir
        PROVE  /\ Carried(w, heir).id = w.id /\ TripwireState(Carried(w, heir))
               /\ Carried(w, heir).last = w.last
               /\ w.last # None => Carried(w, heir) = w
    <2>1. CASE w.status = "pending"
      <3>1. Carried(w, heir) = [w EXCEPT !.theory = heir]
        BY <2>1 DEF Carried
      <3>2. /\ [w EXCEPT !.theory = heir].id = w.id
            /\ [w EXCEPT !.theory = heir].level = w.level
            /\ [w EXCEPT !.theory = heir].status = w.status
            /\ [w EXCEPT !.theory = heir].last = w.last
        BY <1>0 DEF TripwireColumns
      <3>3. QED
        BY <1>0, <2>1, <3>1, <3>2 DEF TripwireState
    <2>2. CASE w.status # "pending"
      BY <1>0, <2>2 DEF Carried
    <2>3. QED
      BY <2>1, <2>2
  <1>3. Numbered(tripwires')
    <2>1. PICK last \in Nat : \A w \in tripwires : w.id \in 0..last
      BY <1>0 DEF Numbered
    <2>2. \A w \in tripwires' : w.id \in 0..last
      BY <1>1, <1>2, <2>1
    <2>3. \A w, x \in tripwires' : w.id = x.id => w = x
      <3>1. SUFFICES ASSUME NEW w \in tripwires, NEW x \in tripwires,
                            Carried(w, Heir(match, w.theory)).id = Carried(x, Heir(match, x.theory)).id
                     PROVE  Carried(w, Heir(match, w.theory)) = Carried(x, Heir(match, x.theory))
        BY <1>1
      <3>2. w.id = x.id
        BY <1>2, <3>1
      <3>3. w = x
        BY <1>0, <3>2 DEF Numbered
      <3>4. QED
        BY <3>3
    <2>4. QED
      BY <2>2, <2>3 DEF Numbered
  <1>4. \A w \in tripwires' : TripwireState(w)
    BY <1>1, <1>2
  <1>5. \A w \in tripwires : w.last # None => w \in tripwires'
    <2>1. SUFFICES ASSUME NEW w \in tripwires, w.last # None PROVE w \in tripwires'
      OBVIOUS
    <2>2. Carried(w, Heir(match, w.theory)) = w
      <3>1. PICK heir : heir = Heir(match, w.theory)
        OBVIOUS
      <3>2. Carried(w, heir) = w
        BY <1>2, <2>1
      <3>3. QED
        BY <3>1, <3>2
    <2>3. QED
      BY <1>1, <2>2
  <1>6. \A x \in tripwires' : x.last # None => x \in tripwires
    <2>1. SUFFICES ASSUME NEW w \in tripwires, Carried(w, Heir(match, w.theory)).last # None
                   PROVE  Carried(w, Heir(match, w.theory)) \in tripwires
      BY <1>1
    <2>2. PICK heir : heir = Heir(match, w.theory)
      OBVIOUS
    <2>3. Carried(w, heir).last = w.last /\ (w.last # None => Carried(w, heir) = w)
      BY <1>2
    <2>4. QED
      BY <2>1, <2>2, <2>3
  <1>7. QED
    BY <1>3, <1>4, <1>5, <1>6 DEF TripwiresHold

LEMMA AnswersHoldTripwires ==
    ASSUME Holding, Tests, NEW s \in Sessions, GenerateTripwires(s)
    PROVE  TripwiresHold
  <1>0. Numbered(tripwires) /\ \A w \in tripwires : TripwireState(w)
    BY DEF Tests
  <1>1. work[s].op \in Reading
    BY DEF GenerateTripwires, Answered, Reading
  <1>2. PICK proposed \in [ToSet(work[s].of) -> Directions \cup {None}] :
          tripwires' = Unreplaced(proposed) \cup
             {Pending(LastId(Unreplaced(proposed)) + i, SetToSeq(Proposals(proposed))[i][1],
                      SetToSeq(Proposals(proposed))[i][2], None) : i \in DOMAIN SetToSeq(Proposals(proposed))}
    BY DEF GenerateTripwires
  <1>3. PICK kept, pairs : kept = Unreplaced(proposed) /\ pairs = Proposals(proposed)
    OBVIOUS
  <1>4. IsFiniteSet(pairs)
    <2>1. pairs \subseteq ToSet(work[s].of) \X {"falsifies", "confirms"}
      BY <1>2, <1>3 DEF Proposals
    <2>2. IsFiniteSet({"falsifies", "confirms"})
      <3>1. IsFiniteSet({"falsifies"} \cup {"confirms"})
        BY FS_Singleton, FS_AddElement
      <3>2. {"falsifies", "confirms"} = {"falsifies"} \cup {"confirms"}
        OBVIOUS
      <3>3. QED
        BY <3>1, <3>2
    <2>3. IsFiniteSet(ToSet(work[s].of) \X {"falsifies", "confirms"})
      BY <1>1, <2>2, ReadsFinite, FS_Product
    <2>4. QED
      BY <2>1, <2>3, FS_Subset
  <1>5. PICK list : list = SetToSeq(pairs)
    OBVIOUS
  <1>5a. PICK n \in Nat : DOMAIN list = 1..n /\ \A i \in 1..n : list[i] \in pairs
    BY <1>4, <1>5, SetToSeqFacts
  <1>6. PICK new : new = [i \in 1..n |-> Pending(LastId(kept) + i, list[i][1], list[i][2], None)]
    OBVIOUS
  <1>7. tripwires' = kept \cup {new[i] : i \in 1..n}
    BY <1>2, <1>3, <1>5, <1>5a, <1>6
  <1>8. \A i \in 1..n : TripwireState(new[i]) /\ new[i].last = None /\ new[i].id = LastId(kept) + i
    <2>1. \A i \in 1..n : list[i][2] \in {"falsifies", "confirms"}
      BY <1>3, <1>5a DEF Proposals
    <2>2. ASSUME NEW i \in 1..n
          PROVE  TripwireState(new[i]) /\ new[i].last = None /\ new[i].id = LastId(kept) + i
      <3>1. PICK id, t, direction : id = LastId(kept) + i /\ t = list[i][1] /\ direction = list[i][2]
        OBVIOUS
      <3>2. direction \in {"falsifies", "confirms"} /\ new[i] = Pending(id, t, direction, None)
        BY <1>6, <2>1, <3>1
      <3>3. QED
        BY <3>1, <3>2, PendingFacts
    <2>3. QED
      BY <2>2
  <1>9. kept \subseteq tripwires /\ \A w \in tripwires : w.status # "pending" => w \in kept
    BY <1>3 DEF Unreplaced
  <1>10. Numbered(tripwires')
    <2>1. Numbered(kept)
      BY <1>0, <1>9, NumberedPart
    <2>2. \A i \in 1..n : new[i].id = LastId(kept) + i
      BY <1>8
    <2>3. Numbered(kept \cup {new[i] : i \in 1..n})
      BY <2>1, <2>2, NumberedFurther
    <2>4. QED
      BY <1>7, <2>3
  <1>11. QED
    BY <1>0, <1>7, <1>8, <1>9, <1>10 DEF TripwiresHold, TripwireState

LEMMA PromotionHoldsTripwires ==
    ASSUME Tests, NEW d, Promote(d)
    PROVE  TripwiresHold
  <1>0. Numbered(tripwires) /\ \A w \in tripwires : TripwireState(w)
    BY DEF Tests
  <1>1. PICK id : id = LastId(tripwires)
    OBVIOUS
  <1>2. tripwires' = tripwires \cup {Pending(id + 1, debates[d].a, "falsifies", d),
                                    Pending(id + 2, debates[d].b, "falsifies", d)}
    BY <1>1 DEF Promote
  <1>3. PICK new : new = [i \in 1..2 |-> IF i = 1 THEN Pending(id + 1, debates[d].a, "falsifies", d)
                                         ELSE Pending(id + 2, debates[d].b, "falsifies", d)]
    OBVIOUS
  <1>4. tripwires' = tripwires \cup {new[i] : i \in 1..2}
    <2>1. new[1] = Pending(id + 1, debates[d].a, "falsifies", d)
      BY <1>3
    <2>2. new[2] = Pending(id + 2, debates[d].b, "falsifies", d)
      BY <1>3
    <2>3. {new[i] : i \in 1..2} = {new[1], new[2]}
      OBVIOUS
    <2>4. QED
      BY <1>2, <2>1, <2>2, <2>3
  <1>5. \A i \in 1..2 : TripwireState(new[i]) /\ new[i].last = None /\ new[i].id = LastId(tripwires) + i
    BY <1>1, <1>3, PendingFacts
  <1>6. Numbered(tripwires')
    BY <1>0, <1>4, <1>5, NumberedFurther
  <1>7. QED
    BY <1>0, <1>4, <1>5, <1>6 DEF TripwiresHold

LEMMA DecisivenessHoldsTripwires ==
    ASSUME Shapes, Tests, NEW w \in tripwires, NEW level \in Levels, SetDecisiveness(w, level)
    PROVE  TripwiresHold
  <1>0. /\ Numbered(tripwires) /\ \A x \in tripwires : TripwireState(x)
        /\ TripwireColumns \subseteq DOMAIN w
    BY DEF Tests, Shapes
  <1>1. PICK x : x = [w EXCEPT !.level = level]
    OBVIOUS
  <1>2. tripwires' = (tripwires \ {w}) \cup {x} /\ w.status = "pending"
    BY <1>1 DEF SetDecisiveness
  <1>3. /\ x.id = w.id /\ x.level = level /\ x.status = w.status /\ x.last = w.last
        /\ x.direction = w.direction
    BY <1>0, <1>1 DEF TripwireColumns
  <1>4. TripwireState(x) /\ x.last = None /\ w.last = None
    BY <1>0, <1>2, <1>3, BeliefsAssumption DEF TripwireState
  <1>5. Numbered(tripwires')
    BY <1>0, <1>2, <1>3, NumberedReplaced
  <1>6. QED
    BY <1>0, <1>2, <1>4, <1>5 DEF TripwiresHold

\* As long as nothing is observed no tripwire reports anything else.
LEMMA TripwiresKept ==
    ASSUME Shapes, Holding, Tests, Steps, ~\E w \in tripwires : Observes(w)
    PROVE  /\ Numbered(tripwires') /\ \A w \in tripwires' : TripwireState(w)
           /\ TripwireReports' = TripwireReports
  <1>1. tripwires' = tripwires => TripwiresHold
    BY DEF TripwiresHold, Tests
  <1>2. TripwiresHold
    <2>1. CASE \E s \in Sessions : Generate(s) \/ GenerateTripwires(s)
      BY <2>1, GenerationHoldsTripwires, AnswersHoldTripwires
    <2>2. CASE \E d \in DOMAIN debates : Promote(d)
      BY <2>2, PromotionHoldsTripwires
    <2>3. CASE \E w \in tripwires : \E level \in Levels : SetDecisiveness(w, level)
      BY <2>3, DecisivenessHoldsTripwires
    <2>4. QED
      BY <1>1, <2>1, <2>2, <2>3, OtherEffects
  <1>3. QED
    BY <1>2, SameTripwireReports DEF TripwiresHold

-----------------------------------------------------------------------------
(* What is reported of field tests and links *)

ExperimentsHold ==
    /\ \A e \in DOMAIN experiments' : ExperimentState(experiments'[e])
    /\ FieldReports' = FieldReports

\* Experiments that keep their results, under the keys of their theories.
LEMMA SameFieldReports ==
    ASSUME Shapes, Holding, Tests, Steps, DOMAIN experiments \subseteq DOMAIN experiments',
           \A e \in DOMAIN experiments' : experiments'[e].last # None => e \in DOMAIN experiments,
           \A e \in DOMAIN experiments :
              /\ experiments'[e].last = experiments[e].last
              /\ theories'[experiments'[e].theory].key = theories[experiments[e].theory].key
    PROVE  ExperimentsHold
  <1>1. {e \in DOMAIN experiments' : experiments'[e].last # None}
          = {e \in DOMAIN experiments : experiments[e].last # None}
    OBVIOUS
  <1>2. \A e \in DOMAIN experiments : FieldReport(e)' = FieldReport(e)
    BY DEF FieldReport
  <1>3. FieldReports' = {FieldReport(e)' : e \in {e \in DOMAIN experiments : experiments[e].last # None}}
    BY <1>1 DEF FieldReports
  <1>4. FieldReports' = FieldReports
    BY <1>2, <1>3 DEF FieldReports
  <1>5. \A e \in DOMAIN experiments' : ExperimentState(experiments'[e])
    BY DEF ExperimentState, Tests
  <1>6. QED
    BY <1>4, <1>5 DEF ExperimentsHold

\* As long as no field test is reported none reports anything else.
LEMMA ExperimentsKept ==
    ASSUME Shapes, Holding, Tests, Steps, ~\E e \in DOMAIN experiments : Records(e)
    PROVE  ExperimentsHold
  <1>0. \A e \in DOMAIN experiments : /\ ExperimentColumns \subseteq DOMAIN experiments[e]
                                      /\ experiments[e].theory \in DOMAIN theories
                                      /\ theories'[experiments[e].theory].key
                                           = theories[experiments[e].theory].key
    BY KeysStay DEF Shapes
  <1>1. CASE experiments' = experiments
    BY <1>0, <1>1, SameFieldReports
  <1>2. ASSUME NEW s \in Sessions, Generate(s) PROVE ExperimentsHold
    <2>1. PICK answer \in Answers : Generated(answer, Matches(answer, work[s].of), ToSet(work[s].of), Len(answer))
      BY <1>2, GenerationWrites
    <2>2. PICK match : match = Matches(answer, work[s].of)
      OBVIOUS
    <2>3. Generated(answer, match, ToSet(work[s].of), Len(answer))
      BY <2>1, <2>2
    <2>4. \A t \in DOMAIN theories : theories'[Heir(match, t)].key = theories[t].key
      BY <1>2, <2>2, <2>3, HeirKeeps
    <2>5. experiments' = [e \in DOMAIN experiments |->
             [experiments[e] EXCEPT !.theory =
                IF experiments[e].kind = "field" THEN Heir(match, @) ELSE @]]
      BY <2>3 DEF Generated
    <2>6. ASSUME NEW e \in DOMAIN experiments
          PROVE  /\ experiments'[e].last = experiments[e].last
                 /\ theories'[experiments'[e].theory].key = theories[experiments[e].theory].key
      <3>1. PICK t : t = experiments[e].theory
        OBVIOUS
      <3>2. PICK heir : heir = IF experiments[e].kind = "field" THEN Heir(match, t) ELSE t
        OBVIOUS
      <3>3. experiments'[e] = [experiments[e] EXCEPT !.theory = heir]
        BY <2>5, <3>1, <3>2
      <3>4. experiments'[e].last = experiments[e].last /\ experiments'[e].theory = heir
        BY <1>0, <3>3 DEF ExperimentColumns
      <3>5. theories'[heir].key = theories[t].key
        BY <1>0, <2>4, <3>1, <3>2
      <3>6. QED
        BY <3>1, <3>4, <3>5
    <2>7. DOMAIN experiments' = DOMAIN experiments
      BY <2>5
    <2>8. QED
      BY <2>6, <2>7, SameFieldReports
  <1>3. ASSUME NEW s \in Sessions, Execute(s) PROVE ExperimentsHold
    <2>0. PICK x : x = work[s].on
      OBVIOUS
    <2>1. PICK promoted \in 0..1, support \in BOOLEAN, oppose \in BOOLEAN :
            experiments' = [experiments EXCEPT
                  ![x].status = "executed", ![x].support = support, ![x].oppose = oppose]
      BY <1>3, <2>0 DEF Execute
    <2>2. DOMAIN experiments' = DOMAIN experiments
      BY <2>1
    <2>3. \A e \in DOMAIN experiments : /\ experiments'[e].last = experiments[e].last
                                        /\ experiments'[e].theory = experiments[e].theory
      BY <1>0, <2>1 DEF ExperimentColumns
    <2>4. QED
      BY <1>0, <2>2, <2>3, SameFieldReports
  <1>4. ASSUME NEW t, NEW kind, Design(t, kind) PROVE ExperimentsHold
    <2>1. PICK status : experiments' = Append(experiments, Experiment(t, kind, status))
      BY <1>4 DEF Design
    <2>2. PICK x : x = Experiment(t, kind, status)
      OBVIOUS
    <2>3. x.last = None
      BY <2>2 DEF Experiment
    <2>4. IsList(experiments)
      BY DEF Shapes
    <2>5. Len(experiments) \in Nat
      BY <2>4, ListLength
    <2>6. /\ DOMAIN experiments' = 1..(Len(experiments) + 1) /\ DOMAIN experiments = 1..Len(experiments)
          /\ \A i \in DOMAIN experiments : experiments'[i] = experiments[i]
          /\ experiments'[Len(experiments) + 1] = x
      BY <2>1, <2>2, <2>4, Appended
    <2>7. DOMAIN experiments \subseteq DOMAIN experiments'
      BY <2>5, <2>6
    <2>8. \A e \in DOMAIN experiments' : e \in DOMAIN experiments \/ e = Len(experiments) + 1
      BY <2>5, <2>6
    <2>9. \A e \in DOMAIN experiments' : experiments'[e].last # None => e \in DOMAIN experiments
      BY <2>3, <2>6, <2>8
    <2>10. QED
      BY <1>0, <2>6, <2>7, <2>9, SameFieldReports
  <1>5. QED
    BY <1>1, <1>2, <1>3, <1>4, OtherEffects

HypothesesHold ==
    /\ Numbered(hypotheses') /\ \A h \in hypotheses' : HypothesisState(h)
    /\ LinkReports' = LinkReports

\* Link tests that stay, once answered, report the same.
LEMMA SameLinkReports ==
    ASSUME \A h \in hypotheses : h.last # None => h \in hypotheses',
           \A h \in hypotheses' : h.last # None => h \in hypotheses
    PROVE  LinkReports' = LinkReports
  <1>1. {h \in hypotheses' : h.last # None} = {h \in hypotheses : h.last # None}
    OBVIOUS
  <1>2. QED
    BY <1>1 DEF LinkReports, LinkReport

Proposed(i, id, key, link) ==
    [id |-> id + i, key |-> key, link |-> link, level |-> "moderate", status |-> "open", last |-> None]

LEMMA ProposedHold ==
    ASSUME Tests, NEW kept, kept \subseteq hypotheses,
           \A h \in hypotheses : h.status # "open" => h \in kept,
           NEW n \in Nat, NEW new,
           hypotheses' = kept \cup {new[i] : i \in 1..n},
           \A i \in 1..n : \E key, link : new[i] = Proposed(i, LastId(kept), key, link)
    PROVE  HypothesesHold
  <1>1. Numbered(hypotheses) /\ \A h \in hypotheses : HypothesisState(h)
    BY DEF Tests
  <1>2. \A i \in 1..n : HypothesisState(new[i]) /\ new[i].last = None /\ new[i].id = LastId(kept) + i
    <2>1. PICK last : last = LastId(kept)
      OBVIOUS
    <2>2. SUFFICES ASSUME NEW i \in 1..n
                   PROVE  HypothesisState(new[i]) /\ new[i].last = None /\ new[i].id = last + i
      BY <2>1
    <2>3. PICK key, link : new[i] = Proposed(i, last, key, link)
      BY <2>1
    <2>4. QED
      BY <2>3 DEF Proposed, HypothesisState, HypothesisColumns, Decisiveness
  <1>3. Numbered(kept)
    BY <1>1, NumberedPart
  <1>4. Numbered(kept \cup {new[i] : i \in 1..n})
    <2>1. \A i \in 1..n : new[i].id = LastId(kept) + i
      BY <1>2
    <2>2. QED
      BY <1>3, <2>1, NumberedFurther
  <1>5. /\ \A h \in hypotheses : h.last # None => h \in hypotheses'
        /\ \A h \in hypotheses' : HypothesisState(h) /\ (h.last # None => h \in hypotheses)
    BY <1>1, <1>2 DEF HypothesisState
  <1>6. QED
    BY <1>4, <1>5, SameLinkReports DEF HypothesesHold

\* As long as no link test is reported none reports anything else.
LEMMA HypothesesKept ==
    ASSUME Tests, Steps, ~\E h \in hypotheses : Links(h)
    PROVE  HypothesesHold
  <1>0. Numbered(hypotheses) /\ \A h \in hypotheses : HypothesisState(h)
    BY DEF Tests
  <1>1. ASSUME \A h \in hypotheses : h.last # None => h \in hypotheses',
               \A h \in hypotheses' : h.last # None => h \in hypotheses
        PROVE  LinkReports' = LinkReports
    BY <1>1, SameLinkReports
  <1>2. CASE hypotheses' = hypotheses
    BY <1>0, <1>1, <1>2 DEF HypothesesHold
  <1>3. ASSUME NEW s \in Sessions, ProposeHypotheses(s) PROVE HypothesesHold
    <2> DEFINE key == theories[work[s].of[1]].key
               kept == {h \in hypotheses : ~(h.key = key /\ h.status = "open")}
    <2>1. \E n \in 0..MaxLinks : \E links \in [1..n -> theories[work[s].of[1]].links] :
            hypotheses' = kept \cup
               {[id |-> LastId(kept) + i, key |-> key, link |-> links[i],
                 level |-> "moderate", status |-> "open", last |-> None] : i \in 1..n}
      BY <1>3 DEF ProposeHypotheses
    <2>2. PICK n \in 0..MaxLinks : \E links :
            hypotheses' = kept \cup
               {[id |-> LastId(kept) + i, key |-> key, link |-> links[i],
                 level |-> "moderate", status |-> "open", last |-> None] : i \in 1..n}
      BY <2>1
    <2>3. PICK links : hypotheses' = kept \cup
               {[id |-> LastId(kept) + i, key |-> key, link |-> links[i],
                 level |-> "moderate", status |-> "open", last |-> None] : i \in 1..n}
      BY <2>2
    <2>4. n \in Nat
      BY DEF MaxLinks
    <2>5. /\ kept \subseteq hypotheses
          /\ \A h \in hypotheses : h.status # "open" => h \in kept
      OBVIOUS
    <2> HIDE DEF key, kept
    <2>6. PICK new : new = [i \in 1..n |-> Proposed(i, LastId(kept), key, links[i])]
      OBVIOUS
    <2>7. hypotheses' = kept \cup {new[i] : i \in 1..n}
      BY <2>3, <2>6 DEF Proposed
    <2>8. \A i \in 1..n : \E k, link : new[i] = Proposed(i, LastId(kept), k, link)
      BY <2>6
    <2>9. QED
      BY <2>4, <2>5, <2>7, <2>8, ProposedHold
  <1>4. ASSUME NEW h \in hypotheses, NEW level \in Levels, SetLinkDecisiveness(h, level)
        PROVE  HypothesesHold
    <2>1. PICK x : x = [h EXCEPT !.level = level]
      OBVIOUS
    <2>2. hypotheses' = (hypotheses \ {h}) \cup {x} /\ h.status = "open"
      BY <1>4, <2>1 DEF SetLinkDecisiveness
    <2>3. /\ DOMAIN x = DOMAIN h /\ x.id = h.id /\ x.level = level
          /\ x.status = h.status /\ x.last = h.last
      BY <1>0, <2>1 DEF HypothesisState, HypothesisColumns
    <2>4. HypothesisState(x) /\ x.last = None /\ h.last = None
      BY <1>0, <2>2, <2>3, BeliefsAssumption DEF HypothesisState
    <2>5. Numbered(hypotheses')
      BY <1>0, <2>2, <2>3, NumberedReplaced
    <2>6. /\ \A y \in hypotheses : y.last # None => y \in hypotheses'
          /\ \A y \in hypotheses' : HypothesisState(y) /\ (y.last # None => y \in hypotheses)
      BY <1>0, <2>2, <2>4
    <2>7. QED
      BY <1>1, <2>5, <2>6 DEF HypothesesHold
  <1>5. QED
    BY <1>2, <1>3, <1>4, EvidenceEffects

-----------------------------------------------------------------------------
(* An answer, and the row it is *)

LEMMA AnswerFacts ==
    ASSUME NEW key, NEW source, NEW id, NEW weight, NEW last
    PROVE  /\ Answer(key, source, id, weight, last).key = key
           /\ Answer(key, source, id, weight, last).source = source
           /\ Answer(key, source, id, weight, last).id = id
  BY DEF Answer, Evidence

LEMMA ReportSources ==
    /\ \A r \in TripwireReports : r.source = "tripwire"
    /\ \A r \in FieldReports : r.source = "field_experiment"
    /\ \A r \in LinkReports : r.source = "link_hypothesis"
  <1>1. \A r \in TripwireReports : r.source = "tripwire"
    BY AnswerFacts DEF TripwireReports, TripwireReport
  <1>2. \A r \in FieldReports : r.source = "field_experiment"
    BY AnswerFacts DEF FieldReports, FieldReport
  <1>3. \A r \in LinkReports : r.source = "link_hypothesis"
    BY AnswerFacts DEF LinkReports, LinkReport
  <1>4. QED
    BY <1>1, <1>2, <1>3

\* The row of an observation is an answer to what was said of it.
LEMMA RowIsAnswer ==
    ASSUME NEW key, NEW source, NEW id, NEW weight, NEW what, NEW given, NEW event,
           time' = time + 1
    PROVE  Evidence(key, Weighed(given, weight), source, id, event, time')
             = Answer(key, source, id, weight, Said(what, given, event))
  <1>1. /\ Said(what, given, event).given = given /\ Said(what, given, event).event = event
        /\ Said(what, given, event).at = time'
    BY DEF Said
  <1>2. PICK said : said = Said(what, given, event)
    OBVIOUS
  <1>3. said.given = given /\ said.event = event /\ said.at = time'
    BY <1>1, <1>2
  <1>4. Evidence(key, Weighed(given, weight), source, id, event, time')
          = Answer(key, source, id, weight, said)
    BY <1>3 DEF Answer
  <1>5. QED
    BY <1>2, <1>4

\* The row of an observation takes the place of what was reported of it before.
LEMMA Recorded ==
    ASSUME Ledger, NEW row, BeliefShape(row, time + 1), row.at = time + 1,
           row.kind = "evidence",
           time' = time + 1, beliefs' = WithEvidence(beliefs, row),
           NEW own, NEW others, Reports = own \cup others,
           \A r \in others : r.source # row.source,
           Reports' = {r \in own : ~SameSource(r, row)} \cup {row} \cup others
    PROVE  BeliefRows' /\ EvidenceIn(beliefs') = Reports'
  <1>1. BeliefRows /\ EvidenceIn(beliefs) = Reports
    BY DEF Ledger
  <1>2. /\ BeliefRows'
        /\ EvidenceIn(beliefs') = {r \in EvidenceIn(beliefs) : ~SameSource(r, row)} \cup {row}
    BY <1>1, RecordedRows
  <1>3. \A r \in others : ~SameSource(r, row)
    BY DEF SameSource
  <1>4. {r \in own \cup others : ~SameSource(r, row)} = {r \in own : ~SameSource(r, row)} \cup others
    BY <1>3
  <1>5. QED
    BY <1>1, <1>2, <1>4

LEMMA TripwireRecorded ==
    ASSUME Shapes, Holding, Ledger, Steps, NEW w \in tripwires, Observes(w)
    PROVE  Ledger'
  <1>0. /\ BeliefRows /\ Tests /\ Reports = TripwireReports \cup FieldReports \cup LinkReports
        /\ TripwireColumns \subseteq DOMAIN w /\ w.theory \in DOMAIN theories
        /\ Numbered(tripwires) /\ \A y \in tripwires : TripwireState(y)
        /\ time \in Nat
    BY DEF Ledger, Reports, Shapes, Tests, BeliefRows
  <1>1. PICK observed \in BOOLEAN, given \in Given, event \in Events : Observe(w, observed, given, event)
    BY DEF Observes
  <1>2. PICK status : status = IF observed THEN "observed" ELSE "not_observed"
    OBVIOUS
  <1>3. PICK said : said = Said(status, given, event)
    OBVIOUS
  <1>4. PICK x : x = [w EXCEPT !.status = status, !.last = said]
    OBVIOUS
  <1>5. PICK key, weight : /\ key = theories[w.theory].key
                           /\ weight = TripwireWeight(w.direction, observed, w.level)
    OBVIOUS
  <1>6. PICK row : row = Evidence(key, Weighed(given, weight), "tripwire", w.id, event, time')
    OBVIOUS
  <1>7. /\ tripwires' = (tripwires \ {w}) \cup {x} /\ time' = time + 1
        /\ beliefs' = WithEvidence(beliefs, row)
        /\ experiments' = experiments /\ hypotheses' = hypotheses
    BY <1>1, <1>2, <1>3, <1>4, <1>5, <1>6 DEF Observe, Tick
  <1>8. /\ x.status = status /\ x.last = said /\ x.id = w.id /\ x.theory = w.theory
        /\ x.direction = w.direction /\ x.level = w.level
    BY <1>0, <1>4 DEF TripwireColumns
  <1>9. said # None /\ status # "pending" /\ (status = "observed") = observed
    <2>1. status \in Results /\ status # "pending"
      BY <1>2 DEF Results
    <2>2. said # None
      BY <1>0, <1>3, <2>1, SaidIsSaid
    <2>3. (status = "observed") = observed
      BY <1>2
    <2>4. QED
      BY <2>1, <2>2, <2>3
  <1>10. /\ BeliefShape(row, time + 1) /\ row.at = time + 1 /\ row.kind = "evidence"
         /\ row.source = "tripwire" /\ row.id = w.id /\ row.key = key
    <2>1. weight \in Int
      BY <1>0, <1>5, WeightsAreNumbers DEF TripwireState
    <2>2. Weighed(given, weight) \in Int
      BY <2>1, WeightsAreNumbers
    <2>3. time' \in Nat \ {0} /\ time' = time + 1
      BY <1>0, <1>7
    <2>4. /\ BeliefShape(row, time') /\ row.kind = "evidence" /\ row.at = time' /\ row.key = key
          /\ row.source = "tripwire" /\ row.id = w.id
      BY <1>6, <2>2, <2>3, EvidenceShape
    <2>5. QED
      BY <2>3, <2>4
  <1>11. Tests'
    <2>1. Numbered(tripwires')
      BY <1>0, <1>7, <1>8, NumberedReplaced
    <2>2. TripwireState(x)
      BY <1>0, <1>8, <1>9 DEF TripwireState
    <2>3. \A y \in tripwires' : TripwireState(y)
      BY <1>0, <1>7, <2>2
    <2>4. QED
      BY <1>0, <1>7, <2>1, <2>3 DEF Tests
  <1>12. FieldReports' = FieldReports
    <2>1. \A e \in DOMAIN experiments : theories'[experiments[e].theory].key
                                          = theories[experiments[e].theory].key
      BY KeysStay DEF Shapes
    <2>2. ExperimentsHold
      BY <1>0, <1>7, <2>1, SameFieldReports
    <2>3. QED
      BY <2>2 DEF ExperimentsHold
  <1>13. LinkReports' = LinkReports
    BY <1>7, SameLinkReports
  <1>14. \A y \in tripwires : theories'[y.theory].key = theories[y.theory].key
    BY KeysStay DEF Shapes
  <1>15. TripwireReport(x)' = row
    <2>1. TripwireReport(x)' = Answer(theories'[x.theory].key, "tripwire", x.id,
                                 TripwireWeight(x.direction, x.status = "observed", x.level), x.last)
      BY DEF TripwireReport
    <2>2. TripwireReport(x)' = Answer(key, "tripwire", w.id, weight, said)
      BY <1>0, <1>5, <1>8, <1>9, <1>14, <2>1
    <2>3. row = Answer(key, "tripwire", w.id, weight, said)
      BY <1>3, <1>6, <1>7, RowIsAnswer
    <2>4. QED
      BY <2>2, <2>3
  <1>16. \A y \in tripwires : /\ TripwireReport(y)' = TripwireReport(y)
                              /\ y # w <=> ~SameSource(TripwireReport(y), row)
    <2>1. SUFFICES ASSUME NEW y \in tripwires
                   PROVE  /\ TripwireReport(y)' = TripwireReport(y)
                          /\ y # w <=> ~SameSource(TripwireReport(y), row)
      OBVIOUS
    <2>2. TripwireReport(y)' = TripwireReport(y)
      BY <1>14 DEF TripwireReport
    <2>3. /\ TripwireReport(y).key = theories[y.theory].key /\ TripwireReport(y).id = y.id
          /\ TripwireReport(y).source = "tripwire"
      BY AnswerFacts DEF TripwireReport
    <2>4. y # w => y.id # w.id
      BY <1>0 DEF Numbered
    <2>5. QED
      BY <1>5, <1>10, <2>2, <2>3, <2>4 DEF SameSource
  <1>17. TripwireReports' = {r \in TripwireReports : ~SameSource(r, row)} \cup {row}
    <2>1. TripwireReports' = {TripwireReport(y)' : y \in {y \in tripwires' : y.last # None}}
      BY DEF TripwireReports
    <2>2. {y \in tripwires' : y.last # None} = {y \in tripwires : y.last # None /\ y # w} \cup {x}
      BY <1>7, <1>8, <1>9
    <2>3. TripwireReports' = {TripwireReport(y)' : y \in {y \in tripwires : y.last # None /\ y # w}}
                              \cup {TripwireReport(x)'}
      BY <2>1, <2>2
    <2>4. {TripwireReport(y)' : y \in {y \in tripwires : y.last # None /\ y # w}}
            = {TripwireReport(y) : y \in {y \in tripwires : y.last # None /\ y # w}}
      BY <1>16
    <2>5. {TripwireReport(y) : y \in {y \in tripwires : y.last # None /\ y # w}}
            = {r \in TripwireReports : ~SameSource(r, row)}
      BY <1>16 DEF TripwireReports
    <2>6. QED
      BY <1>15, <2>3, <2>4, <2>5
  <1>18. Reports' = {r \in TripwireReports : ~SameSource(r, row)} \cup {row} \cup (FieldReports \cup LinkReports)
    BY <1>12, <1>13, <1>17 DEF Reports
  <1>19. \A r \in FieldReports \cup LinkReports : r.source # row.source
    BY <1>10, ReportSources
  <1>20. Reports = TripwireReports \cup (FieldReports \cup LinkReports)
    BY <1>0
  <1>21. BeliefRows' /\ EvidenceIn(beliefs') = Reports'
    BY <1>7, <1>10, <1>18, <1>19, <1>20, Recorded
  <1>22. QED
    BY <1>11, <1>21 DEF Ledger

LEMMA LinkRecorded ==
    ASSUME Shapes, Holding, Ledger, Steps, NEW h \in hypotheses, Links(h)
    PROVE  Ledger'
  <1>0. /\ BeliefRows /\ Tests /\ Reports = TripwireReports \cup FieldReports \cup LinkReports
        /\ Numbered(hypotheses) /\ \A y \in hypotheses : HypothesisState(y)
        /\ time \in Nat
    BY DEF Ledger, Reports, Tests, BeliefRows
  <1>1. PICK given \in Given, event \in Events, result \in {"held", "refuted", "inconclusive"} :
          RecordLink(h, result, given, event)
    BY DEF Links
  <1>2. PICK said : said = Said(result, given, event)
    OBVIOUS
  <1>3. PICK x : x = [h EXCEPT !.status = result, !.last = said]
    OBVIOUS
  <1>4. PICK weight : weight = LinkWeight(result, h.level)
    OBVIOUS
  <1>5. PICK row : row = Evidence(h.key, Weighed(given, weight), "link_hypothesis", h.id, event, time')
    OBVIOUS
  <1>6. /\ hypotheses' = (hypotheses \ {h}) \cup {x} /\ time' = time + 1
        /\ beliefs' = WithEvidence(beliefs, row)
        /\ experiments' = experiments /\ tripwires' = tripwires
    BY <1>1, <1>2, <1>3, <1>4, <1>5 DEF RecordLink, Tick
  <1>7. /\ x.status = result /\ x.last = said /\ x.id = h.id /\ x.key = h.key
        /\ x.level = h.level /\ DOMAIN x = DOMAIN h
    BY <1>0, <1>3 DEF HypothesisState, HypothesisColumns
  <1>8. said # None /\ result # "open"
    <2>1. result \in Results /\ result # "open"
      BY DEF Results, FieldWeight
    <2>2. QED
      BY <1>0, <1>2, <2>1, SaidIsSaid
  <1>9. /\ BeliefShape(row, time + 1) /\ row.at = time + 1 /\ row.kind = "evidence"
        /\ row.source = "link_hypothesis" /\ row.id = h.id /\ row.key = h.key
    <2>1. weight \in Int
      BY <1>0, <1>4, WeightsAreNumbers DEF HypothesisState
    <2>2. Weighed(given, weight) \in Int
      BY <2>1, WeightsAreNumbers
    <2>3. time' \in Nat \ {0} /\ time' = time + 1
      BY <1>0, <1>6
    <2>4. /\ BeliefShape(row, time') /\ row.kind = "evidence" /\ row.at = time' /\ row.key = h.key
          /\ row.source = "link_hypothesis" /\ row.id = h.id
      BY <1>5, <2>2, <2>3, EvidenceShape
    <2>5. QED
      BY <2>3, <2>4
  <1>10. Tests'
    <2>1. Numbered(hypotheses')
      BY <1>0, <1>6, <1>7, NumberedReplaced
    <2>2. HypothesisState(x)
      BY <1>0, <1>7, <1>8 DEF HypothesisState
    <2>3. \A y \in hypotheses' : HypothesisState(y)
      BY <1>0, <1>6, <2>2
    <2>4. QED
      BY <1>0, <1>6, <2>1, <2>3 DEF Tests
  <1>11. FieldReports' = FieldReports
    <2>1. \A e \in DOMAIN experiments : theories'[experiments[e].theory].key
                                          = theories[experiments[e].theory].key
      BY KeysStay DEF Shapes
    <2>2. ExperimentsHold
      BY <1>0, <1>6, <2>1, SameFieldReports
    <2>3. QED
      BY <2>2 DEF ExperimentsHold
  <1>12. TripwireReports' = TripwireReports
    BY <1>6, SameTripwireReports
  <1>13. LinkReport(x) = row
    <2>1. LinkReport(x) = Answer(h.key, "link_hypothesis", h.id, weight, said)
      BY <1>4, <1>7 DEF LinkReport
    <2>2. row = Answer(h.key, "link_hypothesis", h.id, weight, said)
      BY <1>2, <1>5, <1>6, RowIsAnswer
    <2>3. QED
      BY <2>1, <2>2
  <1>14. \A y \in hypotheses : y # h <=> ~SameSource(LinkReport(y), row)
    <2>1. SUFFICES ASSUME NEW y \in hypotheses PROVE y # h <=> ~SameSource(LinkReport(y), row)
      OBVIOUS
    <2>2. /\ LinkReport(y).key = y.key /\ LinkReport(y).id = y.id
          /\ LinkReport(y).source = "link_hypothesis"
      BY AnswerFacts DEF LinkReport
    <2>3. y # h => y.id # h.id
      BY <1>0 DEF Numbered
    <2>4. QED
      BY <1>9, <2>2, <2>3 DEF SameSource
  <1>15. LinkReports' = {r \in LinkReports : ~SameSource(r, row)} \cup {row}
    <2>1. LinkReports' = {LinkReport(y) : y \in {y \in hypotheses' : y.last # None}}
      BY DEF LinkReports, LinkReport
    <2>2. {y \in hypotheses' : y.last # None} = {y \in hypotheses : y.last # None /\ y # h} \cup {x}
      BY <1>6, <1>7, <1>8
    <2>3. LinkReports' = {LinkReport(y) : y \in {y \in hypotheses : y.last # None /\ y # h}} \cup {LinkReport(x)}
      BY <2>1, <2>2
    <2>4. {LinkReport(y) : y \in {y \in hypotheses : y.last # None /\ y # h}}
            = {r \in LinkReports : ~SameSource(r, row)}
      BY <1>14 DEF LinkReports
    <2>5. QED
      BY <1>13, <2>3, <2>4
  <1>16. Reports' = {r \in LinkReports : ~SameSource(r, row)} \cup {row} \cup (TripwireReports \cup FieldReports)
    BY <1>11, <1>12, <1>15 DEF Reports
  <1>17. \A r \in TripwireReports \cup FieldReports : r.source # row.source
    BY <1>9, ReportSources
  <1>18. Reports = LinkReports \cup (TripwireReports \cup FieldReports)
    BY <1>0
  <1>19. BeliefRows' /\ EvidenceIn(beliefs') = Reports'
    BY <1>6, <1>9, <1>16, <1>17, <1>18, Recorded
  <1>20. QED
    BY <1>10, <1>19 DEF Ledger

LEMMA FieldRecorded ==
    ASSUME Shapes, Holding, Ledger, Steps, NEW e \in DOMAIN experiments, Records(e)
    PROVE  Ledger'
  <1>0. /\ BeliefRows /\ Tests /\ Reports = TripwireReports \cup FieldReports \cup LinkReports
        /\ \A f \in DOMAIN experiments : /\ ExperimentState(experiments[f])
                                         /\ ExperimentColumns \subseteq DOMAIN experiments[f]
                                         /\ experiments[f].theory \in DOMAIN theories
        /\ time \in Nat
    BY DEF Ledger, Reports, Tests, Shapes, BeliefRows
  <1>1. PICK given \in Given, event \in Events, result \in DOMAIN FieldWeight :
          RecordField(e, result, given, event)
    BY DEF Records
  <1>2. PICK said : said = Said(result, given, event)
    OBVIOUS
  <1>3. PICK key, weight : key = theories[experiments[e].theory].key /\ weight = FieldWeight[result]
    OBVIOUS
  <1>4. PICK row : row = Evidence(key, Weighed(given, weight), "field_experiment", e, event, time')
    OBVIOUS
  <1>5. /\ time' = time + 1 /\ beliefs' = WithEvidence(beliefs, row)
        /\ hypotheses' = hypotheses /\ tripwires' = tripwires /\ theories' = theories
    BY <1>1, <1>2, <1>3, <1>4 DEF RecordField, Tick
  <1>6. experiments' = [experiments EXCEPT
         ![e].status = "executed", ![e].last = said,
         ![e].support = @ \/ result = "supports",
         ![e].oppose = @ \/ result = "refutes",
         ![e].neutral = @ \/ result = "inconclusive"]
    BY <1>1, <1>2 DEF RecordField
  <1>7. /\ DOMAIN experiments' = DOMAIN experiments
        /\ experiments'[e].last = said /\ experiments'[e].theory = experiments[e].theory
        /\ \A f \in DOMAIN experiments : f # e => experiments'[f] = experiments[f]
    <2>1. experiments'[e] = [experiments[e] EXCEPT
             !.status = "executed", !.last = said,
             !.support = @ \/ result = "supports",
             !.oppose = @ \/ result = "refutes",
             !.neutral = @ \/ result = "inconclusive"]
      BY <1>6
    <2>2. experiments'[e].last = said /\ experiments'[e].theory = experiments[e].theory
      BY <1>0, <2>1 DEF ExperimentColumns
    <2>3. QED
      BY <1>6, <2>2
  <1>8. said # None /\ said.what = result
    <2>1. result \in Results
      BY DEF Results
    <2>2. QED
      BY <1>0, <1>2, <2>1, SaidIsSaid DEF Said
  <1>9. /\ BeliefShape(row, time + 1) /\ row.at = time + 1 /\ row.kind = "evidence"
        /\ row.source = "field_experiment" /\ row.id = e /\ row.key = key
    <2>1. weight \in Int
      BY <1>3, WeightsAreNumbers
    <2>2. Weighed(given, weight) \in Int
      BY <2>1, WeightsAreNumbers
    <2>3. time' \in Nat \ {0} /\ time' = time + 1
      BY <1>0, <1>5
    <2>4. /\ BeliefShape(row, time') /\ row.kind = "evidence" /\ row.at = time' /\ row.key = key
          /\ row.source = "field_experiment" /\ row.id = e
      BY <1>4, <2>2, <2>3, EvidenceShape
    <2>5. QED
      BY <2>3, <2>4
  <1>10. Tests'
    <2>1. \A f \in DOMAIN experiments' : ExperimentState(experiments'[f])
      BY <1>0, <1>7, <1>8 DEF ExperimentState
    <2>2. QED
      BY <1>0, <1>5, <2>1 DEF Tests
  <1>11. TripwireReports' = TripwireReports /\ LinkReports' = LinkReports
    BY <1>5, SameTripwireReports, SameLinkReports
  <1>12. FieldReport(e)' = row
    <2>1. FieldReport(e)' = Answer(theories'[experiments'[e].theory].key, "field_experiment", e,
                                   FieldWeight[experiments'[e].last.what], experiments'[e].last)
      BY DEF FieldReport
    <2>2. FieldReport(e)' = Answer(key, "field_experiment", e, weight, said)
      BY <1>3, <1>5, <1>7, <1>8, <2>1
    <2>3. row = Answer(key, "field_experiment", e, weight, said)
      BY <1>2, <1>4, <1>5, RowIsAnswer
    <2>4. QED
      BY <2>2, <2>3
  <1>13. \A f \in DOMAIN experiments : /\ f # e => FieldReport(f)' = FieldReport(f)
                                       /\ f # e <=> ~SameSource(FieldReport(f), row)
    <2>1. SUFFICES ASSUME NEW f \in DOMAIN experiments
                   PROVE  /\ f # e => FieldReport(f)' = FieldReport(f)
                          /\ f # e <=> ~SameSource(FieldReport(f), row)
      OBVIOUS
    <2>2. f # e => FieldReport(f)' = FieldReport(f)
      BY <1>5, <1>7 DEF FieldReport
    <2>3. /\ FieldReport(f).key = theories[experiments[f].theory].key /\ FieldReport(f).id = f
          /\ FieldReport(f).source = "field_experiment"
      BY AnswerFacts DEF FieldReport
    <2>4. QED
      BY <1>3, <1>9, <2>2, <2>3 DEF SameSource
  <1>14. FieldReports' = {r \in FieldReports : ~SameSource(r, row)} \cup {row}
    <2>1. FieldReports' = {FieldReport(f)' : f \in {f \in DOMAIN experiments' : experiments'[f].last # None}}
      BY DEF FieldReports
    <2>2. {f \in DOMAIN experiments' : experiments'[f].last # None}
            = {f \in DOMAIN experiments : experiments[f].last # None /\ f # e} \cup {e}
      BY <1>7, <1>8
    <2>3. FieldReports' = {FieldReport(f)' : f \in {f \in DOMAIN experiments : experiments[f].last # None /\ f # e}}
                           \cup {FieldReport(e)'}
      BY <2>1, <2>2
    <2>4. {FieldReport(f)' : f \in {f \in DOMAIN experiments : experiments[f].last # None /\ f # e}}
            = {FieldReport(f) : f \in {f \in DOMAIN experiments : experiments[f].last # None /\ f # e}}
      BY <1>13
    <2>5. {FieldReport(f) : f \in {f \in DOMAIN experiments : experiments[f].last # None /\ f # e}}
            = {r \in FieldReports : ~SameSource(r, row)}
      BY <1>13 DEF FieldReports
    <2>6. QED
      BY <1>12, <2>3, <2>4, <2>5
  <1>15. Reports' = {r \in FieldReports : ~SameSource(r, row)} \cup {row} \cup (TripwireReports \cup LinkReports)
    BY <1>11, <1>14 DEF Reports
  <1>16. \A r \in TripwireReports \cup LinkReports : r.source # row.source
    BY <1>9, ReportSources
  <1>17. Reports = FieldReports \cup (TripwireReports \cup LinkReports)
    BY <1>0
  <1>18. BeliefRows' /\ EvidenceIn(beliefs') = Reports'
    BY <1>5, <1>9, <1>15, <1>16, <1>17, Recorded
  <1>19. QED
    BY <1>10, <1>18 DEF Ledger

\* A step that reports nothing keeps the ledger.
LEMMA LedgerKept ==
    ASSUME Shapes, Holding, Ledger, Steps,
           ~\E w \in tripwires : Observes(w), ~\E e \in DOMAIN experiments : Records(e),
           ~\E h \in hypotheses : Links(h)
    PROVE  Ledger'
  <1>1. BeliefRows /\ Tests /\ EvidenceIn(beliefs) = Reports
    BY DEF Ledger
  <1>2. /\ Numbered(tripwires') /\ \A w \in tripwires' : TripwireState(w)
        /\ TripwireReports' = TripwireReports
    BY <1>1, TripwiresKept
  <1>3. ExperimentsHold /\ HypothesesHold
    BY <1>1, ExperimentsKept, HypothesesKept
  <1>4. Tests' /\ Reports' = Reports
    BY <1>2, <1>3 DEF Tests, Reports, ExperimentsHold, HypothesesHold
  <1>5. CASE UNCHANGED <<beliefs, time>>
    <2>1. BeliefRows' /\ EvidenceIn(beliefs') = EvidenceIn(beliefs)
      BY <1>1, <1>5 DEF BeliefRows
    <2>2. QED
      BY <1>1, <1>4, <2>1 DEF Ledger
  <1>6. ASSUME NEW key, NEW value \in Priors, StatePrior(key, value) PROVE Ledger'
    <2>1. PICK row : row = Prior(key, value, time')
      OBVIOUS
    <2>2. time' = time + 1 /\ beliefs' = Append(beliefs, row)
      BY <1>6, <2>1 DEF StatePrior, Tick
    <2>3. time \in Nat /\ value \in Int
      BY <1>1, BeliefsAssumption DEF BeliefRows
    <2>4. BeliefShape(row, time') /\ row.kind = "prior" /\ row.at = time'
      BY <2>1, <2>2, <2>3, PriorShape
    <2>5. BeliefRows' /\ EvidenceIn(beliefs') = EvidenceIn(beliefs)
      BY <1>1, <2>2, <2>4, StatedRows
    <2>6. QED
      BY <1>1, <1>4, <2>5 DEF Ledger
  <1>7. QED
    BY <1>5, <1>6, EvidenceEffects

\* The evidence rows are what the answered tests report.
LEMMA LedgerHolds ==
    Spec => []Ledger
  <1>1. Init => Ledger
    <2>1. SUFFICES ASSUME Init PROVE Ledger
      OBVIOUS
    <2>2. /\ beliefs = <<>> /\ time = 0 /\ tripwires = {} /\ hypotheses = {} /\ experiments = <<>>
      BY <2>1 DEF Init
    <2>3. IsList(beliefs) /\ DOMAIN beliefs = {} /\ DOMAIN experiments = {}
      <3>1. beliefs = [i \in 1..0 |-> beliefs[i]]
        BY <2>2
      <3>2. QED
        BY <2>2, <3>1 DEF IsList
    <2>4. BeliefRows
      BY <2>2, <2>3 DEF BeliefRows, InTime
    <2>5. Tests
      BY <2>2, <2>3 DEF Tests, Numbered
    <2>6. EvidenceIn(beliefs) = {} /\ Reports = {}
      BY <2>2, <2>3 DEF EvidenceIn, ToSet, Reports, TripwireReports, FieldReports, LinkReports
    <2>7. QED
      BY <2>4, <2>5, <2>6 DEF Ledger
  <1>2. Grounds /\ Ledger /\ [Next]_vars => Ledger'
    <2>1. SUFFICES ASSUME Grounds, Ledger, [Next]_vars PROVE Ledger'
      OBVIOUS
    <2>2. CASE Next
      <3>1. Shapes /\ Holding /\ Steps
        BY <2>1, <2>2, EveryStep DEF Grounds
      <3>2. QED
        BY <2>1, <3>1, TripwireRecorded, FieldRecorded, LinkRecorded, LedgerKept
    <2>3. CASE UNCHANGED vars
      BY <2>1, <2>3 DEF Ledger, BeliefRows, Tests, Reports, TripwireReports, FieldReports, LinkReports,
           TripwireReport, FieldReport, LinkReport, vars
    <2>4. QED
      BY <2>1, <2>2, <2>3
  <1>3. QED
    BY <1>1, <1>2, GroundsHold, PTL DEF Spec

-----------------------------------------------------------------------------
(* What is read back of the rows *)

\* A list in the order of its times has as many elements as rows.
LEMMA AsManyRows ==
    ASSUME NEW rows, IsList(rows), InTime(rows), \A i \in DOMAIN rows : rows[i].at \in Nat
    PROVE  /\ IsFiniteSet(ToSet(rows)) /\ Len(rows) = Cardinality(ToSet(rows))
           /\ \A i, j \in DOMAIN rows : rows[i].at = rows[j].at => i = j
  <1>1. PICK n \in Nat : n = Len(rows) /\ DOMAIN rows = 1..n /\ rows = [i \in 1..n |-> rows[i]]
    BY ListLength
  <1>2. ASSUME NEW i \in 1..n, NEW j \in 1..n, rows[i].at = rows[j].at PROVE i = j
    <2>1. i \in DOMAIN rows /\ j \in DOMAIN rows
      BY <1>1, <1>2
    <2>2. PICK a \in Nat, b \in Nat : a = rows[i].at /\ b = rows[j].at
      BY <2>1
    <2>3. (i < j => a < b) /\ (j < i => b < a)
      BY <2>1, <2>2 DEF InTime
    <2>4. a = b
      BY <1>2, <2>2
    <2>5. QED
      BY <2>3, <2>4
  <1>3. PICK all : all = ToSet(rows)
    OBVIOUS
  <1>4. rows \in [1..n -> all] /\ \A r \in all : \E i \in 1..n : rows[i] = r
    BY <1>1, <1>3 DEF ToSet
  <1>5. rows \in Injection(1..n, all)
    BY <1>2, <1>4 DEF Injection, IsInjective
  <1>6. rows \in Surjection(1..n, all)
    BY <1>4 DEF Surjection
  <1>7. ExistsBijection(1..n, all)
    BY <1>5, <1>6 DEF Bijection, ExistsBijection
  <1>8. IsFiniteSet(1..n) /\ Cardinality(1..n) = n
    BY FS_Interval
  <1>9. IsFiniteSet(all) /\ Cardinality(all) = n
    BY <1>7, <1>8, FS_Bijection
  <1>10. QED
    BY <1>1, <1>2, <1>3, <1>9

\* The rows of a theory, of a kind.
LEMMA RowsOf ==
    ASSUME BeliefRows, NEW key, NEW kind
    PROVE  /\ IsList(Of(beliefs, key, kind)) /\ InTime(Of(beliefs, key, kind))
           /\ ToSet(Of(beliefs, key, kind)) = {r \in ToSet(beliefs) : r.key = key /\ r.kind = kind}
           /\ \A i \in DOMAIN Of(beliefs, key, kind) :
                /\ Of(beliefs, key, kind)[i] \in ToSet(beliefs)
                /\ Of(beliefs, key, kind)[i].kind = kind
                /\ BeliefShape(Of(beliefs, key, kind)[i], time)
                /\ Of(beliefs, key, kind)[i].at \in Nat
  <1> DEFINE places == {i \in DOMAIN beliefs : beliefs[i].key = key /\ beliefs[i].kind = kind}
  <1>1. PICK p : p = Of(beliefs, key, kind)
    OBVIOUS
  <1>2. p = Picked(beliefs, places) /\ places \subseteq DOMAIN beliefs
    BY <1>1 DEF Of
  <1>3. {beliefs[i] : i \in places} = {r \in ToSet(beliefs) : r.key = key /\ r.kind = kind}
    BY DEF ToSet
  <1> HIDE DEF places
  <1>4. IsList(p) /\ InTime(p) /\ ToSet(p) = {beliefs[i] : i \in places}
    BY <1>2, PickedFrom DEF BeliefRows
  <1>5. \A r \in ToSet(beliefs) : BeliefShape(r, time) /\ r.at \in Nat
    BY DEF BeliefRows, ToSet, BeliefShape
  <1>6. \A i \in DOMAIN p : p[i] \in ToSet(p)
    BY DEF ToSet
  <1>7. \A i \in DOMAIN p : /\ p[i] \in ToSet(beliefs) /\ p[i].kind = kind
                            /\ BeliefShape(p[i], time) /\ p[i].at \in Nat
    BY <1>3, <1>4, <1>5, <1>6
  <1>8. QED
    BY <1>1, <1>3, <1>4, <1>7

\* What was observed of a theory is what is reported under its key.
LEMMA ObservedIsReported ==
    ASSUME NEW key
    PROVE  Observed(key) = {r \in Reports : r.key = key}
  <1>1. {TripwireReport(w) : w \in {w \in tripwires : w.last # None /\ theories[w.theory].key = key}}
          = {r \in TripwireReports : r.key = key}
    <2>1. \A w \in tripwires : TripwireReport(w).key = theories[w.theory].key
      BY AnswerFacts DEF TripwireReport
    <2>2. QED
      BY <2>1 DEF TripwireReports
  <1>2. {FieldReport(e) : e \in {e \in DOMAIN experiments : /\ experiments[e].last # None
                                                           /\ theories[experiments[e].theory].key = key}}
          = {r \in FieldReports : r.key = key}
    <2>1. \A e \in DOMAIN experiments : FieldReport(e).key = theories[experiments[e].theory].key
      BY AnswerFacts DEF FieldReport
    <2>2. QED
      BY <2>1 DEF FieldReports
  <1>3. {LinkReport(h) : h \in {h \in hypotheses : h.last # None /\ h.key = key}}
          = {r \in LinkReports : r.key = key}
    <2>1. \A h \in hypotheses : LinkReport(h).key = h.key
      BY AnswerFacts DEF LinkReport
    <2>2. QED
      BY <2>1 DEF LinkReports
  <1>4. Observed(key) =
          {TripwireReport(w) : w \in {w \in tripwires : w.last # None /\ theories[w.theory].key = key}}
          \cup {FieldReport(e) : e \in {e \in DOMAIN experiments : /\ experiments[e].last # None
                                                           /\ theories[experiments[e].theory].key = key}}
          \cup {LinkReport(h) : h \in {h \in hypotheses : h.last # None /\ h.key = key}}
    BY DEF Observed, TripwireReport, FieldReport, LinkReport
  <1>5. QED
    BY <1>1, <1>2, <1>3, <1>4 DEF Reports

\* Every answer is one row, and there is no other.
LEMMA LedgerIsObserved ==
    ASSUME Ledger
    PROVE  EvidenceIsWhatWasObserved
  <1>1. BeliefRows /\ EvidenceIn(beliefs) = Reports
    BY DEF Ledger
  <1>2. SUFFICES ASSUME NEW key \in Keys
                 PROVE  /\ ToSet(Of(beliefs, key, "evidence")) = Observed(key)
                        /\ Len(Of(beliefs, key, "evidence")) = Cardinality(Observed(key))
    BY DEF EvidenceIsWhatWasObserved
  <1>3. PICK rows : rows = Of(beliefs, key, "evidence")
    OBVIOUS
  <1>4. /\ IsList(rows) /\ InTime(rows) /\ \A i \in DOMAIN rows : rows[i].at \in Nat
        /\ ToSet(rows) = {r \in ToSet(beliefs) : r.key = key /\ r.kind = "evidence"}
    BY <1>1, <1>3, RowsOf
  <1>5. ToSet(rows) = {r \in EvidenceIn(beliefs) : r.key = key}
    BY <1>4 DEF EvidenceIn
  <1>6. ToSet(rows) = Observed(key)
    BY <1>1, <1>5, ObservedIsReported
  <1>7. Len(rows) = Cardinality(ToSet(rows))
    BY <1>4, AsManyRows
  <1>8. QED
    BY <1>3, <1>6, <1>7

-----------------------------------------------------------------------------
(* Replay, and what it comes to *)

\* A sum, place by place.
LEMMA SumFacts ==
    ASSUME NEW n \in Nat, NEW places, NEW value, \A i \in 1..n : value[i] \in Int
    PROVE  \E g : /\ SumOver(places, value, n) = g[n] /\ g[0] = 0
                  /\ \A m \in 0..n, k \in 0..n : m # 0 /\ k = m - 1 =>
                       g[m] = g[k] + (IF m \in places THEN value[m] ELSE 0)
  <1> DEFINE Rec(f) == f = [i \in 0..n |->
                          IF i = 0 THEN 0 ELSE f[i - 1] + (IF i \in places THEN value[i] ELSE 0)]
             step == [k \in 1..n |-> [x \in Int |-> x + (IF k \in places THEN value[k] ELSE 0)]]
  <1>1. step \in [1..n -> [Int -> Int]] /\ 0 \in Int
    <2>1. \A k \in 1..n : (IF k \in places THEN value[k] ELSE 0) \in Int
      OBVIOUS
    <2>2. \A k \in 1..n, x \in Int : x + (IF k \in places THEN value[k] ELSE 0) \in Int
      BY <2>1
    <2>3. QED
      BY <2>2
  <1>2. PICK f : Values(f, Int, 0, n, step)
    <2> HIDE DEF step
    <2>1. QED
      BY <1>1, Recursion
  <1>3. f \in [0..n -> Int] /\ f[0] = 0 /\ \A k \in 1..n : f[k] = step[k][f[k - 1]]
    <2> HIDE DEF step
    <2>1. QED
      BY <1>2 DEF Values
  <1>4. ASSUME NEW i \in 0..n
        PROVE  f[i] = IF i = 0 THEN 0 ELSE f[i - 1] + (IF i \in places THEN value[i] ELSE 0)
    <2>1. CASE i = 0
      BY <1>3, <2>1
    <2>2. CASE i # 0
      <3>1. i \in 1..n /\ i - 1 \in 0..n /\ f[i - 1] \in Int
        BY <1>3, <2>2
      <3>2. f[i] = step[i][f[i - 1]]
        BY <1>3, <3>1
      <3>3. step[i][f[i - 1]] = f[i - 1] + (IF i \in places THEN value[i] ELSE 0)
        BY <3>1
      <3>4. QED
        BY <2>2, <3>2, <3>3
    <2>3. QED
      BY <2>1, <2>2
  <1>5. Rec(f)
    <2>1. DOMAIN f = 0..n /\ f = [m \in 0..n |-> f[m]]
      BY <1>3
    <2> HIDE DEF step
    <2>2. QED
      BY <1>4, <2>1
  <1>6. PICK g : Rec(g) /\ g = CHOOSE h : Rec(h)
    BY <1>5
  <1>7. SumOver(places, value, n) = g[n]
    BY <1>6 DEF SumOver
  <1>8. ASSUME NEW i \in 0..n
        PROVE  g[i] = IF i = 0 THEN 0 ELSE g[i - 1] + (IF i \in places THEN value[i] ELSE 0)
    BY <1>6
  <1> HIDE DEF Rec
  <1>9. g[0] = 0
    <2>1. 0 \in 0..n
      OBVIOUS
    <2>2. QED
      BY <1>8, <2>1
  <1>10. ASSUME NEW m \in 0..n, NEW k \in 0..n, m # 0, k = m - 1
         PROVE  g[m] = g[k] + (IF m \in places THEN value[m] ELSE 0)
    BY <1>8, <1>10
  <1>11. QED
    BY <1>7, <1>9, <1>10

\* A replay, row by row.
LEMMA AfterFacts ==
    ASSUME NEW rows, NEW n \in Nat, Len(rows) = n, NEW prior, prior.weight \in Int,
           \A i \in 1..n : rows[i].weight \in Int
    PROVE  /\ AfterEach(rows, prior)[0] = prior.weight
           /\ \A m \in 0..n, k \in 0..n : m # 0 /\ k = m - 1 =>
                AfterEach(rows, prior)[m] =
                  IF Counts(rows, prior, m) THEN BayesUpdate(AfterEach(rows, prior)[k], rows[m].weight)
                  ELSE AfterEach(rows, prior)[k]
  <1> DEFINE Rec(f) == f = [i \in 0..Len(rows) |->
                          IF i = 0 THEN prior.weight
                          ELSE IF Counts(rows, prior, i) THEN BayesUpdate(f[i - 1], rows[i].weight)
                          ELSE f[i - 1]]
             step == [k \in 1..n |-> [x \in Int |->
                        IF Counts(rows, prior, k) THEN BayesUpdate(x, rows[k].weight) ELSE x]]
  <1>1. step \in [1..n -> [Int -> Int]]
    <2>1. \A k \in 1..n, x \in Int : BayesUpdate(x, rows[k].weight) \in Int
      BY DEF BayesUpdate, Clamp, MaxWeight, MaxConviction
    <2>2. QED
      BY <2>1
  <1>2. PICK f : Values(f, Int, prior.weight, n, step)
    <2> HIDE DEF step
    <2>1. QED
      BY <1>1, Recursion
  <1>3. f \in [0..n -> Int] /\ f[0] = prior.weight /\ \A k \in 1..n : f[k] = step[k][f[k - 1]]
    <2> HIDE DEF step
    <2>1. QED
      BY <1>2 DEF Values
  <1>4. ASSUME NEW i \in 0..n
        PROVE  f[i] = IF i = 0 THEN prior.weight
                      ELSE IF Counts(rows, prior, i) THEN BayesUpdate(f[i - 1], rows[i].weight)
                      ELSE f[i - 1]
    <2>1. CASE i = 0
      BY <1>3, <2>1
    <2>2. CASE i # 0
      <3>1. i \in 1..n /\ i - 1 \in 0..n /\ f[i - 1] \in Int
        BY <1>3, <2>2
      <3>2. f[i] = step[i][f[i - 1]]
        BY <1>3, <3>1
      <3>3. step[i][f[i - 1]] =
              IF Counts(rows, prior, i) THEN BayesUpdate(f[i - 1], rows[i].weight) ELSE f[i - 1]
        BY <3>1
      <3>4. QED
        BY <2>2, <3>2, <3>3
    <2>3. QED
      BY <2>1, <2>2
  <1>5. Rec(f)
    <2>1. DOMAIN f = 0..n /\ f = [m \in 0..n |-> f[m]]
      BY <1>3
    <2> HIDE DEF step
    <2>2. QED
      BY <1>4, <2>1
  <1>6. PICK g : Rec(g) /\ g = CHOOSE h : Rec(h)
    BY <1>5
  <1>7. AfterEach(rows, prior) = g
    BY <1>6 DEF AfterEach
  <1>8. ASSUME NEW i \in 0..n
        PROVE  g[i] = IF i = 0 THEN prior.weight
                      ELSE IF Counts(rows, prior, i) THEN BayesUpdate(g[i - 1], rows[i].weight)
                      ELSE g[i - 1]
    BY <1>6
  <1> HIDE DEF Rec
  <1>9. g[0] = prior.weight
    <2>1. 0 \in 0..n
      OBVIOUS
    <2>2. QED
      BY <1>8, <2>1
  <1>10. ASSUME NEW m \in 0..n, NEW k \in 0..n, m # 0, k = m - 1
         PROVE  g[m] = IF Counts(rows, prior, m) THEN BayesUpdate(g[k], rows[m].weight) ELSE g[k]
    BY <1>8, <1>10
  <1>11. QED
    BY <1>7, <1>9, <1>10

\* The latest prior is a row.
LEMMA LatestPriorFacts ==
    ASSUME BeliefRows, NEW key, NEW prior, prior = LatestPrior(beliefs, key), prior # None
    PROVE  prior \in ToSet(beliefs) /\ prior.kind = "prior" /\ prior.weight \in Int /\ prior.at \in Nat
  <1>1. PICK stated : stated = Of(beliefs, key, "prior")
    OBVIOUS
  <1>2. stated # <<>> /\ prior = stated[Len(stated)]
    BY <1>1 DEF LatestPrior, Last
  <1>3. /\ IsList(stated)
        /\ \A i \in DOMAIN stated : /\ stated[i] \in ToSet(beliefs) /\ stated[i].kind = "prior"
                                    /\ BeliefShape(stated[i], time) /\ stated[i].at \in Nat
    BY <1>1, RowsOf
  <1>4. PICK m \in Nat : m = Len(stated) /\ DOMAIN stated = 1..m /\ stated = [i \in 1..m |-> stated[i]]
    BY <1>3, ListLength
  <1>5. m # 0
    <2>1. SUFFICES ASSUME m = 0 PROVE FALSE
      OBVIOUS
    <2>2. stated = <<>>
      BY <1>4, <2>1
    <2>3. QED
      BY <1>2, <2>2
  <1>6. m \in DOMAIN stated
    BY <1>4, <1>5
  <1>7. QED
    BY <1>2, <1>3, <1>4, <1>6 DEF BeliefShape

\* What is believed after each row is a number.
LEMMA AfterIsNumber ==
    ASSUME NEW rows, NEW n \in Nat, Len(rows) = n, NEW prior, prior.weight \in Int,
           \A i \in 1..n : rows[i].weight \in Int
    PROVE  \A m \in 0..n : AfterEach(rows, prior)[m] \in Int
  <1>1. PICK after : after = AfterEach(rows, prior)
    OBVIOUS
  <1>2. /\ after[0] = prior.weight
        /\ \A m \in 0..n, k \in 0..n : m # 0 /\ k = m - 1 =>
             after[m] = IF Counts(rows, prior, m) THEN BayesUpdate(after[k], rows[m].weight) ELSE after[k]
    BY <1>1, AfterFacts
  <1> DEFINE good == {m \in 0..n : after[m] \in Int}
  <1>3. good \subseteq 0..n /\ 0 \in good
    BY <1>2
  <1>4. ASSUME NEW m \in good, m # n PROVE m + 1 \in good
    <2>1. m \in 0..n /\ m + 1 \in 1..n /\ m + 1 \in 0..n /\ m + 1 # 0 /\ m = (m + 1) - 1
      BY <1>4
    <2>2. after[m + 1] = IF Counts(rows, prior, m + 1) THEN BayesUpdate(after[m], rows[m + 1].weight)
                         ELSE after[m]
      BY <1>2, <2>1
    <2>3. PICK x \in Int, w \in Int : x = after[m] /\ w = rows[m + 1].weight
      BY <1>4, <2>1
    <2>4. BayesUpdate(x, w) \in Int
      BY DEF BayesUpdate, Clamp, MaxWeight, MaxConviction
    <2>5. after[m + 1] \in Int
      BY <2>2, <2>3, <2>4
    <2>6. QED
      BY <2>1, <2>5
  <1>5. good = 0..n
    <2> HIDE DEF good
    <2>1. QED
      BY <1>3, <1>4, Stepwise
  <1>6. QED
    BY <1>1, <1>5

\* A conviction is a number, if there is one.
LEMMA ReplayIsNumber ==
    ASSUME BeliefRows, NEW key
    PROVE  Replay(beliefs, key) \in {None} \cup Int
  <1>1. PICK prior, rows : prior = LatestPrior(beliefs, key) /\ rows = Of(beliefs, key, "evidence")
    OBVIOUS
  <1>2. CASE prior = None
    BY <1>1, <1>2 DEF Replay
  <1>3. CASE prior # None
    <2>1. IsList(rows) /\ \A i \in DOMAIN rows : BeliefShape(rows[i], time)
      BY <1>1, RowsOf
    <2>2. PICK n \in Nat : n = Len(rows) /\ DOMAIN rows = 1..n
      BY <2>1, ListLength
    <2>3. \A i \in 1..n : rows[i].weight \in Int
      BY <2>1, <2>2 DEF BeliefShape
    <2>4. prior.weight \in Int
      BY <1>1, <1>3, LatestPriorFacts
    <2>5. AfterEach(rows, prior)[n] \in Int
      BY <2>2, <2>3, <2>4, AfterIsNumber
    <2>6. QED
      BY <1>1, <1>3, <2>2, <2>5 DEF Replay
  <1>4. QED
    BY <1>2, <1>3

\* What is believed, the sum of the weights and the sum of their sizes, place by
\* place.
Summed(n, places, w, after, sum, total) ==
    \A m \in 0..n, k \in 0..n : m # 0 /\ k = m - 1 =>
       /\ after[m] = IF m \in places THEN BayesUpdate(after[k], w[m]) ELSE after[k]
       /\ sum[m] = sum[k] + (IF m \in places THEN w[m] ELSE 0)
       /\ total[m] = total[k] + (IF m \in places THEN Abs(w[m]) ELSE 0)

\* As long as prior and weights together stay within the bound, no bound is met
\* on the way, and what is believed is the sum.
LEMMA MovedIsSum ==
    ASSUME NEW n \in Nat, NEW places, NEW p \in Int, NEW w, \A i \in 1..n : w[i] \in (-MaxWeight)..MaxWeight,
           NEW after, NEW sum, NEW total, after[0] = p, sum[0] = 0, total[0] = 0,
           Summed(n, places, w, after, sum, total)
    PROVE  Abs(p) + total[n] > MaxConviction \/ after[n] = p + sum[n]
  <1> DEFINE Good(m) == /\ sum[m] \in Int /\ total[m] \in Nat /\ after[m] \in Int
                        /\ -total[m] <= sum[m] /\ sum[m] <= total[m]
                        /\ Abs(p) + total[m] > MaxConviction \/ after[m] = p + sum[m]
             good == {m \in 0..n : Good(m)}
  <1>1. 0 \in good
    OBVIOUS
  <1>2. ASSUME NEW m \in good, m # n PROVE m + 1 \in good
    <2>1. m \in 0..n /\ m + 1 \in 0..n /\ m + 1 # 0 /\ m = (m + 1) - 1 /\ m + 1 \in 1..n /\ Good(m)
      BY <1>2
    <2>2. PICK a, s, t, b, r, u : /\ a = after[m] /\ s = sum[m] /\ t = total[m]
                                  /\ b = after[m + 1] /\ r = sum[m + 1] /\ u = total[m + 1]
      OBVIOUS
    <2>3. /\ s \in Int /\ t \in Nat /\ a \in Int /\ -t <= s /\ s <= t
          /\ Abs(p) + t > MaxConviction \/ a = p + s
      BY <2>1, <2>2
    <2>4. PICK x \in (-MaxWeight)..MaxWeight : x = w[m + 1]
      BY <2>1
    <2>5. /\ b = IF m + 1 \in places THEN BayesUpdate(a, x) ELSE a
          /\ r = s + (IF m + 1 \in places THEN x ELSE 0)
          /\ u = t + (IF m + 1 \in places THEN Abs(x) ELSE 0)
      BY <2>1, <2>2, <2>4 DEF Summed
    <2>6. /\ r \in Int /\ u \in Nat /\ b \in Int /\ -u <= r /\ r <= u
          /\ Abs(p) + u > MaxConviction \/ b = p + r
      <3>1. CASE m + 1 \notin places
        BY <2>3, <2>5, <3>1
      <3>2. CASE m + 1 \in places
        <4>1. x \in Int /\ -30 <= x /\ x <= 30
          BY DEF MaxWeight
        <4>2. Clamp(x, MaxWeight) = x
          BY <4>1 DEF Clamp, MaxWeight
        <4>3. b = Clamp(a + x, MaxConviction) /\ r = s + x /\ u = t + Abs(x)
          BY <2>5, <3>2, <4>2 DEF BayesUpdate
        <4>4. Abs(x) \in Nat /\ -Abs(x) <= x /\ x <= Abs(x)
          BY <4>1 DEF Abs
        <4>5. Abs(p) \in Nat /\ -Abs(p) <= p /\ p <= Abs(p)
          BY DEF Abs
        <4>6. r \in Int /\ u \in Nat /\ -u <= r /\ r <= u
          BY <2>3, <4>1, <4>3, <4>4
        <4>7. b \in Int
          BY <2>3, <4>1, <4>3 DEF Clamp, MaxConviction
        <4>8. ASSUME ~(Abs(p) + u > MaxConviction) PROVE b = p + r
          <5>1. a = p + s
            BY <2>3, <4>3, <4>4, <4>5, <4>8 DEF MaxConviction
          <5>2. a + x = p + r /\ a + x <= MaxConviction /\ -MaxConviction <= a + x
            BY <2>3, <4>1, <4>3, <4>5, <4>6, <4>8, <5>1 DEF MaxConviction
          <5>3. QED
            BY <2>3, <4>1, <4>3, <5>2 DEF Clamp, MaxConviction
        <4>9. QED
          BY <4>6, <4>7, <4>8
      <3>3. QED
        BY <3>1, <3>2
    <2>7. QED
      BY <2>1, <2>2, <2>6
  <1>3. good \subseteq 0..n /\ n \in 0..n
    OBVIOUS
  <1>4. n \in good
    <2> HIDE DEF good
    <2>1. QED
      BY <1>1, <1>2, <1>3, Stepwise
  <1>5. QED
    BY <1>4

-----------------------------------------------------------------------------
(* The observations that count *)

EvidenceRows(rows) ==
    /\ IsList(rows) /\ InTime(rows)
    /\ \A i \in DOMAIN rows : rows[i].at \in Nat /\ rows[i].weight \in (-MaxWeight)..MaxWeight

Foremost(rows, event, i) ==
    \A j \in Reported(rows, event) :
       \/ Abs(rows[j].weight) < Abs(rows[i].weight)
       \/ Abs(rows[j].weight) = Abs(rows[i].weight) /\ i <= j

\* Of the reports of an event the earliest of the strongest comes before all.
LEMMA EarliestIsForemost ==
    ASSUME NEW rows, EvidenceRows(rows), NEW event, Reported(rows, event) # {}
    PROVE  /\ Earliest(rows, event) \in Reported(rows, event)
           /\ \A i \in Reported(rows, event) : i = Earliest(rows, event) <=> Foremost(rows, event, i)
  <1>1. PICK n \in Nat : n = Len(rows) /\ DOMAIN rows = 1..n
    BY ListLength DEF EvidenceRows
  <1>2. PICK group : group = Reported(rows, event)
    OBVIOUS
  <1>3. group \subseteq 1..n /\ group # {} /\ group \subseteq DOMAIN rows
    BY <1>1, <1>2 DEF Reported
  <1>4. PICK size : size = Sizes(rows)
    OBVIOUS
  <1>5. \A i \in group : size[i] = Abs(rows[i].weight) /\ size[i] \in 0..30
    <2>1. SUFFICES ASSUME NEW i \in group PROVE size[i] = Abs(rows[i].weight) /\ size[i] \in 0..30
      OBVIOUS
    <2>2. i \in DOMAIN rows
      BY <1>3
    <2>3. PICK x \in (-MaxWeight)..MaxWeight : x = rows[i].weight
      BY <2>2 DEF EvidenceRows
    <2>4. Abs(x) \in 0..30
      BY DEF Abs, MaxWeight
    <2>5. size[i] = Abs(rows[i].weight)
      BY <1>4, <2>2 DEF Sizes
    <2>6. QED
      BY <2>3, <2>4, <2>5
  <1>6. PICK top : top = Max({size[j] : j \in group})
    OBVIOUS
  <1>7. top \in {size[j] : j \in group} /\ \A j \in group : size[j] <= top
    <2>1. PICK sizes : sizes = {size[j] : j \in group}
      OBVIOUS
    <2>2. sizes \subseteq Nat /\ sizes # {} /\ 30 \in Nat /\ \A k \in sizes : k <= 30
      <3>1. \A j \in group : size[j] \in Nat /\ size[j] <= 30
        BY <1>5
      <3>2. QED
        BY <1>3, <2>1, <3>1
    <2>3. Max(sizes) \in sizes /\ \A k \in sizes : k <= Max(sizes)
      BY <2>2, MaxFacts
    <2>4. QED
      BY <1>6, <2>1, <2>3
  <1>8. PICK strongest : strongest = Strongest(rows, event)
    OBVIOUS
  <1>9. strongest = {i \in group : size[i] = top}
    BY <1>2, <1>4, <1>6, <1>8 DEF Strongest
  <1>10. strongest \subseteq Nat /\ strongest # {}
    BY <1>3, <1>7, <1>9
  <1>11. PICK m \in strongest : \A k \in strongest : m <= k
    BY <1>10, LeastExists
  <1>12. \A k \in strongest : rows[k].at \in Nat /\ k \in DOMAIN rows /\ k \in Nat
    BY <1>3, <1>9, <1>10 DEF EvidenceRows
  <1>13. \A k \in strongest : rows[m].at <= rows[k].at
    <2>1. SUFFICES ASSUME NEW k \in strongest PROVE rows[m].at <= rows[k].at
      OBVIOUS
    <2>2. m = k \/ m < k
      BY <1>11, <1>12
    <2>3. PICK a \in Nat, b \in Nat : a = rows[m].at /\ b = rows[k].at
      BY <1>12
    <2>4. m < k => a < b
      BY <1>12, <2>3 DEF EvidenceRows, InTime
    <2>5. QED
      BY <2>2, <2>3, <2>4
  <1>14. \E i \in strongest : \A j \in strongest : rows[i].at <= rows[j].at
    BY <1>13
  <1>15. PICK c : c = Earliest(rows, event)
    OBVIOUS
  <1>16. c \in strongest /\ \A j \in strongest : rows[c].at <= rows[j].at
    BY <1>8, <1>14, <1>15 DEF Earliest
  <1>17. c = m
    <2>1. PICK a \in Nat, b \in Nat : a = rows[m].at /\ b = rows[c].at
      BY <1>12, <1>16
    <2>2. a <= b /\ b <= a
      BY <1>13, <1>16, <2>1
    <2>3. a = b
      BY <2>2
    <2>4. m \in DOMAIN rows /\ c \in DOMAIN rows
      BY <1>12, <1>16
    <2>5. QED
      BY <2>1, <2>3, <2>4, AsManyRows DEF EvidenceRows
  <1>18. ASSUME NEW i \in group
         PROVE  i = m <=> \A j \in group : size[j] < size[i] \/ (size[j] = size[i] /\ i <= j)
    <2>1. ASSUME NEW j \in group PROVE size[j] < size[m] \/ (size[j] = size[m] /\ m <= j)
      <3>1. size[m] = top /\ size[j] \in Nat /\ size[m] \in Nat /\ size[j] <= top
        BY <1>5, <1>7, <1>9
      <3>2. size[j] = top => m <= j
        BY <1>9, <1>11
      <3>3. QED
        BY <3>1, <3>2
    <2>2. ASSUME \A j \in group : size[j] < size[i] \/ (size[j] = size[i] /\ i <= j)
          PROVE  i = m
      <3>1. size[m] = top /\ size[i] \in Nat /\ size[m] \in Nat /\ size[i] <= top /\ m \in group
        BY <1>5, <1>7, <1>9
      <3>2. size[i] = top /\ i <= m
        BY <2>2, <3>1
      <3>3. m <= i
        BY <1>9, <1>11, <3>2
      <3>4. i \in Nat /\ m \in Nat
        BY <1>3, <3>1
      <3>5. QED
        BY <3>2, <3>3, <3>4
    <2>3. QED
      BY <2>1, <2>2
  <1>19. \A i \in group : (\A j \in group : size[j] < size[i] \/ (size[j] = size[i] /\ i <= j))
                            <=> Foremost(rows, event, i)
    BY <1>2, <1>5 DEF Foremost
  <1>20. m \in group
    BY <1>9
  <1>21. QED
    BY <1>2, <1>15, <1>17, <1>18, <1>19, <1>20

\* What moves a prior is what the replay counts.
LEMMA MovingIsCounted ==
    ASSUME NEW rows, EvidenceRows(rows), NEW prior, prior.at \in Nat,
           \A i \in DOMAIN rows : rows[i].at # prior.at,
           NEW i \in DOMAIN rows
    PROVE  i \in Moving(rows, prior) <=> Counts(rows, prior, i)
  <1> DEFINE fresh == {j \in DOMAIN rows : rows[j].at > prior.at}
             events == {e \in {rows[j].event : j \in DOMAIN rows} \ {None} : Reported(rows, e) \subseteq fresh}
  <1>1. DOMAIN rows = 1..Len(rows)
    BY ListLength DEF EvidenceRows
  <1>2. \A j \in DOMAIN rows : j \in fresh <=> rows[j].at >= prior.at
    <2>1. SUFFICES ASSUME NEW j \in DOMAIN rows PROVE rows[j].at > prior.at <=> rows[j].at >= prior.at
      OBVIOUS
    <2>2. PICK a \in Nat, b \in Nat : a = rows[j].at /\ b = prior.at
      BY DEF EvidenceRows
    <2>3. a # b
      BY <2>2
    <2>4. QED
      BY <2>2, <2>3
  <1>3. PICK e : e = rows[i].event
    OBVIOUS
  <1>4. Moving(rows, prior) = {j \in fresh : rows[j].event = None} \cup {Earliest(rows, x) : x \in events}
    BY DEF Moving
  <1>5. \A x \in events : x # None /\ Reported(rows, x) # {} /\ Earliest(rows, x) \in Reported(rows, x)
    <2>1. SUFFICES ASSUME NEW x \in events
                   PROVE  x # None /\ Reported(rows, x) # {} /\ Earliest(rows, x) \in Reported(rows, x)
      OBVIOUS
    <2>2. x # None /\ Reported(rows, x) # {}
      BY DEF Reported
    <2>3. QED
      BY <2>2, EarliestIsForemost
  <1>6. \A x \in events : i = Earliest(rows, x) => x = e
    BY <1>3, <1>5 DEF Reported
  <1>7. i \in Reported(rows, e)
    BY <1>3 DEF Reported
  <1>8. e # None => (e \in events <=> \A j \in Reported(rows, e) : rows[j].at >= prior.at)
    <2>1. \A j \in Reported(rows, e) : j \in DOMAIN rows
      BY DEF Reported
    <2>2. e \in {rows[j].event : j \in DOMAIN rows}
      BY <1>3
    <2>3. Reported(rows, e) \subseteq fresh <=> \A j \in Reported(rows, e) : rows[j].at >= prior.at
      BY <1>2, <2>1
    <2>4. QED
      BY <2>2, <2>3
  <1>9. Counts(rows, prior, i) <=>
          /\ rows[i].at >= prior.at
          /\ e # None => /\ \A j \in Reported(rows, e) : rows[j].at >= prior.at
                         /\ Foremost(rows, e, i)
    BY <1>1, <1>3 DEF Counts, Reported, Foremost
  <1>10. i = Earliest(rows, e) <=> Foremost(rows, e, i)
    BY <1>7, EarliestIsForemost
  <1> HIDE DEF fresh, events
  <1>11. CASE e = None
    <2>1. \A x \in events : i # Earliest(rows, x)
      BY <1>5, <1>6, <1>11
    <2>2. i \in Moving(rows, prior) <=> i \in fresh
      BY <1>3, <1>4, <1>11, <2>1
    <2>3. QED
      BY <1>2, <1>9, <1>11, <2>2
  <1>12. CASE e # None
    <2>1. i \in Moving(rows, prior) <=> e \in events /\ i = Earliest(rows, e)
      BY <1>3, <1>4, <1>6, <1>12
    <2>2. QED
      BY <1>7, <1>8, <1>9, <1>10, <1>12, <2>1
  <1>13. QED
    BY <1>11, <1>12

\* A conviction is Bayes' rule over the rows that count.
LEMMA RowsAreBayes ==
    ASSUME BeliefRows
    PROVE  ConvictionIsBayes
  <1>1. SUFFICES ASSUME NEW key \in Keys, NEW prior, prior = LatestPrior(beliefs, key), prior # None,
                        NEW rows, rows = Of(beliefs, key, "evidence")
                 PROVE  \/ Abs(prior.weight) + SumOver(Moving(rows, prior), Sizes(rows), Len(rows)) > MaxConviction
                        \/ Replay(beliefs, key) =
                             prior.weight + SumOver(Moving(rows, prior), [i \in DOMAIN rows |-> rows[i].weight], Len(rows))
    BY DEF ConvictionIsBayes
  <1>2. /\ IsList(rows) /\ InTime(rows)
        /\ \A i \in DOMAIN rows : /\ rows[i] \in ToSet(beliefs) /\ rows[i].kind = "evidence"
                                  /\ BeliefShape(rows[i], time) /\ rows[i].at \in Nat
    BY <1>1, RowsOf
  <1>3. PICK n \in Nat : n = Len(rows) /\ DOMAIN rows = 1..n
    BY <1>2, ListLength
  <1>4. EvidenceRows(rows)
    <2>1. \A i \in DOMAIN rows : rows[i].weight \in (-MaxWeight)..MaxWeight
      BY <1>2 DEF BeliefShape
    <2>2. QED
      BY <1>2, <2>1 DEF EvidenceRows
  <1>5. prior \in ToSet(beliefs) /\ prior.kind = "prior" /\ prior.weight \in Int /\ prior.at \in Nat
    BY <1>1, LatestPriorFacts
  <1>6. \A i \in DOMAIN rows : rows[i].at # prior.at
    <2>1. SUFFICES ASSUME NEW i \in DOMAIN rows, rows[i].at = prior.at PROVE FALSE
      OBVIOUS
    <2>2. PICK j \in DOMAIN beliefs : beliefs[j] = rows[i]
      BY <1>2 DEF ToSet
    <2>3. PICK k \in DOMAIN beliefs : beliefs[k] = prior
      BY <1>5 DEF ToSet
    <2>4. \A l \in DOMAIN beliefs : beliefs[l].at \in Nat
      BY DEF BeliefRows, BeliefShape
    <2>5. j = k
      BY <2>1, <2>2, <2>3, <2>4, AsManyRows DEF BeliefRows
    <2>6. QED
      BY <1>2, <1>5, <2>2, <2>3, <2>5
  <1>7. PICK moving, w, size : /\ moving = Moving(rows, prior) /\ w = [i \in DOMAIN rows |-> rows[i].weight]
                               /\ size = Sizes(rows)
    OBVIOUS
  <1>8. \A i \in 1..n : /\ w[i] = rows[i].weight /\ size[i] = Abs(rows[i].weight)
                        /\ w[i] \in (-MaxWeight)..MaxWeight
    BY <1>3, <1>4, <1>7 DEF Sizes, EvidenceRows
  <1>9. \A i \in 1..n : w[i] \in Int /\ size[i] \in Int /\ rows[i].weight \in Int
    BY <1>8 DEF Abs, MaxWeight
  <1>10. PICK sum : /\ SumOver(moving, w, n) = sum[n] /\ sum[0] = 0
                    /\ \A m \in 0..n, k \in 0..n : m # 0 /\ k = m - 1 =>
                         sum[m] = sum[k] + (IF m \in moving THEN w[m] ELSE 0)
    BY <1>9, SumFacts
  <1>11. PICK total : /\ SumOver(moving, size, n) = total[n] /\ total[0] = 0
                      /\ \A m \in 0..n, k \in 0..n : m # 0 /\ k = m - 1 =>
                           total[m] = total[k] + (IF m \in moving THEN size[m] ELSE 0)
    BY <1>9, SumFacts
  <1>12. PICK after : after = AfterEach(rows, prior)
    OBVIOUS
  <1>13. /\ after[0] = prior.weight
         /\ \A m \in 0..n, k \in 0..n : m # 0 /\ k = m - 1 =>
              after[m] = IF Counts(rows, prior, m) THEN BayesUpdate(after[k], rows[m].weight) ELSE after[k]
    BY <1>3, <1>5, <1>9, <1>12, AfterFacts
  <1>14. Summed(n, moving, w, after, sum, total)
    <2>1. SUFFICES ASSUME NEW m \in 0..n, NEW k \in 0..n, m # 0, k = m - 1
                   PROVE  /\ after[m] = IF m \in moving THEN BayesUpdate(after[k], w[m]) ELSE after[k]
                          /\ sum[m] = sum[k] + (IF m \in moving THEN w[m] ELSE 0)
                          /\ total[m] = total[k] + (IF m \in moving THEN Abs(w[m]) ELSE 0)
      BY DEF Summed
    <2>2. m \in 1..n /\ m \in DOMAIN rows
      BY <1>3, <2>1
    <2>3. m \in moving <=> Counts(rows, prior, m)
      BY <1>4, <1>5, <1>6, <1>7, <2>2, MovingIsCounted
    <2>4. size[m] = Abs(w[m]) /\ w[m] = rows[m].weight
      BY <1>8, <2>2
    <2>5. QED
      BY <1>10, <1>11, <1>13, <2>1, <2>3, <2>4
  <1>15. Abs(prior.weight) + total[n] > MaxConviction \/ after[n] = prior.weight + sum[n]
    <2>1. PICK p \in Int : p = prior.weight
      BY <1>5
    <2>2. after[0] = p /\ sum[0] = 0 /\ total[0] = 0
      BY <1>10, <1>11, <1>13, <2>1
    <2>3. \A i \in 1..n : w[i] \in (-MaxWeight)..MaxWeight
      BY <1>8
    <2>4. Abs(p) + total[n] > MaxConviction \/ after[n] = p + sum[n]
      BY <1>14, <2>2, <2>3, MovedIsSum
    <2>5. QED
      BY <2>1, <2>4
  <1>16. Replay(beliefs, key) = after[n]
    BY <1>1, <1>3, <1>12 DEF Replay
  <1>17. QED
    BY <1>3, <1>7, <1>10, <1>11, <1>15, <1>16

\* A conviction is what was stated, moved by what was observed as it stands now,
\* and by nothing else: every answered test is one row of evidence, worth what the
\* answer that stands is worth, and as long as no bound is met the conviction is
\* the latest prior plus what counts since.
THEOREM ConvictionHolds == Spec => []ConvictionIsEarned
  <1>1. Ledger => ConvictionIsEarned
    BY LedgerIsObserved, RowsAreBayes DEF Ledger, ConvictionIsEarned
  <1>2. QED
    BY <1>1, LedgerHolds, PTL

-----------------------------------------------------------------------------
(* Reports, and the rows they are *)

\* No two reports are of one source.
LEMMA ReportsApart ==
    ASSUME Tests, NEW r \in Reports, NEW other \in Reports, r.source = other.source, r.id = other.id
    PROVE  r = other
  <1>1. CASE r \in TripwireReports
    <2>1. other \in TripwireReports
      BY <1>1, ReportSources DEF Reports
    <2>2. PICK w \in tripwires : r = TripwireReport(w)
      BY <1>1 DEF TripwireReports
    <2>3. PICK x \in tripwires : other = TripwireReport(x)
      BY <2>1 DEF TripwireReports
    <2>4. r.id = w.id /\ other.id = x.id
      BY <2>2, <2>3, AnswerFacts DEF TripwireReport
    <2>5. w = x
      BY <2>4 DEF Tests, Numbered
    <2>6. QED
      BY <2>2, <2>3, <2>5
  <1>2. CASE r \in FieldReports
    <2>1. other \in FieldReports
      BY <1>2, ReportSources DEF Reports
    <2>2. PICK e \in DOMAIN experiments : r = FieldReport(e)
      BY <1>2 DEF FieldReports
    <2>3. PICK f \in DOMAIN experiments : other = FieldReport(f)
      BY <2>1 DEF FieldReports
    <2>4. r.id = e /\ other.id = f
      BY <2>2, <2>3, AnswerFacts DEF FieldReport
    <2>5. QED
      BY <2>2, <2>3, <2>4
  <1>3. CASE r \in LinkReports
    <2>1. other \in LinkReports
      BY <1>3, ReportSources DEF Reports
    <2>2. PICK h \in hypotheses : r = LinkReport(h)
      BY <1>3 DEF LinkReports
    <2>3. PICK x \in hypotheses : other = LinkReport(x)
      BY <2>1 DEF LinkReports
    <2>4. r.id = h.id /\ other.id = x.id
      BY <2>2, <2>3, AnswerFacts DEF LinkReport
    <2>5. h = x
      BY <2>4 DEF Tests, Numbered
    <2>6. QED
      BY <2>2, <2>3, <2>5
  <1>4. QED
    BY <1>1, <1>2, <1>3 DEF Reports

\* A report is one row of the theory it is about.
LEMMA OneRow ==
    ASSUME Ledger, NEW r \in Reports, NEW rows, rows = Of(beliefs, r.key, "evidence")
    PROVE  \E i \in DOMAIN rows :
             /\ rows[i] = r
             /\ {j \in DOMAIN rows : rows[j].source = r.source /\ rows[j].id = r.id} = {i}
  <1>1. BeliefRows /\ Tests /\ EvidenceIn(beliefs) = Reports
    BY DEF Ledger
  <1>2. /\ IsList(rows) /\ InTime(rows) /\ \A i \in DOMAIN rows : rows[i].at \in Nat
        /\ ToSet(rows) = {x \in ToSet(beliefs) : x.key = r.key /\ x.kind = "evidence"}
    BY <1>1, RowsOf
  <1>3. ToSet(rows) = {x \in Reports : x.key = r.key}
    BY <1>1, <1>2 DEF EvidenceIn
  <1>4. PICK i \in DOMAIN rows : rows[i] = r
    <2>1. r \in ToSet(rows)
      BY <1>3
    <2>2. QED
      BY <2>1 DEF ToSet
  <1>5. ASSUME NEW j \in DOMAIN rows, rows[j].source = r.source, rows[j].id = r.id
        PROVE  j = i
    <2>1. rows[j] \in Reports
      BY <1>3 DEF ToSet
    <2>2. rows[j] = r
      BY <1>1, <1>5, <2>1, ReportsApart
    <2>3. QED
      BY <1>2, <1>4, <2>2, AsManyRows
  <1>6. QED
    BY <1>4, <1>5

-----------------------------------------------------------------------------
(* What would change the decider's mind *)

\* What came out as a signal says weighs as the signal says, unless the caller
\* said otherwise.
LEMMA TripwireWeighs ==
    ASSUME NEW w, w.level \in Decisiveness, w.direction \in {"falsifies", "confirms"},
           w.status = "observed", w.last.given = None
    PROVE  TripwireReport(w).weight \in Int \ {0}
           /\ (TripwireReport(w).weight < 0 <=> w.direction = "falsifies")
  <1>1. PICK p \in 1..MaxWeight : p = PresenceWeight[w.level]
    BY DEF PresenceWeight, Decisiveness, MaxWeight
  <1>2. PICK weight : weight = TripwireWeight(w.direction, TRUE, w.level)
    OBVIOUS
  <1>3. weight = IF w.direction = "confirms" THEN p ELSE -p
    BY <1>1, <1>2 DEF TripwireWeight
  <1>4. TripwireReport(w).weight = Clamp(weight, MaxWeight)
    BY <1>2 DEF TripwireReport, Answer, Evidence, Weighed
  <1>5. QED
    BY <1>1, <1>3, <1>4 DEF Clamp, MaxWeight

LEMMA LinkWeighs ==
    ASSUME NEW h, h.level \in Decisiveness, h.status \in {"held", "refuted"}, h.last.given = None
    PROVE  LinkReport(h).weight \in Int \ {0} /\ (LinkReport(h).weight < 0 <=> h.status = "refuted")
  <1>1. PICK weight \in (-MaxWeight)..MaxWeight : /\ weight = LinkWeight(h.status, h.level) /\ weight # 0
                                                  /\ (weight < 0 <=> h.status = "refuted")
    BY DEF LinkWeight, Decisiveness, MaxWeight
  <1>2. LinkReport(h).weight = Clamp(weight, MaxWeight)
    BY <1>1 DEF LinkReport, Answer, Evidence, Weighed
  <1>3. QED
    BY <1>1, <1>2 DEF Clamp, MaxWeight

LEMMA SidedAsListed ==
    ASSUME NEW t, theories[t].effect \in {"achieves", "threatens"}, NEW weight \in Int \ {0}
    PROVE  Sided(Speaks(t, weight))
             = ForOption(IF weight < 0 THEN "weaken" ELSE "strengthen", theories[t].effect)
  BY DEF Sided, Speaks, ForOption

\* What is listed as having come true did weigh as it is listed.
LEMMA FiredDidWeigh ==
    ASSUME Ledger
    PROVE  FiredSignalsWeigh
  <1>0. Tests
    BY DEF Ledger
  <1> DEFINE Weigh(t, listed) ==
               LET rows == Of(beliefs, theories[t].key, "evidence")
                   about == {i \in DOMAIN rows : /\ rows[i].source = listed.signal.kind
                                                 /\ rows[i].id = listed.signal.id}
               IN  \E i \in about :
                     /\ about = {i}
                     /\ ByDefault(listed.signal) => Sided(Speaks(t, rows[i].weight)) = listed.effect
  <1>a. SUFFICES ASSUME NEW t \in Current, NEW listed \in Consolidated(theories[t].option),
                        listed.theory = t, listed.signal.kind # "field_experiment",
                        listed.signal.fired = TRUE
                 PROVE  Weigh(t, listed)
    BY Zenon DEF FiredSignalsWeigh
  <1>b. PICK rows, about :
          /\ rows = Of(beliefs, theories[t].key, "evidence")
          /\ about = {i \in DOMAIN rows : /\ rows[i].source = listed.signal.kind
                                          /\ rows[i].id = listed.signal.id}
    OBVIOUS
  <1>1. SUFFICES \E i \in about :
                   /\ about = {i}
                   /\ ByDefault(listed.signal) => Sided(Speaks(t, rows[i].weight)) = listed.effect
    BY <1>b
  <1> HIDE DEF Weigh
  <1>2. theories[t].effect \in {"achieves", "threatens"} /\
        \E signal \in TripwireSignals(t) \cup LinkSignals(t) \cup FieldSignals(t) :
          listed = [theory |-> t, signal |-> signal, effect |-> ForOption(signal.effect, theories[t].effect)]
    <2>1. PICK u \in {u \in Current : /\ theories[u].option = theories[t].option
                                     /\ theories[u].effect \in {"achieves", "threatens"}} :
            \E signal \in TripwireSignals(u) \cup LinkSignals(u) \cup FieldSignals(u) :
              listed = [theory |-> u, signal |-> signal, effect |-> ForOption(signal.effect, theories[u].effect)]
      BY <1>a DEF Consolidated
    <2>2. u = t
      BY <1>a, <2>1
    <2>3. QED
      BY <2>1, <2>2
  <1>3. PICK signal \in TripwireSignals(t) \cup LinkSignals(t) \cup FieldSignals(t) :
          listed = [theory |-> t, signal |-> signal, effect |-> ForOption(signal.effect, theories[t].effect)]
    BY <1>2
  <1>4. ASSUME NEW r \in Reports, r.key = theories[t].key, r.source = signal.kind, r.id = signal.id,
               ByDefault(signal) => /\ r.weight \in Int \ {0}
                                    /\ signal.effect = IF r.weight < 0 THEN "weaken" ELSE "strengthen"
        PROVE  \E i \in about :
                 /\ about = {i}
                 /\ ByDefault(listed.signal) => Sided(Speaks(t, rows[i].weight)) = listed.effect
    <2>1. PICK i \in DOMAIN rows :
            /\ rows[i] = r
            /\ {j \in DOMAIN rows : rows[j].source = r.source /\ rows[j].id = r.id} = {i}
      BY <1>b, <1>4, OneRow
    <2>2. about = {i}
      BY <1>b, <1>3, <1>4, <2>1
    <2>3. ASSUME ByDefault(signal) PROVE Sided(Speaks(t, r.weight)) = ForOption(signal.effect, theories[t].effect)
      BY <1>2, <1>4, <2>3, SidedAsListed
    <2>4. listed.signal = signal /\ listed.effect = ForOption(signal.effect, theories[t].effect)
      BY <1>3
    <2>5. QED
      BY <2>1, <2>2, <2>3, <2>4
  <1>5. signal.kind # "field_experiment" /\ signal.fired = TRUE
    BY <1>a, <1>3
  <1>6. CASE signal \in TripwireSignals(t)
    <2>1. PICK w \in tripwires :
            /\ w.theory = t
            /\ signal = [kind |-> "tripwire", id |-> w.id,
                         effect |-> IF w.direction = "falsifies" THEN "weaken" ELSE "strengthen",
                         resolved |-> w.status # "pending",
                         fired |-> Fired(w.status # "pending", TRUE, w.status, "observed")]
      BY <1>6 DEF TripwireSignals
    <2>2. w.status # "pending" /\ w.status = "observed"
      <3>1. Fired(w.status # "pending", TRUE, w.status, "observed") = TRUE
        BY <1>5, <2>1
      <3>2. QED
        BY <3>1, ViewsAssumption DEF Fired
    <2>3. TripwireState(w) /\ w.last # None
      BY <1>0, <2>2 DEF Tests, TripwireState
    <2>4. PICK r \in Reports : r = TripwireReport(w)
      BY <2>3 DEF Reports, TripwireReports
    <2>5. r.key = theories[t].key /\ r.source = "tripwire" /\ r.id = w.id
      BY <2>1, <2>4, AnswerFacts DEF TripwireReport
    <2>6. ASSUME ByDefault(signal)
          PROVE  r.weight \in Int \ {0} /\ signal.effect = IF r.weight < 0 THEN "weaken" ELSE "strengthen"
      <3>1. w.last.given = None
        BY <2>1, <2>6 DEF ByDefault
      <3>2. r.weight \in Int \ {0} /\ (r.weight < 0 <=> w.direction = "falsifies")
        BY <2>2, <2>3, <2>4, <3>1, TripwireWeighs DEF TripwireState
      <3>3. QED
        BY <2>1, <3>2
    <2>7. QED
      BY <1>4, <2>1, <2>5, <2>6
  <1>7. CASE signal \in LinkSignals(t)
    <2>1. PICK h \in hypotheses, result \in {"refuted", "held"} :
            /\ h.key = theories[t].key
            /\ signal = [kind |-> "link_hypothesis", id |-> h.id,
                         effect |-> IF result = "refuted" THEN "weaken" ELSE "strengthen",
                         resolved |-> h.status # "open",
                         fired |-> Fired(h.status # "open", h.status # "inconclusive", h.status, result)]
      BY <1>7 DEF LinkSignals
    <2>2. h.status # "open" /\ h.status = result
      <3>1. Fired(h.status # "open", h.status # "inconclusive", h.status, result) = TRUE
        BY <1>5, <2>1
      <3>2. QED
        BY <3>1, ViewsAssumption DEF Fired
    <2>3. HypothesisState(h) /\ h.last # None
      BY <1>0, <2>2 DEF Tests, HypothesisState
    <2>4. PICK r \in Reports : r = LinkReport(h)
      BY <2>3 DEF Reports, LinkReports
    <2>5. r.key = theories[t].key /\ r.source = "link_hypothesis" /\ r.id = h.id
      BY <2>1, <2>4, AnswerFacts DEF LinkReport
    <2>6. ASSUME ByDefault(signal)
          PROVE  r.weight \in Int \ {0} /\ signal.effect = IF r.weight < 0 THEN "weaken" ELSE "strengthen"
      <3>1. h.last.given = None
        BY <2>1, <2>6 DEF ByDefault
      <3>2. r.weight \in Int \ {0} /\ (r.weight < 0 <=> h.status = "refuted")
        BY <2>1, <2>2, <2>3, <2>4, <3>1, LinkWeighs DEF HypothesisState
      <3>3. QED
        BY <2>1, <2>2, <3>2
    <2>7. QED
      BY <1>4, <2>1, <2>5, <2>6
  <1>8. signal \notin FieldSignals(t)
    BY <1>5 DEF FieldSignals
  <1>9. QED
    BY <1>1, <1>3, <1>6, <1>7, <1>8

-----------------------------------------------------------------------------
(* The decision journal *)

\* The entry of the journal that a report is told in.
Tells(e, r, key) ==
    \/ \E w \in tripwires :
         /\ w.last # None /\ r = TripwireReport(w)
         /\ e = Entry("tripwire", w.last.at, ConvictionChange(key, "tripwire", w.id),
                      w.status = "observed" /\ w.direction = "falsifies")
    \/ \E h \in hypotheses :
         /\ h.last # None /\ r = LinkReport(h)
         /\ e = Entry("link_test", h.last.at, ConvictionChange(key, "link_hypothesis", h.id),
                      h.status = "refuted")
    \/ \E x \in DOMAIN experiments :
         /\ experiments[x].last # None /\ r = FieldReport(x)
         /\ e = Entry("field_test", experiments[x].last.at,
                      ConvictionChange(key, "field_experiment", x), FALSE)

LEMMA TellsFacts ==
    ASSUME NEW key, NEW e, NEW r, Tells(e, r, key)
    PROVE  r \in Reports /\ e.at = r.at /\ e.change = ConvictionChange(key, r.source, r.id)
  <1>1. ASSUME NEW theory, NEW source, NEW id, NEW weight, NEW last, NEW kind, NEW falsified,
               r = Answer(theory, source, id, weight, last),
               e = Entry(kind, last.at, ConvictionChange(key, source, id), falsified)
        PROVE  e.at = r.at /\ e.change = ConvictionChange(key, r.source, r.id)
    BY <1>1 DEF Answer, Evidence, Entry
  <1>2. CASE \E w \in tripwires :
               /\ w.last # None /\ r = TripwireReport(w)
               /\ e = Entry("tripwire", w.last.at, ConvictionChange(key, "tripwire", w.id),
                            w.status = "observed" /\ w.direction = "falsifies")
    <2>1. r \in Reports
      BY <1>2 DEF Reports, TripwireReports
    <2>2. QED
      BY <1>1, <1>2, <2>1 DEF TripwireReport
  <1>3. CASE \E h \in hypotheses :
               /\ h.last # None /\ r = LinkReport(h)
               /\ e = Entry("link_test", h.last.at, ConvictionChange(key, "link_hypothesis", h.id),
                            h.status = "refuted")
    <2>1. r \in Reports
      BY <1>3 DEF Reports, LinkReports
    <2>2. QED
      BY <1>1, <1>3, <2>1 DEF LinkReport
  <1>4. CASE \E x \in DOMAIN experiments :
               /\ experiments[x].last # None /\ r = FieldReport(x)
               /\ e = Entry("field_test", experiments[x].last.at,
                            ConvictionChange(key, "field_experiment", x), FALSE)
    <2>1. r \in Reports
      BY <1>4 DEF Reports, FieldReports
    <2>2. QED
      BY <1>1, <1>4, <2>1 DEF FieldReport
  <1>5. QED
    BY <1>2, <1>3, <1>4 DEF Tells

\* A report is told in one entry.
LEMMA ToldOnce ==
    ASSUME Tests, NEW key, NEW e, NEW other, NEW r, Tells(e, r, key), Tells(other, r, key)
    PROVE  e = other
  <1>1. \A w, x \in tripwires : TripwireReport(w) = TripwireReport(x) => w = x
    <2>1. \A w \in tripwires : TripwireReport(w).id = w.id
      BY AnswerFacts DEF TripwireReport
    <2>2. QED
      BY <2>1 DEF Tests, Numbered
  <1>2. \A h, x \in hypotheses : LinkReport(h) = LinkReport(x) => h = x
    <2>1. \A h \in hypotheses : LinkReport(h).id = h.id
      BY AnswerFacts DEF LinkReport
    <2>2. QED
      BY <2>1 DEF Tests, Numbered
  <1>3. \A e1, e2 \in DOMAIN experiments : FieldReport(e1) = FieldReport(e2) => e1 = e2
    <2>1. \A e1 \in DOMAIN experiments : FieldReport(e1).id = e1
      BY AnswerFacts DEF FieldReport
    <2>2. QED
      BY <2>1
  <1>4. /\ \A w : TripwireReport(w).source = "tripwire"
        /\ \A h : LinkReport(h).source = "link_hypothesis"
        /\ \A x : FieldReport(x).source = "field_experiment"
    BY AnswerFacts DEF TripwireReport, LinkReport, FieldReport
  <1>5. CASE \E w \in tripwires :
               /\ w.last # None /\ r = TripwireReport(w)
               /\ e = Entry("tripwire", w.last.at, ConvictionChange(key, "tripwire", w.id),
                            w.status = "observed" /\ w.direction = "falsifies")
    <2>1. r.source = "tripwire"
      BY <1>4, <1>5
    <2>2. QED
      BY <1>1, <1>4, <1>5, <2>1 DEF Tells
  <1>6. CASE \E h \in hypotheses :
               /\ h.last # None /\ r = LinkReport(h)
               /\ e = Entry("link_test", h.last.at, ConvictionChange(key, "link_hypothesis", h.id),
                            h.status = "refuted")
    <2>1. r.source = "link_hypothesis"
      BY <1>4, <1>6
    <2>2. QED
      BY <1>2, <1>4, <1>6, <2>1 DEF Tells
  <1>7. CASE \E x \in DOMAIN experiments :
               /\ experiments[x].last # None /\ r = FieldReport(x)
               /\ e = Entry("field_test", experiments[x].last.at,
                            ConvictionChange(key, "field_experiment", x), FALSE)
    <2>1. r.source = "field_experiment"
      BY <1>4, <1>7
    <2>2. QED
      BY <1>3, <1>4, <1>7, <2>1 DEF Tells
  <1>8. QED
    BY <1>5, <1>6, <1>7 DEF Tells

\* The journal tells of every report about a theory, and of a change in no
\* other entry.
LEMMA JournalTells ==
    ASSUME NEW key
    PROVE  /\ \A e \in DecisionTimeline(key) : e.change # None =>
                \E r \in Reports : r.key = key /\ Tells(e, r, key)
           /\ \A r \in Reports : r.key = key => \E e \in DecisionTimeline(key) : Tells(e, r, key)
  <1>1. /\ \A w : TripwireReport(w).key = theories[w.theory].key
        /\ \A h : LinkReport(h).key = h.key
        /\ \A x : FieldReport(x).key = theories[experiments[x].theory].key
    BY AnswerFacts DEF TripwireReport, LinkReport, FieldReport
  <1>2. ASSUME NEW e \in DecisionTimeline(key), e.change # None
        PROVE  \E r : r.key = key /\ Tells(e, r, key)
    <2>1. CASE \E r \in ToSet(Of(beliefs, key, "prior")) : e = Entry("conviction", r.at, None, FALSE)
      BY <1>2, <2>1 DEF Entry
    <2>2. CASE \E w \in {w \in tripwires : w.last # None /\ theories[w.theory].key = key} :
                 e = Entry("tripwire", w.last.at, ConvictionChange(key, "tripwire", w.id),
                           w.status = "observed" /\ w.direction = "falsifies")
      BY <1>1, <2>2 DEF Tells
    <2>3. CASE \E h \in {h \in hypotheses : h.last # None /\ h.key = key} :
                 e = Entry("link_test", h.last.at, ConvictionChange(key, "link_hypothesis", h.id),
                           h.status = "refuted")
      BY <1>1, <2>3 DEF Tells
    <2>4. CASE \E x \in {x \in DOMAIN experiments : /\ experiments[x].last # None
                                                    /\ theories[experiments[x].theory].key = key} :
                 e = Entry("field_test", experiments[x].last.at,
                           ConvictionChange(key, "field_experiment", x), FALSE)
      BY <1>1, <2>4 DEF Tells
    <2>5. QED
      BY <1>2, <2>1, <2>2, <2>3, <2>4 DEF DecisionTimeline
  <1>3. ASSUME NEW r \in Reports, r.key = key
        PROVE  \E e \in DecisionTimeline(key) : Tells(e, r, key)
    <2>1. CASE r \in TripwireReports
      <3>1. PICK w \in tripwires : w.last # None /\ r = TripwireReport(w)
        BY <2>1 DEF TripwireReports
      <3>2. PICK e : e = Entry("tripwire", w.last.at, ConvictionChange(key, "tripwire", w.id),
                               w.status = "observed" /\ w.direction = "falsifies")
        OBVIOUS
      <3>3. e \in DecisionTimeline(key)
        BY <1>1, <1>3, <3>1, <3>2 DEF DecisionTimeline
      <3>4. QED
        BY <3>1, <3>2, <3>3 DEF Tells
    <2>2. CASE r \in LinkReports
      <3>1. PICK h \in hypotheses : h.last # None /\ r = LinkReport(h)
        BY <2>2 DEF LinkReports
      <3>2. PICK e : e = Entry("link_test", h.last.at, ConvictionChange(key, "link_hypothesis", h.id),
                               h.status = "refuted")
        OBVIOUS
      <3>3. e \in DecisionTimeline(key)
        BY <1>1, <1>3, <3>1, <3>2 DEF DecisionTimeline
      <3>4. QED
        BY <3>1, <3>2, <3>3 DEF Tells
    <2>3. CASE r \in FieldReports
      <3>1. PICK x \in DOMAIN experiments : experiments[x].last # None /\ r = FieldReport(x)
        BY <2>3 DEF FieldReports
      <3>2. PICK e : e = Entry("field_test", experiments[x].last.at,
                               ConvictionChange(key, "field_experiment", x), FALSE)
        OBVIOUS
      <3>3. e \in DecisionTimeline(key)
        BY <1>1, <1>3, <3>1, <3>2 DEF DecisionTimeline
      <3>4. QED
        BY <3>1, <3>2, <3>3 DEF Tells
    <2>4. QED
      BY <1>3, <2>1, <2>2, <2>3 DEF Reports
  <1>4. QED
    BY <1>2, <1>3, TellsFacts

\* What a report changed is what the replay of its row did, if the row counts.
LEMMA ChangeIsReplayed ==
    ASSUME Ledger, NEW r \in Reports, NEW rows, rows = Of(beliefs, r.key, "evidence"),
           NEW prior, prior = LatestPrior(beliefs, r.key), prior # None
    PROVE  \E i \in DOMAIN rows :
             /\ rows[i] = r
             /\ ConvictionChange(r.key, r.source, r.id) =
                  IF Counts(rows, prior, i)
                    THEN <<AfterEach(rows, prior)[i - 1], AfterEach(rows, prior)[i]>> ELSE None
  <1>1. PICK i \in DOMAIN rows :
          /\ rows[i] = r
          /\ {j \in DOMAIN rows : rows[j].source = r.source /\ rows[j].id = r.id} = {i}
    BY OneRow
  <1>2. PICK told : told = {j \in DOMAIN rows : /\ rows[j].source = r.source /\ rows[j].id = r.id
                                                /\ prior # None /\ Counts(rows, prior, j)}
    OBVIOUS
  <1>3. PICK after : after = AfterEach(rows, prior)
    OBVIOUS
  <1>4. ConvictionChange(r.key, r.source, r.id) =
          IF told = {} THEN None ELSE <<after[Max(told) - 1], after[Max(told)]>>
    BY <1>2, <1>3 DEF ConvictionChange
  <1>5. told = IF Counts(rows, prior, i) THEN {i} ELSE {}
    BY <1>1, <1>2
  <1>6. i \in Nat
    <2>1. BeliefRows
      BY DEF Ledger
    <2>2. IsList(rows)
      BY <2>1, RowsOf
    <2>3. PICK n \in Nat : DOMAIN rows = 1..n
      BY <2>2, ListLength
    <2>4. QED
      BY <2>3
  <1>7. Max({i}) = i
    <2>1. Max({i}) \in {i}
      BY <1>6, MaxFacts
    <2>2. QED
      BY <2>1
  <1>8. QED
    BY <1>1, <1>3, <1>4, <1>5, <1>7

\* A replay of rows in order of time, which changes where rows count.
Replays(after, rows, n, counted) ==
    /\ DOMAIN rows = 1..n /\ InTime(rows) /\ \A i \in 1..n : rows[i].at \in Nat
    /\ counted \subseteq 1..n
    /\ \A m \in 0..n, k \in 0..n : m # 0 /\ k = m - 1 /\ m \notin counted => after[m] = after[k]

\* Entries that tell of each row that counts, once, lead where the replay does.
TellRows(told, rows, n, counted, after) ==
    /\ \A e \in told : \E i \in counted : /\ e.at = rows[i].at
                                          /\ \A k \in 0..n : k = i - 1 => e.change[1] = after[k]
                                          /\ e.change[2] = after[i]
    /\ \A i \in counted : \E e \in told : e.at = rows[i].at
    /\ \A e, other \in told : e.at = other.at => e = other

Upto(told, rows, m) == {e \in told : \E i \in 1..m : e.at = rows[i].at}

LEMMA EntriesLead ==
    ASSUME NEW n \in Nat, NEW rows, NEW counted, NEW after, Replays(after, rows, n, counted),
           NEW prior, after[0] = prior.weight,
           NEW told, TellRows(told, rows, n, counted, after)
    PROVE  \A m \in 0..n : LeftAt(Upto(told, rows, m), prior) = after[m]
  <1>0. /\ DOMAIN rows = 1..n /\ InTime(rows) /\ \A i \in 1..n : rows[i].at \in Nat
        /\ counted \subseteq 1..n
        /\ \A m \in 0..n, k \in 0..n : m # 0 /\ k = m - 1 /\ m \notin counted => after[m] = after[k]
    BY DEF Replays
  <1>1. /\ \A e \in told : \E i \in counted : e.at = rows[i].at /\ e.change[2] = after[i]
        /\ \A i \in counted : \E e \in told : e.at = rows[i].at
        /\ \A e, other \in told : e.at = other.at => e = other
    BY DEF TellRows
  <1>2. \A i, j \in 1..n : (i < j => rows[i].at < rows[j].at) /\ (rows[i].at = rows[j].at => i = j)
    <2>1. \A i, j \in 1..n : i < j => rows[i].at < rows[j].at
      BY <1>0 DEF InTime
    <2>2. ASSUME NEW i \in 1..n, NEW j \in 1..n, rows[i].at = rows[j].at PROVE i = j
      <3>1. PICK a \in Nat, b \in Nat : a = rows[i].at /\ b = rows[j].at
        BY <1>0
      <3>2. (i < j => a < b) /\ (j < i => b < a) /\ a = b
        BY <2>1, <2>2, <3>1
      <3>3. QED
        BY <3>2
    <2>3. QED
      BY <2>1, <2>2
  <1> DEFINE good == {m \in 0..n : LeftAt(Upto(told, rows, m), prior) = after[m]}
  <1>3. 0 \in good
    <2>1. Upto(told, rows, 0) = {}
      BY DEF Upto
    <2>2. QED
      BY <2>1 DEF LeftAt
  <1>4. ASSUME NEW k \in good, k # n PROVE k + 1 \in good
    <2>1. PICK m \in 1..n : m = k + 1 /\ k \in 0..n /\ k = m - 1
      BY <1>4
    <2>2. LeftAt(Upto(told, rows, k), prior) = after[k]
      BY <1>4
    <2>3. \A i \in 1..m : i \in 1..k \/ i = m
      BY <2>1
    <2>4. CASE m \notin counted
      <3>1. \A e \in told : e.at # rows[m].at
        BY <1>0, <1>1, <1>2, <2>1, <2>4
      <3>2. Upto(told, rows, m) = Upto(told, rows, k)
        BY <2>1, <2>3, <3>1 DEF Upto
      <3>3. QED
        BY <1>0, <2>1, <2>2, <2>4, <3>2
    <2>5. CASE m \in counted
      <3>1. PICK latest \in told : latest.at = rows[m].at
        BY <1>0, <1>1, <2>5
      <3>2. latest.change[2] = after[m]
        <4>1. PICK i \in counted : latest.at = rows[i].at /\ latest.change[2] = after[i]
          BY <1>1
        <4>2. i = m
          BY <1>0, <1>2, <3>1, <4>1
        <4>3. QED
          BY <4>1, <4>2
      <3>3. PICK entries : entries = Upto(told, rows, m)
        OBVIOUS
      <3>4. latest \in entries /\ entries \subseteq told
        BY <2>1, <3>1, <3>3 DEF Upto
      <3>5. \A e \in entries : e.at \in Nat /\ e.at <= latest.at
        <4>1. SUFFICES ASSUME NEW e \in entries PROVE e.at \in Nat /\ e.at <= latest.at
          OBVIOUS
        <4>2. PICK i \in 1..m : e.at = rows[i].at
          BY <3>3 DEF Upto
        <4>3. PICK a \in Nat, b \in Nat : a = rows[i].at /\ b = rows[m].at
          BY <1>0, <2>1
        <4>4. (i < m => a < b) /\ (i = m => a = b)
          BY <1>2, <2>1, <4>3
        <4>5. QED
          BY <3>1, <4>2, <4>3, <4>4
      <3>6. PICK chosen : /\ chosen = CHOOSE e \in entries : \A other \in entries : other.at <= e.at
                          /\ chosen \in entries /\ \A other \in entries : other.at <= chosen.at
        BY <3>4, <3>5
      <3>7. chosen = latest
        <4>1. latest.at \in Nat /\ chosen.at \in Nat /\ chosen.at <= latest.at /\ latest.at <= chosen.at
          BY <3>4, <3>5, <3>6
        <4>2. chosen.at = latest.at
          BY <4>1
        <4>3. QED
          BY <1>1, <3>4, <3>6, <4>2
      <3>8. LeftAt(entries, prior) = chosen.change[2]
        BY <3>4, <3>6 DEF LeftAt
      <3>9. LeftAt(Upto(told, rows, m), prior) = after[m]
        BY <3>2, <3>3, <3>7, <3>8
      <3>10. QED
        BY <2>1, <3>9
    <2>6. QED
      BY <2>4, <2>5
  <1>5. good = 0..n
    <2>1. good \subseteq 0..n /\ \A m \in good : m # n => m + 1 \in good
      BY <1>4
    <2> HIDE DEF good
    <2>2. QED
      BY <1>3, <2>1, Stepwise
  <1>6. QED
    BY <1>5

\* The journal explains every conviction.
LEMMA JournalLeads ==
    ASSUME Ledger
    PROVE  JournalExplainsConviction
  <1>0. BeliefRows /\ Tests /\ EvidenceIn(beliefs) = Reports
    BY DEF Ledger
  <1>1. SUFFICES ASSUME NEW key \in Keys, NEW prior, prior = LatestPrior(beliefs, key), prior # None,
                        NEW told, told = {e \in DecisionTimeline(key) : e.change # None}
                 PROVE  /\ \A e, other \in told : e.at = other.at => e = other
                        /\ \A e \in told : e.change[1] = LeftAt({other \in told : other.at < e.at}, prior)
                        /\ Replay(beliefs, key) = LeftAt(told, prior)
    BY Zenon DEF JournalExplainsConviction
  <1>2. PICK rows, after : rows = Of(beliefs, key, "evidence") /\ after = AfterEach(rows, prior)
    OBVIOUS
  <1>3. /\ IsList(rows) /\ InTime(rows)
        /\ \A i \in DOMAIN rows : BeliefShape(rows[i], time) /\ rows[i].at \in Nat
        /\ ToSet(rows) = {r \in ToSet(beliefs) : r.key = key /\ r.kind = "evidence"}
    BY <1>0, <1>2, RowsOf
  <1>4. PICK n \in Nat : n = Len(rows) /\ DOMAIN rows = 1..n
    BY <1>3, ListLength
  <1>5. prior.weight \in Int /\ \A i \in 1..n : rows[i].weight \in Int
    BY <1>0, <1>1, <1>3, <1>4, LatestPriorFacts DEF BeliefShape
  <1>6. /\ after[0] = prior.weight
        /\ \A m \in 0..n, k \in 0..n : m # 0 /\ k = m - 1 =>
             after[m] = IF Counts(rows, prior, m) THEN BayesUpdate(after[k], rows[m].weight) ELSE after[k]
        /\ \A m \in 0..n : after[m] \in Int
    <2>1. /\ AfterEach(rows, prior)[0] = prior.weight
          /\ \A m \in 0..n, k \in 0..n : m # 0 /\ k = m - 1 =>
               AfterEach(rows, prior)[m] =
                 IF Counts(rows, prior, m) THEN BayesUpdate(AfterEach(rows, prior)[k], rows[m].weight)
                 ELSE AfterEach(rows, prior)[k]
      BY <1>4, <1>5, AfterFacts
    <2>2. \A m \in 0..n : AfterEach(rows, prior)[m] \in Int
      BY <1>4, <1>5, AfterIsNumber
    <2>3. QED
      BY <1>2, <2>1, <2>2
  <1>7. PICK counted : counted = {i \in 1..n : Counts(rows, prior, i)}
    OBVIOUS
  <1>8. ASSUME NEW r \in Reports, r.key = key
        PROVE  \E i \in 1..n :
                 /\ rows[i] = r
                 /\ ConvictionChange(key, r.source, r.id) =
                      IF i \in counted THEN <<after[i - 1], after[i]>> ELSE None
    <2>1. rows = Of(beliefs, r.key, "evidence") /\ prior = LatestPrior(beliefs, r.key) /\ prior # None
      BY <1>1, <1>2, <1>8
    <2>2. PICK i \in DOMAIN rows :
            /\ rows[i] = r
            /\ ConvictionChange(r.key, r.source, r.id) =
                 IF Counts(rows, prior, i)
                   THEN <<AfterEach(rows, prior)[i - 1], AfterEach(rows, prior)[i]>> ELSE None
      BY <2>1, ChangeIsReplayed
    <2>3. QED
      BY <1>2, <1>4, <1>7, <1>8, <2>2
  <1>9. ASSUME NEW i \in 1..n PROVE <<after[i - 1], after[i]>> # None
    <2>1. i - 1 \in 0..n /\ i \in 0..n
      OBVIOUS
    <2>2. PICK a \in Int, b \in Int : a = after[i - 1] /\ b = after[i]
      BY <1>6, <2>1
    <2>3. <<a, b>> # None
      BY ViewsAssumption
    <2>4. QED
      BY <2>2, <2>3
  <1>10. ASSUME NEW e \in told
         PROVE  \E r \in Reports, i \in counted :
                  /\ Tells(e, r, key) /\ rows[i] = r
                  /\ e.at = rows[i].at /\ e.change = <<after[i - 1], after[i]>>
    <2>1. PICK r \in Reports : r.key = key /\ Tells(e, r, key)
      BY <1>1, JournalTells
    <2>2. e.at = r.at /\ e.change = ConvictionChange(key, r.source, r.id)
      BY <2>1, TellsFacts
    <2>3. PICK i \in 1..n : /\ rows[i] = r
                            /\ ConvictionChange(key, r.source, r.id) =
                                 IF i \in counted THEN <<after[i - 1], after[i]>> ELSE None
      BY <1>8, <2>1
    <2>4. i \in counted
      BY <1>1, <2>2, <2>3
    <2>5. QED
      BY <2>1, <2>2, <2>3, <2>4
  <1>11. ASSUME NEW i \in counted PROVE \E e \in told : e.at = rows[i].at
    <2>1. i \in 1..n /\ rows[i] \in ToSet(rows)
      BY <1>4, <1>7 DEF ToSet
    <2>2. PICK r \in Reports : r = rows[i] /\ r.key = key
      BY <1>0, <1>3, <2>1 DEF EvidenceIn
    <2>3. PICK e \in DecisionTimeline(key) : Tells(e, r, key)
      BY <2>2, JournalTells
    <2>4. e.at = r.at /\ e.change = ConvictionChange(key, r.source, r.id)
      BY <2>3, TellsFacts
    <2>5. PICK j \in 1..n : /\ rows[j] = r
                            /\ ConvictionChange(key, r.source, r.id) =
                                 IF j \in counted THEN <<after[j - 1], after[j]>> ELSE None
      BY <1>8, <2>2
    <2>6. i = j
      BY <1>3, <1>4, <2>1, <2>2, <2>5, AsManyRows
    <2>7. e.change # None
      BY <1>9, <2>1, <2>4, <2>5, <2>6
    <2>8. QED
      BY <1>1, <2>2, <2>3, <2>4, <2>7
  <1>12. ASSUME NEW e \in told, NEW other \in told, e.at = other.at PROVE e = other
    <2>1. PICK r \in Reports, i \in counted : Tells(e, r, key) /\ rows[i] = r /\ e.at = rows[i].at
      BY <1>10
    <2>2. PICK s \in Reports, j \in counted : Tells(other, s, key) /\ rows[j] = s /\ other.at = rows[j].at
      BY <1>10
    <2>3. i = j
      BY <1>3, <1>4, <1>7, <1>12, <2>1, <2>2, AsManyRows
    <2>4. QED
      BY <1>0, <2>1, <2>2, <2>3, ToldOnce
  <1>13. TellRows(told, rows, n, counted, after)
    <2>1. ASSUME NEW e \in told
          PROVE  \E i \in counted : /\ e.at = rows[i].at
                                    /\ \A k \in 0..n : k = i - 1 => e.change[1] = after[k]
                                    /\ e.change[2] = after[i]
      <3>1. PICK i \in counted : e.at = rows[i].at /\ e.change = <<after[i - 1], after[i]>>
        BY <1>10
      <3>2. QED
        BY <3>1
    <2>2. QED
      BY <1>11, <1>12, <2>1 DEF TellRows
  <1>14. \A m \in 0..n : LeftAt(Upto(told, rows, m), prior) = after[m]
    <2>1. counted \subseteq 1..n /\ \A i \in 1..n : rows[i].at \in Nat
      BY <1>3, <1>4, <1>7
    <2>2. \A m \in 0..n, k \in 0..n : m # 0 /\ k = m - 1 /\ m \notin counted => after[m] = after[k]
      BY <1>6, <1>7
    <2>3. Replays(after, rows, n, counted) /\ after[0] = prior.weight
      BY <1>3, <1>4, <1>6, <2>1, <2>2 DEF Replays
    <2>4. QED
      BY <1>13, <2>3, EntriesLead
  <1>15. ASSUME NEW e \in told
         PROVE  e.change[1] = LeftAt({other \in told : other.at < e.at}, prior)
    <2>1. PICK i \in counted : /\ e.at = rows[i].at
                               /\ \A k \in 0..n : k = i - 1 => e.change[1] = after[k]
      BY <1>13 DEF TellRows
    <2>2. PICK k \in 0..n : k = i - 1 /\ i \in 1..n
      BY <1>7
    <2>3. \A other \in told : other.at < e.at <=> \E j \in 1..k : other.at = rows[j].at
      <3>1. SUFFICES ASSUME NEW other \in told
                     PROVE  other.at < e.at <=> \E j \in 1..k : other.at = rows[j].at
        OBVIOUS
      <3>2. PICK l \in 1..n : other.at = rows[l].at
        BY <1>7, <1>10
      <3>3. \A j \in 1..n : /\ rows[j].at \in Nat
                            /\ (j < i => rows[j].at < rows[i].at) /\ (i < j => rows[i].at < rows[j].at)
        BY <1>3, <1>4, <2>2 DEF InTime
      <3>4. other.at < e.at => l \in 1..k
        BY <2>1, <2>2, <3>2, <3>3
      <3>5. \A j \in 1..k : j \in 1..n /\ j < i
        BY <2>2
      <3>6. QED
        BY <2>1, <3>2, <3>3, <3>4, <3>5
    <2>4. {other \in told : other.at < e.at} = Upto(told, rows, k)
      BY <2>3 DEF Upto
    <2>5. QED
      BY <1>14, <2>1, <2>2, <2>4
  <1>16. Replay(beliefs, key) = LeftAt(told, prior)
    <2>1. Replay(beliefs, key) = after[n]
      BY <1>1, <1>2, <1>4 DEF Replay
    <2>2. Upto(told, rows, n) = told
      BY <1>7, <1>10 DEF Upto
    <2>3. n \in 0..n
      OBVIOUS
    <2>4. QED
      BY <1>14, <2>1, <2>2, <2>3
  <1>17. QED
    BY <1>12, <1>15, <1>16

-----------------------------------------------------------------------------
(* Comparisons with cases *)

Found == [round : Nat, rates : Seq(Nat)]

\* What a theory was matched with is nothing, or a comparison with a case that was
\* read by now, at the rate the case has as long as it is on record.
Stands(m, found) ==
    \/ m = NoMatch
    \/ \E case \in {None} \cup (Nat \X Nat), polarity \in Polarities,
          belief \in {None} \cup Int, rate \in Nat :
         /\ m = [case |-> case, polarity |-> polarity,
                 delta |-> [belief |-> belief, polarity |-> polarity, rate |-> rate]]
         /\ case # None => /\ case[1] <= found.round
                           /\ case \in {found.round} \X (DOMAIN found.rates) =>
                                rate = found.rates[case[2]]

\* What a request about the cases read is what is there, unless the cases were
\* cleared since.
Recalled ==
    /\ recall.on \in Found /\ recall.on.round = cases.round
    /\ ToSet(recall.of) \subseteq DOMAIN recall.seen
    /\ DOMAIN recall.seen \subseteq DOMAIN theories
    /\ \A t \in DOMAIN recall.seen : Stands(recall.seen[t], cases)
    /\ \/ /\ cases.rates = recall.on.rates
          /\ \A t \in DOMAIN recall.seen : theories[t].match = recall.seen[t]
       \/ /\ cases.rates = <<>>
          /\ \A t \in DOMAIN recall.seen : theories[t].match = [recall.seen[t] EXCEPT !.case = None]

RowsStand == \A t \in DOMAIN theories : Stands(theories[t].match, cases) /\ OnRecord(theories[t].match.case)
ReadMatches(h) ==
    h.op = "generate" => /\ ToSet(h.of) \subseteq DOMAIN h.on
                         /\ \A t \in DOMAIN h.on : Stands(h.on[t], cases)
Remembered ==
    /\ cases \in Found
    /\ RowsStand
    /\ \A s \in Sessions : ReadMatches(work[s])
    /\ recall.op = "match" => Recalled

\* What stands goes on to stand when cases are cleared, or others are read.
LEMMA StandsStill ==
    ASSUME NEW m, NEW found \in Found, NEW next \in Found, Stands(m, found),
           \/ next = found
           \/ next.round = found.round /\ next.rates = <<>>
           \/ next.round = found.round + 1
    PROVE  Stands(m, next)
  <1>1. CASE m = NoMatch
    BY <1>1 DEF Stands
  <1>2. ASSUME NEW case \in {None} \cup (Nat \X Nat), NEW polarity \in Polarities,
               NEW belief \in {None} \cup Int, NEW rate \in Nat,
               m = [case |-> case, polarity |-> polarity,
                    delta |-> [belief |-> belief, polarity |-> polarity, rate |-> rate]],
               case # None => /\ case[1] <= found.round
                              /\ case \in {found.round} \X (DOMAIN found.rates) =>
                                   rate = found.rates[case[2]]
        PROVE  Stands(m, next)
    <2>1. case # None => /\ case[1] <= next.round
                         /\ case \in {next.round} \X (DOMAIN next.rates) => rate = next.rates[case[2]]
      <3>1. CASE next = found
        BY <1>2, <3>1
      <3>2. CASE next.round = found.round /\ next.rates = <<>>
        BY <1>2, <3>2
      <3>3. CASE next.round = found.round + 1
        <4>1. SUFFICES ASSUME case # None
                       PROVE  case[1] <= next.round /\ case \notin {next.round} \X (DOMAIN next.rates)
          OBVIOUS
        <4>2. case \in Nat \X Nat /\ case[1] \in Nat /\ case[1] <= found.round /\ found.round \in Nat
          BY <1>2, <4>1 DEF Found
        <4>3. case[1] <= next.round /\ case[1] # next.round
          BY <3>3, <4>2
        <4>4. QED
          BY <4>3
      <3>4. QED
        BY <3>1, <3>2, <3>3
    <2>2. QED
      BY <1>2, <2>1 DEF Stands
  <1>3. QED
    BY <1>1, <1>2 DEF Stands

\* A match whose case was deleted stands.
LEMMA WithoutStands ==
    ASSUME NEW m, NEW found, Stands(m, found)
    PROVE  /\ Stands([m EXCEPT !.case = None], found)
           /\ [m EXCEPT !.case = None].case = None
           /\ m = [case |-> m.case, polarity |-> m.polarity, delta |-> m.delta]
  <1>1. CASE m = NoMatch
    <2>1. [m EXCEPT !.case = None] = NoMatch
      BY <1>1 DEF NoMatch
    <2>2. QED
      BY <1>1, <2>1 DEF Stands, NoMatch
  <1>2. ASSUME NEW case \in {None} \cup (Nat \X Nat), NEW polarity \in Polarities,
               NEW belief \in {None} \cup Int, NEW rate \in Nat,
               m = [case |-> case, polarity |-> polarity,
                    delta |-> [belief |-> belief, polarity |-> polarity, rate |-> rate]]
        PROVE  /\ Stands([m EXCEPT !.case = None], found)
               /\ [m EXCEPT !.case = None].case = None
               /\ m = [case |-> m.case, polarity |-> m.polarity, delta |-> m.delta]
    <2>1. [m EXCEPT !.case = None] =
             [case |-> None, polarity |-> polarity,
              delta |-> [belief |-> belief, polarity |-> polarity, rate |-> rate]]
      BY <1>2
    <2>2. Stands([case |-> None, polarity |-> polarity,
                  delta |-> [belief |-> belief, polarity |-> polarity, rate |-> rate]], found)
      BY DEF Stands
    <2>3. QED
      BY <1>2, <2>1, <2>2
  <1>3. QED
    BY <1>1, <1>2 DEF Stands

\* A match keeps its columns.
LEMMA StandsColumns ==
    ASSUME NEW m, NEW found, Stands(m, found)
    PROVE  DOMAIN m = {"case", "polarity", "delta"} /\ m.case \in {None} \cup (Nat \X Nat)
  BY DEF Stands, NoMatch

\* A step that is no generation, and no request about cases, keeps what theories
\* were matched with.
LEMMA MatchesKept ==
    ASSUME Shapes, Steps, ~OutsideRequests, ~\E s \in Sessions : Generate(s),
           NEW t \in DOMAIN theories
    PROVE  theories'[t].match = theories[t].match
  <1>0. \A u \in DOMAIN theories : "match" \in DOMAIN theories[u] /\ "match" \notin {"stale", "load", "contested"}
    BY DEF Shapes, TheoryColumns
  <1>1. ASSUME NEW u, NEW flag, theories' = [theories EXCEPT ![u].stale = flag]
        PROVE  theories'[t].match = theories[t].match
    BY <1>0, <1>1
  <1>2. ASSUME NEW row, NEW seen, NEW load, "match" \in DOMAIN row
        PROVE  Rescored(row, seen, load).match = row.match
    BY <1>2 DEF Rescored
  <1>3. ASSUME NEW u, NEW seen, NEW load, theories' = [theories EXCEPT ![u] = Rescored(@, seen, load)]
        PROVE  theories'[t].match = theories[t].match
    BY <1>0, <1>2, <1>3
  <1>4. ASSUME NEW s \in Sessions, Aside(s) PROVE UNCHANGED theories
    BY <1>4 DEF Aside, AskGenerate, AskChallenge, AskTripwires, AskDebates, AskRecommendation,
         Recommend, ProposeHypotheses, Fail, AskReactions, AskHypotheses
  <1>5. ASSUME NEW s \in Sessions, Challenge(s) PROVE theories'[t].match = theories[t].match
    <2>1. PICK raised : theories' = [u \in DOMAIN theories |->
                  IF u \in {v \in DOMAIN raised : raised[v] # None}
                    THEN Rescored(theories[u], work[s].seen[u],
                           ObjectionLoad({Objection(u, i, raised[u][i]) : i \in DOMAIN raised[u]}, u))
                    ELSE theories[u]]
      BY <1>5 DEF Challenge
    <2>2. QED
      BY <1>0, <1>2, <2>1
  <1>6. ASSUME NEW s \in Sessions, Execute(s) PROVE theories'[t].match = theories[t].match
    <2>1. UNCHANGED theories \/ \E load : theories' = [theories EXCEPT ![work[s].of[1]] =
                                  Rescored(@, work[s].seen[work[s].of[1]], load)]
      BY <1>6 DEF Execute
    <2>2. QED
      BY <1>3, <2>1
  <1>7. ASSUME NEW s \in Sessions, Writes(s), ~Generate(s)
        PROVE  Challenge(s) \/ Execute(s) \/ UNCHANGED theories
    BY <1>7 DEF Writes, GenerateTripwires, RunDebates
  <1>8. ASSUME MarkStale PROVE theories'[t].match = theories[t].match
    <2>1. theories' = [u \in DOMAIN theories |-> [theories[u] EXCEPT !.stale = @ \/ theories[u].current]]
      BY <1>8 DEF MarkStale
    <2>2. QED
      BY <1>0, <2>1
  <1>9. ASSUME NEW w \in tripwires, Observes(w) PROVE theories'[t].match = theories[t].match
    <2>1. PICK observed, given, event : Observe(w, observed, given, event)
      BY <1>9 DEF Observes
    <2>2. \E flag : theories' = [theories EXCEPT ![w.theory].stale = flag]
      BY <2>1 DEF Observe
    <2>3. QED
      BY <1>1, <2>2
  <1>10. ASSUME NEW h \in hypotheses, Links(h) PROVE theories'[t].match = theories[t].match
    <2>1. PICK given, event, result : RecordLink(h, result, given, event)
      BY <1>10 DEF Links
    <2>2. UNCHANGED theories \/ \E u \in Current : theories' = [theories EXCEPT ![u].stale = TRUE]
      BY <2>1 DEF RecordLink
    <2>3. QED
      BY <1>1, <2>2
  <1>11. ASSUME NEW o \in objections, Dismiss(o) PROVE theories'[t].match = theories[t].match
    <2>1. theories' = [theories EXCEPT ![o.theory] =
                         Rescored(@, theories[o.theory], ObjectionLoad(objections', o.theory))]
      BY <1>11 DEF Dismiss
    <2>2. QED
      BY <1>3, <2>1
  <1>12. ASSUME NEW w, NEW level, SetDecisiveness(w, level) PROVE UNCHANGED theories
    BY <1>12 DEF SetDecisiveness
  <1>13. ASSUME NEW u, NEW kind, Design(u, kind) PROVE UNCHANGED theories
    BY <1>13 DEF Design
  <1>14. ASSUME NEW d, Promote(d) PROVE UNCHANGED theories
    BY <1>14 DEF Promote
  <1>15. ASSUME NEW e, Records(e) PROVE UNCHANGED theories
    BY <1>15 DEF Records, RecordField
  <1>16. ASSUME Believes PROVE UNCHANGED theories
    BY <1>16 DEF Believes, StatePrior, SetLinkDecisiveness
  <1>17. CASE \E s \in Sessions : Aside(s) \/ Writes(s)
    BY <1>4, <1>5, <1>6, <1>7, <1>17
  <1>18. CASE \E w \in tripwires : Observes(w) \/ \E level \in Levels : SetDecisiveness(w, level)
    BY <1>9, <1>12, <1>18
  <1>19. CASE \E u \in Current, kind \in {"synthetic", "field"} : Design(u, kind)
    BY <1>13, <1>19
  <1>20. CASE \E o \in objections : Dismiss(o)
    BY <1>11, <1>20
  <1>21. CASE (\E d \in DOMAIN debates : Promote(d)) \/ (\E e \in DOMAIN experiments : Records(e)) \/ Believes
    BY <1>14, <1>15, <1>16, <1>21
  <1>22. QED
    BY <1>8, <1>10, <1>17, <1>18, <1>19, <1>20, <1>21 DEF Steps

\* A generation takes a match over as it was read, if its case is on record still.
LEMMA MatchesTakenOver ==
    ASSUME Shapes, Holding, NEW s \in Sessions, Generate(s),
           ToSet(work[s].of) \subseteq DOMAIN work[s].on
    PROVE  /\ DOMAIN theories \subseteq DOMAIN theories'
           /\ \A t \in DOMAIN theories : theories'[t].match = theories[t].match
           /\ \A t \in DOMAIN theories' \ DOMAIN theories :
                /\ \/ theories'[t].match = NoMatch
                   \/ \E u \in DOMAIN work[s].on : theories'[t].match = work[s].on[u]
                /\ OnRecord(theories'[t].match.case)
  <1>1. PICK n \in Nat : n = Len(theories) /\ theories = [t \in 1..n |-> theories[t]] /\ DOMAIN theories = 1..n
    BY ListLength DEF Shapes
  <1>2. PICK k \in Nat : work[s].of \in [1..k -> DOMAIN theories]
    BY DEF Generate, Answered, Holding, Held, Reading
  <1>2a. PICK answer \in Answers :
          /\ \A i \in DOMAIN answer :
                OnRecord((IF Matches(answer, work[s].of)[i] = None THEN NoMatch
                          ELSE work[s].on[Matches(answer, work[s].of)[i]]).case)
          /\ theories' =
                  [t \in DOMAIN theories |->
                     IF t \in ToSet(work[s].of) THEN Retired(Matches(answer, work[s].of), t) ELSE theories[t]]
                  \o [i \in DOMAIN answer |->
                        [Persisted(answer[i], KeyOf(Matches(answer, work[s].of), i),
                                   VersionOf(Matches(answer, work[s].of), i))
                           EXCEPT !.match =
                              IF Matches(answer, work[s].of)[i] = None THEN NoMatch
                              ELSE work[s].on[Matches(answer, work[s].of)[i]]]]
    BY DEF Generate
  <1>2b. PICK match : match = Matches(answer, work[s].of)
    OBVIOUS
  <1>3. /\ \A i \in DOMAIN answer : OnRecord((IF match[i] = None THEN NoMatch ELSE work[s].on[match[i]]).case)
        /\ theories' =
                  [t \in DOMAIN theories |->
                     IF t \in ToSet(work[s].of) THEN Retired(match, t) ELSE theories[t]]
                  \o [i \in DOMAIN answer |->
                        [Persisted(answer[i], KeyOf(match, i), VersionOf(match, i))
                           EXCEPT !.match = IF match[i] = None THEN NoMatch ELSE work[s].on[match[i]]]]
    BY <1>2a, <1>2b
  <1>4. PICK m : m = Len(answer) /\ m \in Nat /\ DOMAIN answer = 1..m
    BY TheoriesAssumption
  <1>5. match \in [1..m -> ToSet(work[s].of) \cup {None}]
    BY <1>2, <1>2b, <1>4, MatchesExist
  <1> DEFINE old == [t \in 1..n |-> IF t \in ToSet(work[s].of) THEN Retired(match, t) ELSE theories[t]]
             taken(i) == IF match[i] = None THEN NoMatch ELSE work[s].on[match[i]]
             new == [i \in 1..m |-> [Persisted(answer[i], KeyOf(match, i), VersionOf(match, i))
                                       EXCEPT !.match = taken(i)]]
  <1>6. theories' = old \o new
    BY <1>1, <1>3, <1>4
  <1>7. old = [t \in 1..n |-> old[t]] /\ new = [i \in 1..m |-> new[i]]
    OBVIOUS
  <1>8. \A t \in 1..n : old[t].match = theories[t].match
    BY <1>1 DEF Retired, Shapes, TheoryColumns
  <1>9. \A i \in 1..m : new[i].match = taken(i)
    BY DEF Persisted
  <1>10. \A i \in 1..m : OnRecord(taken(i).case) /\
           (taken(i) = NoMatch \/ \E u \in DOMAIN work[s].on : taken(i) = work[s].on[u])
    BY <1>3, <1>4, <1>5
  <1> HIDE DEF old, new, taken
  <1>11. /\ theories' = [t \in 1..(n + m) |-> theories'[t]]
         /\ \A t \in 1..n : theories'[t] = old[t]
         /\ \A i \in 1..m : theories'[n + i] = new[i]
    BY <1>1, <1>4, <1>6, <1>7, Joined
  <1>12. DOMAIN theories' = 1..(n + m)
    BY <1>11
  <1>13. ASSUME NEW t \in DOMAIN theories' \ DOMAIN theories
         PROVE  /\ \/ theories'[t].match = NoMatch
                   \/ \E u \in DOMAIN work[s].on : theories'[t].match = work[s].on[u]
                /\ OnRecord(theories'[t].match.case)
    <2>1. t - n \in 1..m /\ t = n + (t - n)
      BY <1>1, <1>4, <1>12
    <2>2. theories'[t].match = taken(t - n)
      BY <1>9, <1>11, <2>1
    <2>3. QED
      BY <1>10, <2>1, <2>2
  <1>14. DOMAIN theories \subseteq DOMAIN theories'
    BY <1>1, <1>4, <1>12
  <1>15. \A t \in DOMAIN theories : theories'[t].match = theories[t].match
    BY <1>1, <1>8, <1>11
  <1>16. QED
    BY <1>13, <1>14, <1>15

\* What a session read stays as it stood.
LEMMA ReadKept ==
    ASSUME Shapes, Holding, Steps, Remembered, cases' \in Found,
           \/ cases' = cases
           \/ cases'.round = cases.round /\ cases'.rates = <<>>
           \/ cases'.round = cases.round + 1,
           NEW s \in Sessions
    PROVE  ReadMatches(work[s])'
  <1>1. WorkEffect
    BY WorkEffects DEF Holding
  <1>2. PICK next \in Found : next = cases'
    OBVIOUS
  <1>3. ASSUME NEW m, Stands(m, cases) PROVE Stands(m, next)
    <2>1. PICK found \in Found : found = cases
      BY DEF Remembered
    <2>2. QED
      BY <1>2, <1>3, <2>1, StandsStill
  <1>4. SUFFICES ASSUME NEW h, h = work'[s], h.op = "generate"
                 PROVE  ToSet(h.of) \subseteq DOMAIN h.on /\ \A t \in DOMAIN h.on : Stands(h.on[t], next)
    BY <1>2 DEF ReadMatches
  <1>5. CASE h = work[s]
    BY <1>3, <1>4, <1>5 DEF Remembered, ReadMatches
  <1>6. CASE h = Idle
    BY <1>4, <1>6 DEF Idle
  <1>7. CASE Asked(h)
    <2>1. h.of \in SetToSeqs(Current) /\ h.on = [t \in Current |-> theories[t].match]
      BY <1>4, <1>7 DEF Asked
    <2>2. PICK current : current = Current
      OBVIOUS
    <2>3. ToSet(h.of) = current
      BY <2>1, <2>2, FiniteCurrent, OrderIsWhole
    <2>4. \A t \in Current : Stands(theories[t].match, cases)
      BY DEF Remembered, RowsStand, Current
    <2>5. QED
      BY <1>3, <2>1, <2>2, <2>3, <2>4
  <1>8. QED
    BY <1>1, <1>4, <1>5, <1>6, <1>7 DEF WorkEffect

\* A request about cases goes on with what it read, as long as rows and cases stay.
LEMMA RecalledKept ==
    ASSUME Recalled, recall' = recall, cases' = cases,
           DOMAIN theories \subseteq DOMAIN theories',
           \A t \in DOMAIN theories : theories'[t].match = theories[t].match
    PROVE  Recalled'
  BY DEF Recalled

\* What a request reads of the cases to match.
LEMMA MatchingFacts ==
    ASSUME Shapes, NEW found, NEW rows, Matching(found, rows).op = "match"
    PROVE  /\ Matching(found, rows).on = found
           /\ ToSet(Matching(found, rows).of) \subseteq Current
           /\ Matching(found, rows).seen = [t \in Current |-> rows[t].match]
  <1>1. ~(found.rates = <<>> \/ Current = {})
    BY DEF Matching, Idle
  <1>2. PICK list : list = SetToSeq(Current)
    OBVIOUS
  <1>3. Matching(found, rows) = [op |-> "match", of |-> list, on |-> found,
                                 seen |-> [t \in Current |-> rows[t].match]]
    BY <1>1, <1>2 DEF Matching
  <1>4. ToSet(list) \subseteq Current
    <2>1. list \in [1..Cardinality(Current) -> Current]
      BY <1>2, FiniteCurrent, SetToSeqFacts
    <2>2. QED
      BY <2>1 DEF ToSet
  <1>5. QED
    BY <1>3, <1>4

\* Whatever is not about cases leaves them, and what was matched with them.
LEMMA RememberedElsewhere ==
    ASSUME Shapes, Holding, Steps, ~OutsideRequests, UNCHANGED outside, Remembered
    PROVE  Remembered'
  <1>1. cases' = cases /\ recall' = recall /\ cases \in Found
    BY DEF outside, Remembered
  <1>2. \A s \in Sessions : ReadMatches(work[s])'
    BY <1>1, ReadKept
  <1>3. ASSUME NEW s \in Sessions, Generate(s) PROVE RowsStand' /\ (recall.op = "match" => Recalled')
    <2>1. work[s].op = "generate" /\ ReadMatches(work[s])
      BY <1>3 DEF Generate, Answered, Remembered
    <2>2. /\ DOMAIN theories \subseteq DOMAIN theories'
          /\ \A t \in DOMAIN theories : theories'[t].match = theories[t].match
          /\ \A t \in DOMAIN theories' \ DOMAIN theories :
                /\ \/ theories'[t].match = NoMatch
                   \/ \E u \in DOMAIN work[s].on : theories'[t].match = work[s].on[u]
                /\ OnRecord(theories'[t].match.case)
      BY <1>3, <2>1, MatchesTakenOver DEF ReadMatches
    <2>3. Stands(NoMatch, cases)
      BY DEF Stands
    <2>4. \A t \in DOMAIN theories' : Stands(theories'[t].match, cases) /\ OnRecord(theories'[t].match.case)
      BY <2>1, <2>2, <2>3 DEF Remembered, RowsStand, ReadMatches
    <2>5. RowsStand'
      BY <1>1, <2>4 DEF RowsStand, OnRecord
    <2>6. QED
      BY <1>1, <2>2, <2>5, RecalledKept DEF Remembered
  <1>4. ASSUME ~\E s \in Sessions : Generate(s) PROVE RowsStand' /\ (recall.op = "match" => Recalled')
    <2>1. DOMAIN theories' = DOMAIN theories
      BY <1>4, TheoryEffects DEF SameRows
    <2>2. \A t \in DOMAIN theories : theories'[t].match = theories[t].match
      BY <1>4, MatchesKept
    <2>3. RowsStand'
      BY <1>1, <2>1, <2>2 DEF Remembered, RowsStand, OnRecord
    <2>4. QED
      BY <1>1, <2>1, <2>2, <2>3, RecalledKept DEF Remembered
  <1>5. QED
    BY <1>1, <1>2, <1>3, <1>4 DEF Remembered

\* What a theory is matched with stands, cleared or not.
LEMMA MatchOfStands ==
    ASSUME BeliefRows, cases \in Found, recall.on \in Found, recall.on.round = cases.round,
           cases.rates \in {recall.on.rates, <<>>},
           NEW t, NEW chosen \in {None} \cup ((DOMAIN recall.on.rates) \X Polarities)
    PROVE  Stands(MatchOf(t, chosen), cases)
  <1>1. CASE chosen = None
    BY <1>1 DEF MatchOf, Stands
  <1>2. CASE chosen # None
    <2>1. PICK rates, round, belief : /\ rates = recall.on.rates /\ round = cases.round
                                      /\ belief = Replay(beliefs, theories[t].key)
      OBVIOUS
    <2>2. /\ rates \in Seq(Nat) /\ round \in Nat /\ belief \in {None} \cup Int
          /\ recall.on.round = round /\ cases.rates \in {rates, <<>>}
      BY <2>1, ReplayIsNumber DEF Found
    <2>3. PICK i \in DOMAIN rates, polarity \in Polarities : chosen = <<i, polarity>>
      BY <1>2, <2>1
    <2>4. i \in Nat /\ rates[i] \in Nat
      BY <2>2, <2>3
    <2>5. PICK rate \in Nat : rate = rates[i]
      BY <2>4
    <2>6. MatchOf(t, chosen) =
            [case |-> <<round, i>>, polarity |-> polarity,
             delta |-> [belief |-> belief, polarity |-> polarity, rate |-> rate]]
      BY <1>2, <2>1, <2>2, <2>3, <2>5 DEF MatchOf, Comparison
    <2>7. PICK case \in Nat \X Nat : case = <<round, i>>
      BY <2>2, <2>4
    <2>8. case[1] <= cases.round
      BY <2>1, <2>2, <2>7
    <2>9. case \in {cases.round} \X (DOMAIN cases.rates) => rate = cases.rates[case[2]]
      <3>1. CASE cases.rates = rates
        BY <2>5, <2>7, <3>1
      <3>2. CASE cases.rates = <<>>
        BY <3>2
      <3>3. QED
        BY <2>2, <3>1, <3>2
    <2>10. QED
      BY <2>2, <2>6, <2>7, <2>8, <2>9 DEF Stands
  <1>3. QED
    BY <1>1, <1>2

\* Column by column the new match is written, but for a case that was deleted.
LEMMA WrittenStands ==
    ASSUME NEW found, NEW seen, NEW new, NEW row,
           Stands(seen, found), Stands(new, found),
           \/ row = seen
           \/ row = [seen EXCEPT !.case = None] /\ new.case \in {None, seen.case}
    PROVE  \/ row = seen /\ WrittenMatch(row, seen, new) = new
           \/ WrittenMatch(row, seen, new) = [new EXCEPT !.case = None]
  <1>1. /\ DOMAIN seen = {"case", "polarity", "delta"} /\ DOMAIN new = {"case", "polarity", "delta"}
        /\ seen = [case |-> seen.case, polarity |-> seen.polarity, delta |-> seen.delta]
        /\ new = [case |-> new.case, polarity |-> new.polarity, delta |-> new.delta]
    BY StandsColumns, WithoutStands
  <1>2. PICK written : written = WrittenMatch(row, seen, new)
    OBVIOUS
  <1>3. DOMAIN row = {"case", "polarity", "delta"}
    BY <1>1
  <1>4. written = [column \in {"case", "polarity", "delta"} |->
                     IF new[column] = seen[column] THEN row[column] ELSE new[column]]
    BY <1>2, <1>3 DEF WrittenMatch, Written
  <1>5. written = [case |-> written.case, polarity |-> written.polarity, delta |-> written.delta]
    BY <1>4
  <1>6. CASE row = seen
    <2>1. written.case = new.case /\ written.polarity = new.polarity /\ written.delta = new.delta
      BY <1>4, <1>6
    <2>2. QED
      BY <1>1, <1>2, <1>5, <1>6, <2>1
  <1>7. CASE row = [seen EXCEPT !.case = None] /\ new.case \in {None, seen.case}
    <2>1. row.case = None /\ row.polarity = seen.polarity /\ row.delta = seen.delta
      BY <1>1, <1>7
    <2>2. written.case = None /\ written.polarity = new.polarity /\ written.delta = new.delta
      BY <1>4, <1>7, <2>1
    <2>3. [new EXCEPT !.case = None] = [case |-> None, polarity |-> new.polarity, delta |-> new.delta]
      BY <1>1
    <2>4. QED
      BY <1>2, <1>5, <2>2, <2>3
  <1>8. QED
    BY <1>6, <1>7

\* Theories without cases stand, whatever becomes of the cases.
LEMMA ClearedStands ==
    ASSUME Shapes, Remembered, cases' \in Found, theories' = WithoutCases,
           \/ cases'.round = cases.round /\ cases'.rates = <<>>
           \/ cases'.round = cases.round + 1
    PROVE  /\ RowsStand' /\ DOMAIN theories' = DOMAIN theories
           /\ \A t \in DOMAIN theories : theories'[t].match = [theories[t].match EXCEPT !.case = None]
  <1>1. /\ DOMAIN theories' = DOMAIN theories
        /\ \A t \in DOMAIN theories : theories'[t].match = [theories[t].match EXCEPT !.case = None]
    BY DEF WithoutCases, Shapes, TheoryColumns
  <1>2. PICK found \in Found, next \in Found : found = cases /\ next = cases'
    BY DEF Remembered
  <1>3. ASSUME NEW t \in DOMAIN theories
        PROVE  Stands(theories'[t].match, next) /\ theories'[t].match.case = None
    <2>1. PICK m, cleared : m = theories[t].match /\ cleared = [m EXCEPT !.case = None]
      OBVIOUS
    <2>2. Stands(m, found)
      BY <1>2, <2>1 DEF Remembered, RowsStand
    <2>3. Stands(cleared, found) /\ cleared.case = None
      BY <2>1, <2>2, WithoutStands
    <2>4. Stands(cleared, next)
      BY <1>2, <2>3, StandsStill
    <2>5. QED
      BY <1>1, <2>1, <2>3, <2>4
  <1>4. QED
    BY <1>1, <1>2, <1>3 DEF RowsStand, OnRecord

\* A matching that was asked for is written over what was read.
LEMMA MatchedStands ==
    ASSUME Shapes, BeliefRows, Remembered, MatchCases
    PROVE  RowsStand'
  <1>1. PICK matched \in [ToSet(recall.of) -> {None} \cup ((DOMAIN recall.on.rates) \X Polarities)] :
          /\ \A t \in DOMAIN matched :
               \/ MatchOf(t, matched[t]).case = recall.seen[t].case
               \/ OnRecord(MatchOf(t, matched[t]).case)
          /\ theories' = [t \in DOMAIN theories |->
               IF t \in DOMAIN matched
                 THEN [theories[t] EXCEPT !.match = WrittenMatch(@, recall.seen[t], MatchOf(t, matched[t]))]
                 ELSE theories[t]]
    BY DEF MatchCases
  <1>2. Recalled /\ cases' = cases /\ cases \in Found
    BY DEF MatchCases, Remembered
  <1>3. cases.rates \in {recall.on.rates, <<>>}
    BY <1>2 DEF Recalled
  <1>4. DOMAIN theories' = DOMAIN theories
    BY <1>1
  <1>5. ASSUME NEW t \in DOMAIN theories
        PROVE  Stands(theories'[t].match, cases) /\ OnRecord(theories'[t].match.case)
    <2>1. Stands(theories[t].match, cases) /\ OnRecord(theories[t].match.case)
      BY DEF Remembered, RowsStand
    <2>2. CASE t \notin DOMAIN matched
      BY <1>1, <2>1, <2>2
    <2>3. CASE t \in DOMAIN matched
      <3>1. t \in DOMAIN recall.seen /\ matched[t] \in {None} \cup ((DOMAIN recall.on.rates) \X Polarities)
        BY <1>1, <1>2, <2>3 DEF Recalled
      <3>2. PICK row, seen, new : /\ row = theories[t].match /\ seen = recall.seen[t]
                                  /\ new = MatchOf(t, matched[t])
        OBVIOUS
      <3>3. Stands(seen, cases) /\ Stands(new, cases)
        BY <1>2, <1>3, <3>1, <3>2, MatchOfStands DEF Recalled
      <3>4. new.case = seen.case \/ OnRecord(new.case)
        BY <1>1, <2>3, <3>2
      <3>5. theories'[t].match = WrittenMatch(row, seen, new)
        BY <1>1, <2>3, <3>2 DEF Shapes, TheoryColumns
      <3>6. CASE row = seen
        <4>1. \/ WrittenMatch(row, seen, new) = new
              \/ WrittenMatch(row, seen, new) = [new EXCEPT !.case = None]
          BY <3>3, <3>6, WrittenStands
        <4>2. OnRecord(new.case)
          BY <2>1, <3>2, <3>4, <3>6
        <4>3. Stands([new EXCEPT !.case = None], cases) /\ OnRecord([new EXCEPT !.case = None].case)
          BY <3>3, WithoutStands DEF OnRecord
        <4>4. QED
          BY <3>3, <3>5, <4>1, <4>2, <4>3
      <3>7. CASE cases.rates = <<>> /\ row = [seen EXCEPT !.case = None]
        <4>1. new.case \in {None, seen.case}
          BY <3>4, <3>7 DEF OnRecord
        <4>2. \/ row = seen /\ WrittenMatch(row, seen, new) = new
              \/ WrittenMatch(row, seen, new) = [new EXCEPT !.case = None]
          BY <3>3, <3>7, <4>1, WrittenStands
        <4>3. Stands([new EXCEPT !.case = None], cases) /\ OnRecord([new EXCEPT !.case = None].case)
          BY <3>3, WithoutStands DEF OnRecord
        <4>4. QED
          BY <3>5, <3>6, <4>2, <4>3
      <3>8. QED
        BY <1>2, <3>1, <3>2, <3>6, <3>7 DEF Recalled
    <2>4. QED
      BY <2>2, <2>3
  <1>6. QED
    BY <1>2, <1>4, <1>5 DEF RowsStand, OnRecord

\* Each request about the cases leaves matches that stand.
LEMMA RememberedOutside ==
    ASSUME Shapes, Holding, BeliefRows, OutsideRequests, Remembered
    PROVE  Remembered'
  <1>1. Steps
    BY DEF Steps
  <1>2. cases \in Found /\ RowsStand /\ (recall.op = "match" => Recalled)
    BY DEF Remembered
  <1>3. ASSUME UNCHANGED <<theories, cases>>
        PROVE  RowsStand' /\ \A s \in Sessions : ReadMatches(work[s])'
    <2>1. cases' \in Found /\ cases' = cases
      BY <1>2, <1>3
    <2>2. QED
      BY <1>1, <1>2, <1>3, <2>1, ReadKept DEF RowsStand, OnRecord
  <1>4. CASE UNCHANGED <<theories, cases>> /\ recall'.op # "match"
    BY <1>2, <1>3, <1>4 DEF Remembered
  <1>5. CASE AskRecollection \/ FailRecollection
    <2>1. UNCHANGED <<theories, cases>> /\ recall'.op # "match"
      BY <1>5 DEF AskRecollection, FailRecollection, Idle
    <2>2. QED
      BY <1>4, <2>1
  <1>6. CASE AskMatching
    <2>1. UNCHANGED <<theories, cases>> /\ recall' = Matching(cases, theories)
      BY <1>6 DEF AskMatching
    <2>2. ASSUME recall'.op = "match" PROVE Recalled'
      <3>1. PICK found, rows, current : found = cases /\ rows = theories /\ current = Current
        OBVIOUS
      <3>2. /\ recall'.on = found /\ ToSet(recall'.of) \subseteq current
            /\ recall'.seen = [t \in current |-> rows[t].match]
        BY <2>1, <2>2, <3>1, MatchingFacts
      <3>3. current \subseteq DOMAIN theories
        BY <3>1 DEF Current
      <3>4. \A t \in current : Stands(rows[t].match, cases)
        BY <1>2, <3>1, <3>3 DEF RowsStand
      <3>5. QED
        BY <1>2, <2>1, <3>1, <3>2, <3>3, <3>4 DEF Recalled
    <2>3. QED
      BY <1>2, <1>3, <2>1, <2>2 DEF Remembered
  <1>7. CASE ClearRecollection
    <2>1. /\ cases' = [cases EXCEPT !.rates = <<>>] /\ theories' = WithoutCases /\ recall' = recall
      BY <1>7 DEF ClearRecollection
    <2>2. cases' \in Found /\ cases'.round = cases.round /\ cases'.rates = <<>>
      <3>1. PICK round \in Nat, rates \in Seq(Nat) : cases = [round |-> round, rates |-> rates]
        BY <1>2 DEF Found
      <3>2. cases' = [round |-> round, rates |-> <<>>] /\ <<>> \in Seq(Nat)
        BY <2>1, <3>1
      <3>3. QED
        BY <3>1, <3>2 DEF Found
    <2>3. /\ RowsStand' /\ DOMAIN theories' = DOMAIN theories
          /\ \A t \in DOMAIN theories : theories'[t].match = [theories[t].match EXCEPT !.case = None]
      BY <2>1, <2>2, ClearedStands
    <2>4. \A s \in Sessions : ReadMatches(work[s])'
      BY <1>1, <2>2, ReadKept
    <2>5. ASSUME recall.op = "match" PROVE Recalled'
      <3>1. Recalled
        BY <1>2, <2>5
      <3>2. ASSUME NEW t \in DOMAIN recall.seen
            PROVE  /\ Stands(recall.seen[t], cases')
                   /\ theories'[t].match = [recall.seen[t] EXCEPT !.case = None]
        <4>0. PICK m : m = recall.seen[t]
          OBVIOUS
        <4>1. PICK found \in Found, next \in Found : found = cases /\ next = cases'
          BY <1>2, <2>2
        <4>2. Stands(m, found)
          BY <3>1, <4>0, <4>1 DEF Recalled
        <4>3. Stands(m, next)
          BY <2>2, <4>1, <4>2, StandsStill
        <4>4. t \in DOMAIN theories /\ theories[t].match \in {m, [m EXCEPT !.case = None]}
          BY <3>1, <4>0 DEF Recalled
        <4>5. [[m EXCEPT !.case = None] EXCEPT !.case = None] = [m EXCEPT !.case = None]
          OBVIOUS
        <4>6. QED
          BY <2>3, <4>0, <4>1, <4>3, <4>4, <4>5
      <3>3. QED
        BY <2>1, <2>2, <2>3, <3>1, <3>2 DEF Recalled
    <2>6. QED
      BY <2>1, <2>2, <2>3, <2>4, <2>5 DEF Remembered
  <1>8. CASE ReadRecollection
    <2>1. PICK rates \in Recollections : cases' = [round |-> cases.round + 1, rates |-> rates]
      BY <1>8 DEF ReadRecollection
    <2>2. theories' = WithoutCases /\ recall' = Matching(cases', theories')
      BY <1>8 DEF ReadRecollection
    <2>3. cases' \in Found /\ cases'.round = cases.round + 1
      BY <1>2, <2>1, CasesAssumption DEF Found
    <2>4. RowsStand' /\ DOMAIN theories' = DOMAIN theories
      BY <2>2, <2>3, ClearedStands
    <2>5. \A s \in Sessions : ReadMatches(work[s])'
      BY <1>1, <2>3, ReadKept
    <2>6. ASSUME recall'.op = "match" PROVE Recalled'
      <3>1. PICK found, rows, current : found = cases' /\ rows = theories' /\ current = Current
        OBVIOUS
      <3>2. /\ recall'.on = found /\ ToSet(recall'.of) \subseteq current
            /\ recall'.seen = [t \in current |-> rows[t].match]
        BY <2>2, <2>6, <3>1, MatchingFacts
      <3>3. current \subseteq DOMAIN theories'
        BY <2>4, <3>1 DEF Current
      <3>4. \A t \in current : Stands(rows[t].match, found)
        BY <2>4, <3>1, <3>3 DEF RowsStand
      <3>5. QED
        BY <2>3, <3>1, <3>2, <3>3, <3>4 DEF Recalled
    <2>7. QED
      BY <2>3, <2>4, <2>5, <2>6 DEF Remembered
  <1>9. CASE MatchCases
    <2>1. cases' = cases /\ recall' = Idle
      BY <1>9 DEF MatchCases
    <2>2. recall'.op # "match" /\ cases' \in Found
      BY <1>2, <2>1 DEF Idle
    <2>3. \A s \in Sessions : ReadMatches(work[s])'
      BY <1>1, <2>1, <2>2, ReadKept
    <2>4. QED
      BY <1>9, <2>2, <2>3, MatchedStands DEF Remembered
  <1>10. QED
    BY <1>5, <1>6, <1>7, <1>8, <1>9 DEF OutsideRequests

LEMMA RememberedHolds ==
    Spec => []Remembered
  <1>1. Init => Remembered
    <2>1. SUFFICES ASSUME Init PROVE Remembered
      OBVIOUS
    <2>2. theories = <<>> /\ cases = [round |-> 0, rates |-> <<>>] /\ recall = Idle
          /\ work = [s \in Sessions |-> Idle]
      BY <2>1 DEF Init
    <2>3. cases \in Found
      BY <2>2 DEF Found
    <2>4. RowsStand
      BY <2>2 DEF RowsStand
    <2>5. \A s \in Sessions : ReadMatches(work[s])
      BY <2>2 DEF ReadMatches, Idle
    <2>6. recall.op # "match"
      BY <2>2 DEF Idle
    <2>7. QED
      BY <2>3, <2>4, <2>5, <2>6 DEF Remembered
  <1>2. Grounds /\ Ledger /\ Remembered /\ [Next]_vars => Remembered'
    <2>1. SUFFICES ASSUME Grounds, Ledger, Remembered, [Next]_vars PROVE Remembered'
      OBVIOUS
    <2>2. CASE Next
      <3>1. Shapes /\ Holding /\ Steps /\ BeliefRows
        BY <2>1, <2>2, EveryStep DEF Grounds, Ledger
      <3>2. OutsideRequests \/ UNCHANGED outside
        BY <2>2 DEF Next
      <3>3. QED
        BY <2>1, <3>1, <3>2, RememberedOutside, RememberedElsewhere
    <2>3. CASE UNCHANGED vars
      BY <2>1, <2>3 DEF Remembered, RowsStand, ReadMatches, Recalled, OnRecord, vars
    <2>4. QED
      BY <2>1, <2>2, <2>3
  <1>3. QED
    BY <1>1, <1>2, GroundsHold, LedgerHolds, PTL DEF Spec

\* What is matched stands as it is shown.
LEMMA RememberedIsShown ==
    ASSUME Remembered
    PROVE  ComparisonsStand
  <1>1. SUFFICES ASSUME NEW t \in DOMAIN theories, NEW m, m = theories[t].match
                 PROVE  /\ m # NoMatch => m.polarity # None /\ m.delta # None
                        /\ m.case # None => /\ OnRecord(m.case)
                                            /\ CurrentComparison(t).rate = m.delta.rate
                                            /\ CurrentComparison(t).polarity = m.delta.polarity
    BY DEF ComparisonsStand
  <1>2. Stands(m, cases) /\ OnRecord(m.case)
    BY <1>1 DEF Remembered, RowsStand
  <1>3. CASE m = NoMatch
    BY <1>3 DEF NoMatch
  <1>4. ASSUME NEW case \in {None} \cup (Nat \X Nat), NEW polarity \in Polarities,
               NEW belief \in {None} \cup Int, NEW rate \in Nat,
               m = [case |-> case, polarity |-> polarity,
                    delta |-> [belief |-> belief, polarity |-> polarity, rate |-> rate]],
               case # None => /\ case[1] <= cases.round
                              /\ case \in {cases.round} \X (DOMAIN cases.rates) =>
                                   rate = cases.rates[case[2]]
        PROVE  /\ m.polarity # None /\ m.delta # None
               /\ m.case # None => /\ CurrentComparison(t).rate = m.delta.rate
                                   /\ CurrentComparison(t).polarity = m.delta.polarity
    <2>1. m.polarity # None
      BY <1>4, CasesAssumption
    <2>2. m.delta # None
      <3>1. m.delta \in [belief : Int \cup {None}, polarity : Polarities, rate : Nat]
        BY <1>4
      <3>2. QED
        BY <3>1, CasesAssumption
    <2>3. ASSUME m.case # None
          PROVE  /\ CurrentComparison(t).rate = m.delta.rate
                 /\ CurrentComparison(t).polarity = m.delta.polarity
      <3>1. case # None /\ case \in {cases.round} \X (DOMAIN cases.rates)
        BY <1>2, <1>4, <2>3 DEF OnRecord
      <3>2. rate = cases.rates[case[2]]
        BY <1>4, <3>1
      <3>3. CurrentComparison(t) = Comparison(t, polarity, rate)
        BY <1>1, <1>4, <3>1, <3>2 DEF CurrentComparison
      <3>4. QED
        BY <1>4, <3>3 DEF Comparison
    <2>4. QED
      BY <2>1, <2>2, <2>3
  <1>5. QED
    BY <1>2, <1>3, <1>4 DEF Stands, NoMatch

\* What is shown of a theory is what was counted: a signal that is listed as having
\* come true is one observation that did weigh as it is listed, the changes in
\* the journal lead from the prior to the conviction that is held, and what a
\* theory is compared with is a case on record at the rate that was recalled.
THEOREM ShownHolds == Spec => []ShownIsCounted
  <1>1. Ledger /\ Remembered => ShownIsCounted
    BY FiredDidWeigh, JournalLeads, RememberedIsShown DEF ShownIsCounted
  <1>2. QED
    BY <1>1, LedgerHolds, RememberedHolds, PTL

-----------------------------------------------------------------------------
(* What every row and every number may be *)

\* A sum over a set of rows, taken off the rest of it one row at a time.
AnyRow(s) == CHOOSE o \in s : TRUE
SumStep(f, s) == IF s = {} THEN 0 ELSE AnyRow(s).severity + f[s \ {AnyRow(s)}]
Sums(rows, f) == f = [s \in SUBSET rows |-> SumStep(f, s)]
SumsUpTo(rows, f, k) ==
    /\ f \in [SUBSET rows -> Nat]
    /\ \A s \in SUBSET rows : Cardinality(s) <= k => f[s] = SumStep(f, s)
Severe(rows) == \A o \in rows : o.severity \in 0..100

\* A row less.
LEMMA RowLess ==
    ASSUME NEW rows, IsFiniteSet(rows), NEW s \in SUBSET rows, s # {}
    PROVE  /\ AnyRow(s) \in s /\ s \ {AnyRow(s)} \in SUBSET rows
           /\ Cardinality(s) \in Nat \ {0}
           /\ Cardinality(s \ {AnyRow(s)}) = Cardinality(s) - 1
  <1>1. AnyRow(s) \in s
    BY DEF AnyRow
  <1>2. IsFiniteSet(s)
    BY FS_Subset
  <1>3. Cardinality(s \ {AnyRow(s)}) = Cardinality(s) - 1
    BY <1>1, <1>2, FS_RemoveElement
  <1>4. Cardinality(s) \in Nat /\ Cardinality(s) # 0
    BY <1>2, FS_CardinalityType, FS_EmptySet
  <1>5. QED
    BY <1>1, <1>3, <1>4

\* The sums over the parts of a finite set of rows exist.
LEMMA SumsExist ==
    ASSUME NEW rows, IsFiniteSet(rows), Severe(rows)
    PROVE  \E f : Sums(rows, f)
  <1>1. PICK n : n = Cardinality(rows)
    OBVIOUS
  <1>2. n \in Nat /\ \A s \in SUBSET rows : Cardinality(s) \in 0..n
    BY <1>1, FS_CardinalityType, FS_Subset
  <1> DEFINE good == {k \in 0..n : \E f : SumsUpTo(rows, f, k)}
  <1>3. 0 \in good
    <2> DEFINE f == [s \in SUBSET rows |-> 0]
    <2>1. ASSUME NEW s \in SUBSET rows, Cardinality(s) <= 0 PROVE f[s] = SumStep(f, s)
      <3>1. s = {}
        <4>1. SUFFICES ASSUME s # {} PROVE FALSE
          OBVIOUS
        <4>2. Cardinality(s) \in Nat \ {0}
          BY <4>1, RowLess
        <4>3. QED
          BY <2>1, <4>2
      <3>2. QED
        BY <3>1 DEF SumStep
    <2>2. SumsUpTo(rows, f, 0)
      BY <2>1 DEF SumsUpTo
    <2>3. QED
      BY <1>2, <2>2
  <1>4. ASSUME NEW k \in good, k # n PROVE k + 1 \in good
    <2>1. PICK f : SumsUpTo(rows, f, k)
      BY <1>4
    <2>2. k \in 0..n /\ k + 1 \in 0..n
      BY <1>2, <1>4
    <2> DEFINE g == [s \in SUBSET rows |-> IF Cardinality(s) = k + 1 THEN SumStep(f, s) ELSE f[s]]
    <2>3. ASSUME NEW s \in SUBSET rows PROVE SumStep(f, s) \in Nat
      <3>1. CASE s = {}
        BY <3>1 DEF SumStep
      <3>2. CASE s # {}
        <4>1. AnyRow(s) \in rows /\ s \ {AnyRow(s)} \in SUBSET rows
          BY <3>2, RowLess
        <4>2. AnyRow(s).severity \in Nat /\ f[s \ {AnyRow(s)}] \in Nat
          BY <2>1, <4>1 DEF Severe, SumsUpTo
        <4>3. QED
          BY <3>2, <4>2 DEF SumStep
      <3>3. QED
        BY <3>1, <3>2
    <2>4. g \in [SUBSET rows -> Nat]
      BY <2>1, <2>3 DEF SumsUpTo
    <2>5. \A s \in SUBSET rows : Cardinality(s) # k + 1 => g[s] = f[s]
      OBVIOUS
    <2>6. \A s \in SUBSET rows : Cardinality(s) = k + 1 => g[s] = SumStep(f, s)
      OBVIOUS
    <2> HIDE DEF g
    <2>7. ASSUME NEW s \in SUBSET rows, Cardinality(s) <= k + 1
          PROVE  g[s] = SumStep(g, s) 
      <3>1. SumStep(g, s) = SumStep(f, s)
        <4>1. CASE s = {}
          BY <4>1 DEF SumStep
        <4>2. CASE s # {}
          <5>1. s \ {AnyRow(s)} \in SUBSET rows /\ Cardinality(s \ {AnyRow(s)}) # k + 1
            BY <2>2, <2>7, <4>2, RowLess
          <5>2. QED
            BY <2>5, <4>2, <5>1 DEF SumStep
        <4>3. QED
          BY <4>1, <4>2
      <3>2. g[s] = SumStep(f, s)
        <4>1. CASE Cardinality(s) = k + 1
          BY <2>6, <4>1
        <4>2. CASE Cardinality(s) # k + 1
          <5>1. Cardinality(s) <= k
            BY <1>2, <2>2, <2>7, <4>2
          <5>2. QED
            BY <2>1, <2>5, <4>2, <5>1 DEF SumsUpTo
        <4>3. QED
          BY <4>1, <4>2
      <3>3. QED
        BY <3>1, <3>2
    <2>8. SumsUpTo(rows, g, k + 1)
      BY <2>4, <2>7 DEF SumsUpTo
    <2>9. QED
      BY <2>2, <2>8
  <1>5. good = 0..n
    <2>1. good \subseteq 0..n
      OBVIOUS
    <2> HIDE DEF good
    <2>2. QED
      BY <1>2, <1>3, <1>4, <2>1, Stepwise
  <1>6. PICK f : SumsUpTo(rows, f, n)
    BY <1>2, <1>5
  <1>7. \A s \in SUBSET rows : f[s] = SumStep(f, s)
    BY <1>2, <1>6 DEF SumsUpTo
  <1>8. f = [s \in SUBSET rows |-> SumStep(f, s)]
    BY <1>6, <1>7 DEF SumsUpTo
  <1>9. QED
    BY <1>8 DEF Sums

\* A sum of severities is at most as many times the worst.
LEMMA SumsBounded ==
    ASSUME NEW rows, IsFiniteSet(rows), Severe(rows), NEW f, Sums(rows, f)
    PROVE  f[rows] \in 0..(100 * Cardinality(rows))
  <1>1. PICK n : n = Cardinality(rows)
    OBVIOUS
  <1>2. n \in Nat /\ \A s \in SUBSET rows : Cardinality(s) \in 0..n
    BY <1>1, FS_CardinalityType, FS_Subset
  <1>3. \A s \in SUBSET rows : f[s] = SumStep(f, s)
    BY DEF Sums
  <1> DEFINE good == {k \in 0..n : \A s \in SUBSET rows : Cardinality(s) = k => f[s] \in 0..(100 * k)}
  <1>4. 0 \in good
    <2>1. ASSUME NEW s \in SUBSET rows, Cardinality(s) = 0 PROVE f[s] = 0
      <3>1. s = {}
        BY <2>1, RowLess
      <3>2. QED
        BY <1>3, <3>1 DEF SumStep
    <2>2. QED
      BY <1>2, <2>1
  <1>5. ASSUME NEW k \in good, k # n PROVE k + 1 \in good
    <2>1. k \in 0..n /\ k + 1 \in 0..n
      BY <1>2, <1>5
    <2>2. ASSUME NEW s \in SUBSET rows, Cardinality(s) = k + 1 PROVE f[s] \in 0..(100 * (k + 1))
      <3>1. s # {}
        <4>1. CASE s = {}
          <5>1. Cardinality(s) = 0
            BY <4>1, FS_EmptySet, Zenon
          <5>2. QED
            BY <2>1, <2>2, <5>1
        <4>2. QED
          BY <4>1
      <3>2. /\ AnyRow(s) \in rows /\ s \ {AnyRow(s)} \in SUBSET rows
            /\ Cardinality(s \ {AnyRow(s)}) = k
        BY <2>1, <2>2, <3>1, RowLess
      <3>3. f[s \ {AnyRow(s)}] \in 0..(100 * k)
        BY <1>5, <3>2
      <3>4. AnyRow(s).severity \in 0..100
        BY <3>2 DEF Severe
      <3>5. f[s] = AnyRow(s).severity + f[s \ {AnyRow(s)}]
        BY <1>3, <3>1 DEF SumStep
      <3>6. QED
        BY <2>1, <3>3, <3>4, <3>5
    <2>3. QED
      BY <2>1, <2>2
  <1>6. good = 0..n
    <2>1. good \subseteq 0..n
      OBVIOUS
    <2> HIDE DEF good
    <2>2. QED
      BY <1>2, <1>4, <1>5, <2>1, Stepwise
  <1>7. QED
    BY <1>1, <1>2, <1>6

\* The fold the load is computed with is that sum.
LEMMA FoldIsSum ==
    ASSUME NEW rows, IsFiniteSet(rows), Severe(rows)
    PROVE  FoldSet(LAMBDA o, sum : o.severity + sum, 0, rows) \in 0..(100 * Cardinality(rows))
  <1>1. PICK f : f = CHOOSE g : Sums(rows, g)
    OBVIOUS
  <1>2. Sums(rows, f)
    BY <1>1, SumsExist
  <1>3. FoldSet(LAMBDA o, sum : o.severity + sum, 0, rows) = f[rows]
    BY <1>1 DEF FoldSet, MapThenFoldSet, Sums, SumStep, AnyRow
  <1>4. QED
    BY <1>2, <1>3, SumsBounded

\* The mean of numbers up to a hundred, in twelfths.
LEMMA Share ==
    ASSUME NEW c \in Nat \ {0}, NEW x \in 0..(100 * c)
    PROVE  (12 * x) \div c \in 0..1200
  <1>1. PICK q : q = (12 * x) \div c
    OBVIOUS
  <1>2. q \in Int /\ c * q <= 12 * x /\ 12 * x < c * (q + 1)
    BY <1>1
  <1>3. 12 * x <= c * 1200 /\ 0 <= 12 * x
    OBVIOUS
  <1>4. c * q <= c * 1200 /\ 0 < c * (q + 1)
    BY <1>2, <1>3
  <1>5. q <= 1200 /\ 0 < q + 1
    BY <1>2, <1>4
  <1>6. QED
    BY <1>1, <1>2, <1>5

Loads == 0..1200

\* What a theory is discounted by is between nothing and everything.
LEMMA LoadBounded ==
    ASSUME NEW rows, IsFiniteSet(rows), Severe(rows), NEW t
    PROVE  ObjectionLoad(rows, t) \in Loads
  <1>1. PICK live : live = {o \in Against(rows, t) : ~o.dismissed}
    OBVIOUS
  <1>2. live \subseteq rows
    BY <1>1 DEF Against
  <1>3. IsFiniteSet(live) /\ Severe(live)
    BY <1>2, FS_Subset DEF Severe
  <1>4. CASE live = {}
    <2>1. MeanSeverity(live) = 0
      BY <1>4, Zenon DEF MeanSeverity
    <2>2. ObjectionLoad(rows, t) = 0
      BY <1>1, <2>1 DEF ObjectionLoad
    <2>3. QED
      BY <2>2 DEF Loads
  <1>5. CASE live # {}
    <2>1. PICK sum : sum = FoldSet(LAMBDA o, total : o.severity + total, 0, live)
      OBVIOUS
    <2>2. PICK c : c = Cardinality(live)
      OBVIOUS
    <2>3. c \in Nat \ {0}
      BY <1>3, <1>5, <2>2, RowLess
    <2>4. sum \in 0..(100 * c)
      BY <1>3, <2>1, <2>2, FoldIsSum
    <2>5. (12 * sum) \div c \in 0..1200
      BY <2>3, <2>4, Share
    <2>6. ObjectionLoad(rows, t) = (12 * sum) \div c
      BY <1>1, <1>5, <2>1, <2>2 DEF ObjectionLoad, MeanSeverity
    <2>7. QED
      BY <2>5, <2>6 DEF Loads
  <1>6. QED
    BY <1>4, <1>5

RowTyped(row, rows) ==
    row.version \in Nat \ {0} /\ row.successor \in {None} \cup rows /\ row.load \in Loads
ObjectionTyped(o, rows) ==
    "severity" \in DOMAIN o /\ o.severity \in 0..100 /\ o.theory \in rows
About(h, rows) == h.op \in {"execute", "hypotheses"} => h.of[1] \in rows
RowsTyped == \A t \in DOMAIN theories : RowTyped(theories[t], DOMAIN theories)
ObjectionsTyped == IsFiniteSet(objections) /\ \A o \in objections : ObjectionTyped(o, DOMAIN theories)
KeysTyped == (\A h \in hypotheses : h.key \in Keys) /\ \A r \in ToSet(beliefs) : r.key \in Keys
Typed ==
    /\ RowsTyped /\ ObjectionsTyped /\ KeysTyped
    /\ \A s \in Sessions : About(work[s], DOMAIN theories)
    /\ recommendation = None \/ recommendation \subseteq DOMAIN theories

\* A load that is written, or was there, is one.
LEMMA RescoredTyped ==
    ASSUME NEW row, TheoryColumns \subseteq DOMAIN row, NEW rows, RowTyped(row, rows),
           NEW seen, NEW load \in Loads
    PROVE  RowTyped(Rescored(row, seen, load), rows)
  <1>1. Written(row.load, seen.load, load) \in Loads
    BY DEF Written, RowTyped
  <1>2. Rescored(row, seen, load).load = Written(row.load, seen.load, load)
    BY DEF Rescored, TheoryColumns
  <1>3. /\ Rescored(row, seen, load).version = row.version
        /\ Rescored(row, seen, load).successor = row.successor
    BY DEF Rescored, TheoryColumns
  <1>4. QED
    BY <1>1, <1>2, <1>3 DEF RowTyped

\* A key that was given stays given.
LEMMA KeysGrow ==
    ASSUME Grounds, Steps
    PROVE  Keys \subseteq Keys'
  <1>1. \A t \in DOMAIN theories : t \in DOMAIN theories' /\ theories'[t].key = theories[t].key
    BY TheoriesGrow, KeysStay DEF Grounds
  <1>2. QED
    BY <1>1 DEF Keys

\* What the sessions hold, of theories on record.
LEMMA AboutStays ==
    ASSUME Grounds, Steps, \A s \in Sessions : About(work[s], DOMAIN theories)
    PROVE  \A s \in Sessions : About(work'[s], DOMAIN theories')
  <1>1. DOMAIN theories \subseteq DOMAIN theories'
    BY TheoriesGrow DEF Grounds
  <1>2. WorkEffect
    BY WorkEffects DEF Grounds, Holding
  <1>3. SUFFICES ASSUME NEW s \in Sessions PROVE About(work'[s], DOMAIN theories')
    OBVIOUS
  <1>4. CASE work'[s] = work[s]
    BY <1>1, <1>4 DEF About
  <1>5. CASE work'[s] = Idle
    BY <1>5 DEF About, Idle
  <1>6. CASE Asked(work'[s])
    <2>1. Current \subseteq DOMAIN theories
      BY DEF Current
    <2>2. \A e \in DOMAIN experiments : experiments[e].theory \in DOMAIN theories
      BY DEF Grounds, Shapes
    <2>3. QED
      BY <1>1, <1>6, <2>1, <2>2 DEF Asked, About
  <1>7. QED
    BY <1>2, <1>4, <1>5, <1>6 DEF WorkEffect, Grounds, Holding

\* A generation numbers the versions on and gives each theory a successor on record.
LEMMA RowsGenerated ==
    ASSUME Grounds, RowsTyped, NEW s \in Sessions, Generate(s)
    PROVE  RowsTyped'
  <1>0. Shapes /\ Holding
    BY DEF Grounds
  <1>1. PICK answer \in Answers :
          Generated(answer, Matches(answer, work[s].of), ToSet(work[s].of), Len(answer))
    BY <1>0, GenerationWrites
  <1>2. PICK match, previous, m :
          match = Matches(answer, work[s].of) /\ previous = ToSet(work[s].of) /\ m = Len(answer)
    OBVIOUS
  <1>3. Generated(answer, match, previous, m)
    BY <1>1, <1>2
  <1>4. m \in Nat /\ DOMAIN answer = 1..m
    BY <1>3 DEF Generated
  <1>5. work[s].op \in Reading
    BY DEF Generate, Answered, Reading
  <1>6. PICK k \in Nat : work[s].of \in [1..k -> DOMAIN theories]
    BY <1>0, <1>5 DEF Holding, Held
  <1>7. match \in [1..m -> previous \cup {None}] /\ previous \subseteq DOMAIN theories
    <2>1. match \in [1..m -> previous \cup {None}]
      BY <1>2, <1>4, <1>6, MatchesExist
    <2>2. QED
      BY <1>0, <1>2, <1>5, <2>1, ReadsFinite
  <1>8. PICK n \in Nat : n = Len(theories) /\ DOMAIN theories = 1..n /\ DOMAIN theories' = 1..(n + m)
    BY <1>0, <1>3, ListLength DEF Shapes, Generated
  <1>9. 1..n \subseteq 1..(n + m) /\ \A i \in 1..m : n + i \in 1..(n + m)
    BY <1>4
  <1>10. \A t \in 1..n : RowTyped(theories[t], 1..n)
    BY <1>8 DEF RowsTyped
  <1>11. ASSUME NEW t \in 1..n PROVE RowTyped(theories'[t], 1..(n + m))
    <2>1. theories'[t] = IF t \in previous THEN Retired(match, t) ELSE theories[t]
      BY <1>3, <1>8 DEF Generated
    <2>2. RowTyped(theories[t], 1..(n + m))
      BY <1>9, <1>10 DEF RowTyped
    <2>3. PICK row : row = Retired(match, t)
      OBVIOUS
    <2>4. /\ row.version = theories[t].version /\ row.load = theories[t].load
          /\ row.successor = IF Heirs(match, t) = {} THEN theories[t].successor
                             ELSE Row(CHOOSE i \in Heirs(match, t) : TRUE)
      <3>1. t \in DOMAIN theories
        BY <1>8
      <3>2. /\ row.version = theories[t].version /\ SameLoad(row, theories[t])
            /\ row.successor = IF Heirs(match, t) = {} THEN theories[t].successor
                               ELSE Row(CHOOSE i \in Heirs(match, t) : TRUE)
        BY <1>0, <2>3, <3>1, RetiredFacts, Zenon
      <3>3. QED
        BY <3>2 DEF SameLoad
    <2>5. Heirs(match, t) # {} => Row(CHOOSE i \in Heirs(match, t) : TRUE) \in 1..(n + m)
      <3>1. SUFFICES ASSUME Heirs(match, t) # {}
                     PROVE  Row(CHOOSE i \in Heirs(match, t) : TRUE) \in 1..(n + m)
        OBVIOUS
      <3>2. PICK i : i = CHOOSE j \in Heirs(match, t) : TRUE
        OBVIOUS
      <3>3. i \in 1..m
        BY <1>7, <3>1, <3>2 DEF Heirs
      <3>4. Row(i) = n + i
        BY <1>8 DEF Row
      <3>5. QED
        BY <1>9, <3>2, <3>3, <3>4
    <2>6. RowTyped(row, 1..(n + m))
      BY <2>2, <2>4, <2>5 DEF RowTyped
    <2>7. QED
      BY <2>1, <2>2, <2>3, <2>6
  <1>12. ASSUME NEW i \in 1..m PROVE RowTyped(theories'[n + i], 1..(n + m))
    <2>1. NewRow(theories'[n + i], match, i)
      BY <1>3, <1>8 DEF Generated
    <2>2. VersionOf(match, i) \in Nat \ {0}
      <3>1. CASE match[i] = None
        BY <3>1 DEF VersionOf
      <3>2. CASE match[i] # None
        <4>1. match[i] \in 1..n
          BY <1>7, <1>8, <3>2
        <4>2. theories[match[i]].version \in Nat \ {0}
          BY <1>10, <4>1 DEF RowTyped
        <4>3. QED
          BY <3>2, <4>2 DEF VersionOf
      <3>3. QED
        BY <3>1, <3>2
    <2>3. QED
      BY <2>1, <2>2 DEF NewRow, RowTyped, Loads
  <1>13. ASSUME NEW t \in DOMAIN theories' PROVE RowTyped(theories'[t], DOMAIN theories')
    <2>1. CASE t \in 1..n
      BY <1>8, <1>11, <2>1
    <2>2. CASE t \notin 1..n
      <3>1. t - n \in 1..m /\ n + (t - n) = t
        BY <1>4, <1>8, <2>2
      <3>2. RowTyped(theories'[n + (t - n)], 1..(n + m))
        BY <1>12, <3>1
      <3>3. QED
        BY <1>8, <3>1, <3>2
    <2>3. QED
      BY <2>1, <2>2
  <1>14. QED
    BY <1>13 DEF RowsTyped

\* An attack replaces the objections to the theories that were answered.
LEMMA ChallengeTyped ==
    ASSUME Grounds, RowsTyped, ObjectionsTyped, NEW s \in Sessions, Challenge(s)
    PROVE  RowsTyped' /\ ObjectionsTyped'
  <1>0. \A row, rows, seen : \A load \in Loads :
          TheoryColumns \subseteq DOMAIN row /\ RowTyped(row, rows)
            => RowTyped(Rescored(row, seen, load), rows)
    BY RescoredTyped
  <1>1. PICK raised \in [ToSet(work[s].of) -> Raised \cup {None}] :
          /\ objections' = {o \in objections : o.theory \notin {t \in DOMAIN raised : raised[t] # None}}
                 \cup UNION {{Objection(t, i, raised[t][i]) : i \in DOMAIN raised[t]}
                               : t \in {t \in DOMAIN raised : raised[t] # None}}
          /\ theories' = [t \in DOMAIN theories |->
                IF t \in {u \in DOMAIN raised : raised[u] # None}
                  THEN Rescored(theories[t], work[s].seen[t],
                         ObjectionLoad({Objection(t, i, raised[t][i]) : i \in DOMAIN raised[t]}, t))
                  ELSE theories[t]]
    BY DEF Challenge
  <1>2. PICK told : told = {t \in DOMAIN raised : raised[t] # None}
    OBVIOUS
  <1>3. PICK new : new = [t \in told |-> {Objection(t, i, raised[t][i]) : i \in DOMAIN raised[t]}]
    OBVIOUS
  <1>4. IsFiniteSet(told) /\ told \subseteq DOMAIN theories
    <2>1. work[s].op \in Reading
      BY DEF Challenge, Answered, Reading
    <2>2. IsFiniteSet(ToSet(work[s].of)) /\ ToSet(work[s].of) \subseteq DOMAIN theories
      BY <2>1, ReadsFinite DEF Grounds
    <2>3. told \subseteq ToSet(work[s].of)
      BY <1>1, <1>2
    <2>4. QED
      BY <2>2, <2>3, FS_Subset
  <1>5. ASSUME NEW t \in told
        PROVE  /\ IsFiniteSet(new[t])
               /\ \A o \in new[t] : ObjectionTyped(o, DOMAIN theories)
    <2>1. PICK severities : severities = raised[t]
      OBVIOUS
    <2>2. severities \in Seq(0..100)
      BY <1>1, <1>2, <2>1, TheoriesAssumption
    <2>3. PICK n \in Nat : DOMAIN severities = 1..n /\ \A i \in 1..n : severities[i] \in 0..100
      <3>1. Len(severities) \in Nat /\ DOMAIN severities = 1..Len(severities)
        BY <2>2
      <3>2. \A i \in 1..Len(severities) : severities[i] \in 0..100
        BY <2>2, ElementOfSeq
      <3>3. QED
        BY <3>1, <3>2
    <2>4. new[t] = {Objection(t, i, severities[i]) : i \in 1..n}
      BY <1>3, <2>1, <2>3
    <2>5. IsFiniteSet({Objection(t, i, severities[i]) : i \in 1..n})
      <3>1. PICK f : f = [i \in 1..n |-> Objection(t, i, severities[i])]
        OBVIOUS
      <3>2. f \in Surjection(1..n, {Objection(t, i, severities[i]) : i \in 1..n})
        BY <3>1 DEF Surjection
      <3>3. QED
        BY <3>2, FS_Interval, FS_Surjection
    <2>6. \A i \in 1..n : ObjectionTyped(Objection(t, i, severities[i]), DOMAIN theories)
      BY <1>4, <2>3 DEF Objection, ObjectionTyped
    <2>7. QED
      BY <2>4, <2>5, <2>6
  <1>6. DOMAIN theories' = DOMAIN theories
    BY <1>1
  <1>7. objections' = {o \in objections : o.theory \notin told} \cup UNION {new[t] : t \in told}
    <2>1. {new[t] : t \in told} = {{Objection(t, i, raised[t][i]) : i \in DOMAIN raised[t]} : t \in told}
      BY <1>3
    <2>2. UNION {new[t] : t \in told} =
            UNION {{Objection(t, i, raised[t][i]) : i \in DOMAIN raised[t]} : t \in told}
      BY <2>1, Zenon
    <2>3. objections' = {o \in objections : o.theory \notin told}
             \cup UNION {{Objection(t, i, raised[t][i]) : i \in DOMAIN raised[t]} : t \in told}
      BY <1>1, <1>2, Zenon
    <2>4. QED
      BY <2>2, <2>3, Zenon
  <1>8. ObjectionsTyped'
    <2>1. IsFiniteSet({new[t] : t \in told})
      <3>1. PICK f : f = [t \in told |-> new[t]]
        OBVIOUS
      <3>2. f \in Surjection(told, {new[t] : t \in told})
        BY <3>1 DEF Surjection
      <3>3. QED
        BY <1>4, <3>2, FS_Surjection
    <2>2. IsFiniteSet(UNION {new[t] : t \in told})
      BY <1>5, <2>1, FS_UNION
    <2>3. IsFiniteSet({o \in objections : o.theory \notin told})
      BY FS_Subset DEF ObjectionsTyped
    <2>4. IsFiniteSet(objections')
      BY <1>7, <2>2, <2>3, FS_Union
    <2>5. \A o \in objections' : ObjectionTyped(o, DOMAIN theories')
      BY <1>5, <1>6, <1>7 DEF ObjectionsTyped
    <2>6. QED
      BY <2>4, <2>5 DEF ObjectionsTyped
  <1>9. ASSUME NEW t \in DOMAIN theories PROVE RowTyped(theories'[t], DOMAIN theories)
    <2>1. CASE t \in told
      <3>1. PICK load, seen : load = ObjectionLoad(new[t], t) /\ seen = work[s].seen[t]
        OBVIOUS
      <3>2. load \in Loads
        BY <1>5, <2>1, <3>1, LoadBounded DEF Severe, ObjectionTyped
      <3>3. theories'[t] = Rescored(theories[t], seen, load)
        BY <1>1, <1>2, <1>3, <2>1, <3>1
      <3>4. RowTyped(theories[t], DOMAIN theories) /\ TheoryColumns \subseteq DOMAIN theories[t]
        BY DEF RowsTyped, Grounds, Shapes
      <3>5. PICK row, rows : row = theories[t] /\ rows = DOMAIN theories
        OBVIOUS
      <3>6. TheoryColumns \subseteq DOMAIN row /\ RowTyped(row, rows)
        BY <3>4, <3>5
      <3>7. RowTyped(Rescored(row, seen, load), rows)
        BY <1>0, <3>2, <3>6, Zenon
      <3>8. QED
        BY <3>3, <3>5, <3>7
    <2>2. CASE t \notin told
      BY <1>1, <1>2, <2>2 DEF RowsTyped
    <2>3. QED
      BY <2>1, <2>2
  <1>10. QED
    BY <1>6, <1>8, <1>9 DEF RowsTyped

\* A load of one theory is written over what was read of it.
LEMMA OneRescored ==
    ASSUME Grounds, RowsTyped, NEW u, NEW seen,
           IsFiniteSet(objections'), \A o \in objections' : ObjectionTyped(o, DOMAIN theories),
           theories' = [theories EXCEPT ![u] = Rescored(@, seen, ObjectionLoad(objections', u))]
    PROVE  RowsTyped' /\ ObjectionsTyped'
  <1>1. DOMAIN theories' = DOMAIN theories
    OBVIOUS
  <1>2. PICK load : load = ObjectionLoad(objections', u)
    OBVIOUS
  <1>3. load \in Loads
    <2>1. Severe(objections')
      BY DEF Severe, ObjectionTyped
    <2>2. QED
      BY <1>2, <2>1, LoadBounded
  <1>4. ASSUME NEW t \in DOMAIN theories PROVE RowTyped(theories'[t], DOMAIN theories)
    <2>1. RowTyped(theories[t], DOMAIN theories) /\ TheoryColumns \subseteq DOMAIN theories[t]
      BY DEF RowsTyped, Grounds, Shapes
    <2>2. CASE t = u
      <3>1. theories'[t] = Rescored(theories[t], seen, load)
        BY <1>2, <2>2
      <3>2. PICK row, rows : row = theories[t] /\ rows = DOMAIN theories
        OBVIOUS
      <3>3. TheoryColumns \subseteq DOMAIN row /\ RowTyped(row, rows)
        BY <2>1, <3>2
      <3>4. RowTyped(Rescored(row, seen, load), rows)
        BY <1>3, <3>3, RescoredTyped
      <3>5. QED
        BY <3>1, <3>2, <3>4
    <2>3. CASE t # u
      BY <2>1, <2>3
    <2>4. QED
      BY <2>2, <2>3
  <1>5. QED
    BY <1>1, <1>4 DEF RowsTyped, ObjectionsTyped

\* The objections of a simulation join those of its theory.
LEMMA ExecuteTyped ==
    ASSUME Grounds, Typed, NEW s \in Sessions, Execute(s)
    PROVE  RowsTyped' /\ ObjectionsTyped'
  <1>1. PICK u, seen : u = work[s].of[1] /\ seen = work[s].seen[u]
    OBVIOUS
  <1>2. u \in DOMAIN theories
    BY <1>1 DEF Execute, Answered, Typed, About
  <1>3. PICK number, promoted :
          /\ promoted \in 0..1
          /\ objections' = objections \cup {Objection(u, number, SimulatedSeverity) : i \in 1..promoted}
          /\ theories' = IF promoted = 0 THEN theories
                        ELSE [theories EXCEPT ![u] = Rescored(@, seen, ObjectionLoad(objections', u))]
    BY <1>1 DEF Execute
  <1>4. CASE promoted = 0
    <2>1. objections' = objections /\ theories' = theories
      BY <1>3, <1>4
    <2>2. QED
      BY <2>1 DEF Typed, RowsTyped, ObjectionsTyped
  <1>5. CASE promoted = 1
    <2>1. objections' = objections \cup {Objection(u, number, SimulatedSeverity)}
      BY <1>3, <1>5
    <2>2. IsFiniteSet(objections')
      BY <2>1, FS_AddElement DEF Typed, ObjectionsTyped
    <2>3. ObjectionTyped(Objection(u, number, SimulatedSeverity), DOMAIN theories)
      BY <1>2 DEF Objection, ObjectionTyped, SimulatedSeverity
    <2>4. \A o \in objections' : ObjectionTyped(o, DOMAIN theories)
      BY <2>1, <2>3 DEF Typed, ObjectionsTyped
    <2>5. theories' = [theories EXCEPT ![u] = Rescored(@, seen, ObjectionLoad(objections', u))]
      BY <1>3, <1>5
    <2>6. QED
      BY <2>2, <2>4, <2>5, OneRescored DEF Typed
  <1>6. QED
    BY <1>3, <1>4, <1>5

\* An objection that is dismissed stays one of its theory.
LEMMA DismissTyped ==
    ASSUME Grounds, Typed, NEW o \in objections, Dismiss(o)
    PROVE  RowsTyped' /\ ObjectionsTyped'
  <1>1. PICK u, seen, x : u = o.theory /\ seen = theories[u] /\ x = [o EXCEPT !.dismissed = TRUE]
    OBVIOUS
  <1>2. /\ objections' = (objections \ {o}) \cup {x}
        /\ theories' = [theories EXCEPT ![u] = Rescored(@, seen, ObjectionLoad(objections', u))]
    BY <1>1 DEF Dismiss
  <1>3. ObjectionTyped(o, DOMAIN theories) /\ ObjectionColumns \subseteq DOMAIN o
    BY DEF Typed, ObjectionsTyped, Grounds, Shapes
  <1>4. ObjectionTyped(x, DOMAIN theories)
    BY <1>1, <1>3 DEF ObjectionTyped, ObjectionColumns
  <1>5. IsFiniteSet(objections')
    BY <1>2, FS_Subset, FS_AddElement DEF Typed, ObjectionsTyped
  <1>6. \A y \in objections' : ObjectionTyped(y, DOMAIN theories)
    BY <1>2, <1>4 DEF Typed, ObjectionsTyped
  <1>7. QED
    BY <1>2, <1>5, <1>6, OneRescored DEF Typed

\* Rows and objections stay typed.
LEMMA RowsStayTyped ==
    ASSUME Grounds, Typed, Steps
    PROVE  RowsTyped' /\ ObjectionsTyped'
  <1>1. ASSUME NEW s \in Sessions, Generate(s) PROVE RowsTyped' /\ ObjectionsTyped'
    <2>1. RowsTyped'
      BY <1>1, RowsGenerated DEF Typed
    <2>2. objections' = objections
      BY <1>1 DEF Generate
    <2>3. DOMAIN theories \subseteq DOMAIN theories'
      BY TheoriesGrow DEF Grounds
    <2>4. QED
      BY <2>1, <2>2, <2>3 DEF Typed, ObjectionsTyped, ObjectionTyped
  <1>2. ASSUME SameRows, SameLoads PROVE RowsTyped' /\ ObjectionsTyped'
    <2>1. DOMAIN theories' = DOMAIN theories /\ objections' = objections
      BY <1>2 DEF SameRows, SameLoads
    <2>2. ASSUME NEW t \in DOMAIN theories PROVE RowTyped(theories'[t], DOMAIN theories)
      BY <1>2 DEF SameRows, SameRow, SameLoads, SameLoad, Typed, RowsTyped, RowTyped
    <2>3. QED
      BY <2>1, <2>2 DEF Typed, RowsTyped, ObjectionsTyped
  <1>3. QED
    BY <1>1, <1>2, ChallengeTyped, ExecuteTyped, DismissTyped, TheoryEffects DEF Grounds, Typed

\* What a recorded observation adds to beliefs is its own row.
LEMMA RecordedAlone ==
    ASSUME BeliefRows, NEW row, beliefs' = WithEvidence(beliefs, row), NEW r \in ToSet(beliefs')
    PROVE  r \in ToSet(beliefs) \/ r = row
  <1> DEFINE places == {i \in DOMAIN beliefs : ~(/\ beliefs[i].key = row.key
                                                 /\ beliefs[i].source = row.source
                                                 /\ beliefs[i].id = row.id)}
  <1>1. PICK p : p = Picked(beliefs, places)
    OBVIOUS
  <1>2. beliefs' = Append(p, row)
    BY <1>1 DEF WithEvidence
  <1>3. IsList(p) /\ ToSet(p) = {beliefs[i] : i \in places}
    BY <1>1, PickedFrom DEF BeliefRows
  <1>4. ToSet(beliefs') = ToSet(p) \cup {row}
    BY <1>2, <1>3, AppendedRow
  <1>5. QED
    BY <1>3, <1>4 DEF ToSet

\* Evidence, priors and link tests are about theories that are or were.
LEMMA KeysStayTyped ==
    ASSUME Grounds, Ledger, Typed, Steps
    PROVE  KeysTyped'
  <1>1. Keys \subseteq Keys'
    BY KeysGrow
  <1>2. (\A h \in hypotheses : h.key \in Keys) /\ \A r \in ToSet(beliefs) : r.key \in Keys
    BY DEF Typed, KeysTyped
  <1>3. \A t \in DOMAIN theories : theories[t].key \in Keys
    BY DEF Keys
  <1>4. ASSUME NEW s \in Sessions, ProposeHypotheses(s), NEW h \in hypotheses' PROVE h.key \in Keys
    <2> DEFINE t == work[s].of[1]
               key == theories[t].key
               kept == {x \in hypotheses : ~(x.key = key /\ x.status = "open")}
    <2>1. t \in DOMAIN theories
      BY <1>4 DEF ProposeHypotheses, Answered, Typed, About
    <2>2. \E n \in 0..MaxLinks : \E links \in [1..n -> theories[work[s].of[1]].links] :
            hypotheses' = kept \cup
               {[id |-> LastId(kept) + i, key |-> key, link |-> links[i],
                 level |-> "moderate", status |-> "open", last |-> None] : i \in 1..n}
      BY <1>4 DEF ProposeHypotheses
    <2>3. PICK n \in 0..MaxLinks : \E links :
            hypotheses' = kept \cup
               {[id |-> LastId(kept) + i, key |-> key, link |-> links[i],
                 level |-> "moderate", status |-> "open", last |-> None] : i \in 1..n}
      BY <2>2
    <2>4. PICK links : hypotheses' = kept \cup
               {[id |-> LastId(kept) + i, key |-> key, link |-> links[i],
                 level |-> "moderate", status |-> "open", last |-> None] : i \in 1..n}
      BY <2>3
    <2>5. kept \subseteq hypotheses /\ key \in Keys
      BY <1>3, <2>1
    <2> HIDE DEF key, kept
    <2>6. h \in kept \/ h.key = key
      BY <1>4, <2>4
    <2>7. QED
      BY <1>2, <2>5, <2>6
  <1>5. ASSUME NEW h \in hypotheses, Links(h) \/ \E level \in Levels : SetLinkDecisiveness(h, level),
               NEW x \in hypotheses'
        PROVE  x.key \in Keys
    <2>1. HypothesisColumns \subseteq DOMAIN h
      BY DEF Ledger, Tests, HypothesisState
    <2>2. x \in hypotheses \/ x.key = h.key
      BY <1>5, <2>1 DEF Links, RecordLink, SetLinkDecisiveness, HypothesisColumns
    <2>3. QED
      BY <1>2, <2>2
  <1>6. \A h \in hypotheses' : h.key \in Keys
    BY <1>2, <1>4, <1>5, EvidenceEffects
  <1>7. ASSUME NEW row, row.key \in Keys, beliefs' = WithEvidence(beliefs, row)
        PROVE  \A r \in ToSet(beliefs') : r.key \in Keys
    BY <1>2, <1>7, RecordedAlone DEF Ledger
  <1>8. ASSUME NEW w \in tripwires, Observes(w) PROVE \A r \in ToSet(beliefs') : r.key \in Keys
    <2>1. PICK key : key = theories[w.theory].key
      OBVIOUS
    <2>2. key \in Keys
      BY <1>3, <2>1 DEF Grounds, Shapes
    <2>3. \E weight, id, event, at :
            beliefs' = WithEvidence(beliefs, Evidence(key, weight, "tripwire", id, event, at))
      BY <1>8, <2>1 DEF Observes, Observe
    <2>4. \A weight, id, event, at : Evidence(key, weight, "tripwire", id, event, at).key = key
      BY DEF Evidence
    <2>5. QED
      BY <1>7, <2>2, <2>3, <2>4
  <1>9. ASSUME NEW e \in DOMAIN experiments, Records(e) PROVE \A r \in ToSet(beliefs') : r.key \in Keys
    <2>1. PICK key : key = theories[experiments[e].theory].key
      OBVIOUS
    <2>2. key \in Keys
      BY <1>3, <2>1 DEF Grounds, Shapes
    <2>3. \E weight, id, event, at :
            beliefs' = WithEvidence(beliefs, Evidence(key, weight, "field_experiment", id, event, at))
      BY <1>9, <2>1 DEF Records, RecordField
    <2>4. \A weight, id, event, at : Evidence(key, weight, "field_experiment", id, event, at).key = key
      BY DEF Evidence
    <2>5. QED
      BY <1>7, <2>2, <2>3, <2>4
  <1>10. ASSUME NEW h \in hypotheses, Links(h) PROVE \A r \in ToSet(beliefs') : r.key \in Keys
    <2>1. PICK key : key = h.key
      OBVIOUS
    <2>2. \E weight, id, event, at :
            beliefs' = WithEvidence(beliefs, Evidence(key, weight, "link_hypothesis", id, event, at))
      BY <1>10, <2>1 DEF Links, RecordLink
    <2>3. \A weight, id, event, at : Evidence(key, weight, "link_hypothesis", id, event, at).key = key
      BY DEF Evidence
    <2>4. QED
      BY <1>2, <1>7, <2>1, <2>2, <2>3
  <1>11. ASSUME NEW key \in Keys, NEW value, StatePrior(key, value)
         PROVE  \A r \in ToSet(beliefs') : r.key \in Keys
    <2>1. beliefs' = Append(beliefs, Prior(key, value, time'))
      BY <1>11 DEF StatePrior
    <2>2. Prior(key, value, time').key = key
      BY DEF Prior
    <2>3. ToSet(beliefs') = ToSet(beliefs) \cup {Prior(key, value, time')}
      BY <2>1, AppendedRow DEF Ledger, BeliefRows
    <2>4. QED
      BY <1>2, <1>11, <2>2, <2>3
  <1>12. \A r \in ToSet(beliefs') : r.key \in Keys
    BY <1>2, <1>8, <1>9, <1>10, <1>11, EvidenceEffects
  <1>13. QED
    BY <1>1, <1>6, <1>12 DEF KeysTyped

\* Only a recommendation writes what it was written from.
LEMMA RecommendationEffects ==
    ASSUME Steps
    PROVE  recommendation' = recommendation \/ \E s \in Sessions : Recommend(s)
  <1>1. ASSUME NEW s \in Sessions, Aside(s) PROVE recommendation' = recommendation \/ Recommend(s)
    BY <1>1 DEF Aside, AskGenerate, AskChallenge, AskTripwires, AskDebates, AskRecommendation,
         ProposeHypotheses, Fail, AskReactions, AskHypotheses
  <1>2. ASSUME NEW s \in Sessions, Writes(s) PROVE recommendation' = recommendation
    BY <1>2 DEF Writes, Generate, Challenge, GenerateTripwires, RunDebates, Execute
  <1>3. MarkStale \/ OutsideRequests => recommendation' = recommendation
    BY DEF MarkStale, OutsideRequests
  <1>4. ASSUME NEW w, Observes(w) \/ \E level \in Levels : SetDecisiveness(w, level)
        PROVE  recommendation' = recommendation
    BY <1>4 DEF Observes, Observe, SetDecisiveness
  <1>5. ASSUME NEW o, Dismiss(o) PROVE recommendation' = recommendation
    BY <1>5 DEF Dismiss
  <1>6. ASSUME NEW t, NEW kind, Design(t, kind) PROVE recommendation' = recommendation
    BY <1>6 DEF Design
  <1>7. ASSUME NEW d, Promote(d) PROVE recommendation' = recommendation
    BY <1>7 DEF Promote
  <1>8. ASSUME NEW e, Records(e) PROVE recommendation' = recommendation
    BY <1>8 DEF Records, RecordField
  <1>9. ASSUME NEW h, Links(h) PROVE recommendation' = recommendation
    BY <1>9 DEF Links, RecordLink
  <1>10. Believes => recommendation' = recommendation
    BY DEF Believes, StatePrior, SetLinkDecisiveness
  <1>11. QED
    BY <1>1, <1>2, <1>3, <1>4, <1>5, <1>6, <1>7, <1>8, <1>9, <1>10 DEF Steps

\* Rows and numbers stay what they may be.
LEMMA TypedStays ==
    ASSUME Grounds, Ledger, Typed, Steps
    PROVE  Typed'
  <1>1. RowsTyped' /\ ObjectionsTyped'
    BY RowsStayTyped
  <1>2. KeysTyped'
    BY KeysStayTyped
  <1>3. \A s \in Sessions : About(work'[s], DOMAIN theories')
    BY AboutStays DEF Typed
  <1>4. recommendation' = None \/ recommendation' \subseteq DOMAIN theories'
    <2>1. DOMAIN theories \subseteq DOMAIN theories'
      BY TheoriesGrow DEF Grounds
    <2>2. ASSUME NEW s \in Sessions, Recommend(s) PROVE recommendation' \subseteq DOMAIN theories
      <3>1. recommendation' = ToSet(work[s].of) /\ work[s].op \in Reading
        BY <2>2 DEF Recommend, Answered, Reading
      <3>2. QED
        BY <3>1, ReadsFinite DEF Grounds
    <2>3. QED
      BY <2>1, <2>2, RecommendationEffects DEF Typed
  <1>5. QED
    BY <1>1, <1>2, <1>3, <1>4 DEF Typed

\* Every row and every number of a project's theories is what it may be: versions
\* are numbered from one, a successor is on record, no theory is discounted by more
\* than everything, and what is kept about a theory is about one on record.
THEOREM TypeCorrect == Spec => []TypeOK
  <1>1. Init => Typed
    <2>1. SUFFICES ASSUME Init PROVE Typed
      OBVIOUS
    <2>2. DOMAIN theories = {} /\ ToSet(beliefs) = {}
      BY <2>1 DEF Init, ToSet
    <2>3. IsFiniteSet(objections)
      BY <2>1, FS_EmptySet DEF Init
    <2>4. \A s \in Sessions : About(work[s], DOMAIN theories)
      BY <2>1 DEF Init, Idle, About
    <2>5. QED
      BY <2>1, <2>2, <2>3, <2>4 DEF Init, Typed, RowsTyped, ObjectionsTyped, KeysTyped
  <1>2. Grounds /\ Ledger /\ Typed /\ [Next]_vars => Typed'
    <2>1. SUFFICES ASSUME Grounds, Ledger, Typed, [Next]_vars PROVE Typed'
      OBVIOUS
    <2>2. CASE Next
      BY <2>1, <2>2, EveryStep, TypedStays
    <2>3. CASE UNCHANGED vars
      BY <2>1, <2>3 DEF vars, Typed, RowsTyped, ObjectionsTyped, KeysTyped, Keys
    <2>4. QED
      BY <2>1, <2>2, <2>3
  <1>3. Grounds /\ Remembered /\ Typed => TypeOK
    <2>1. SUFFICES ASSUME Grounds, Remembered, Typed PROVE TypeOK
      OBVIOUS
    <2>2. \A t \in DOMAIN theories : OnRecord(theories[t].match.case)
      BY <2>1 DEF Remembered, RowsStand
    <2>3. \A i \in DOMAIN beliefs : beliefs[i].key \in Keys
      BY <2>1 DEF Typed, KeysTyped, ToSet
    <2>4. /\ \A w \in tripwires : w.theory \in DOMAIN theories
          /\ \A d \in DOMAIN debates : {debates[d].a, debates[d].b} \subseteq DOMAIN theories
          /\ \A e \in DOMAIN experiments : experiments[e].theory \in DOMAIN theories
      BY <2>1 DEF Grounds, Shapes
    <2>5. QED
      BY <2>1, <2>2, <2>3, <2>4 DEF TypeOK, Typed, RowsTyped, RowTyped, Loads, ObjectionsTyped, ObjectionTyped
  <1>4. QED
    BY <1>1, <1>2, <1>3, GroundsHold, LedgerHolds, RememberedHolds, PTL DEF Spec

=============================================================================
