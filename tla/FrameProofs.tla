---------------------------- MODULE FrameProofs -----------------------------
(***************************************************************************)
(* The frame for any lists of questions, any number of requests for them,  *)
(* and any series of drafts, saves and restated objectives around a run:   *)
(* what a run is told is what the user said, a confirmed anchor gives way  *)
(* only to a draft asked for before, and keys keep their meaning.          *)
(*                                                                         *)
(* That keys keep their meaning is not inductive.  It needs that an anchor *)
(* has no key twice, that what a run or a save is about to bring the graph *)
(* in line with has the items of the stored anchor, and that what the      *)
(* claims bear on between two scorings is still among the keys that a save *)
(* reserves.                                                               *)
(*                                                                         *)
(* The last part is about theories, for any graph and any answer: a        *)
(* generation is shown what is sought and not too much, and what is kept   *)
(* of an answer rests on it (Generating).                                  *)
(***************************************************************************)
EXTENDS Frame, IndicesProofs

Item == [key : Nat \ {Blank}, item : Nat]
RawItem == [key : Nat, item : Nat]
Anchors == [decision : {"stated"}, options : Seq(Item), outcomes : Seq(Item),
            status : {"draft", "confirmed"}]

WellKeyed(list) == \A i, j \in 1..Len(list) : list[i].key = list[j].key => i = j
SoundAnchor(anchor) == anchor \in Anchors /\ WellKeyed(anchor.options) /\ WellKeyed(anchor.outcomes)
NoneOrSound(anchor) == anchor = None \/ SoundAnchor(anchor)

\* Two anchors with the same items, if any.
SameItems(a, b) ==
    \/ a = None /\ b = None
    \/ a # None /\ b # None /\ a.options = b.options /\ a.outcomes = b.outcomes

Types ==
    /\ DOMAIN project = {"material", "status", "objective", "anchor", "context"}
    /\ project.objective \in {None, "stated"} /\ drafting.objective \in {None, "stated"}
    /\ NoneOrSound(project.anchor)
    /\ DOMAIN run = {"phase", "anchor"}
    /\ run.phase \in {"none", "queued", "drafting", "extracting", "done"}
    /\ NoneOrSound(run.anchor)
    /\ DOMAIN saving = {"phase", "anchor", "changes"}
    /\ saving.phase \in {"idle", "saved", "scoring"} /\ saving.changes \in BOOLEAN
    /\ saving.phase # "idle" => SoundAnchor(saving.anchor)
    /\ items \in Nat
    /\ nodes \subseteq [key : Nat, item : Nat, active : BOOLEAN]

NodesBounded == \E bound \in Nat : \A n \in nodes : n.key <= bound

\* Before a run is over there is nothing on the graph, and no save to follow up.
NothingYet == run.phase # "done" => nodes = {} /\ bears = {} /\ saving.phase = "idle"

\* What the graph is being brought in line with is what is stored.
InLine ==
    ~strayed => /\ run.phase = "extracting" => SameItems(run.anchor, project.anchor)
                /\ saving.phase # "idle" => SameItems(saving.anchor, project.anchor)

NodesMean ==
    ~strayed /\ project.anchor # None =>
      \A n \in nodes, y \in ToSet(project.anchor.outcomes) : n.key = y.key => n.item = y.item

\* Unless a save is under way that changes the anchor, claims bear on options
\* there are.
BearsMean ==
    ~strayed /\ ~lapsed =>
      /\ project.anchor = None => bears = {}
      /\ project.anchor # None =>
           /\ saving.phase = "idle" \/ ~saving.changes => bears \subseteq ToSet(project.anchor.options)
           /\ \A b \in bears, o \in ToSet(project.anchor.options) : b.key = o.key => b.item = o.item

Meaning == Types /\ NodesBounded /\ NothingYet /\ InLine /\ NodesMean /\ BearsMean

Unanswered(rows) ==
    \A q \in rows : DOMAIN q = {"id", "kind", "answer", "options"} /\ q.answer = None

\* Nothing is answered before a run, and what a run is told was said.
Intake ==
    /\ asks = [a \in Asks |-> asks[a]]
    /\ \A a \in Asks : DOMAIN asks[a] = {"phase", "deletes", "rows"} /\ Unanswered(asks[a].rows)
    /\ DOMAIN project = {"material", "status", "objective", "anchor", "context"}
    /\ DOMAIN run = {"phase", "anchor"}
    /\ run.phase = "none" => project.context = {} /\ Unanswered(questions)
    /\ AnswersFitTheirQuestions

-----------------------------------------------------------------------------
(* What keying a list does to it *)

\* The sequence of keys past which new ones are given.
LEMMA PastAll ==
    ASSUME NEW list \in Seq(RawItem), NEW reserved, reserved \subseteq Nat,
           NEW bound \in Nat, \A k \in reserved : k <= bound
    PROVE  /\ Max({0} \cup reserved \cup KeysOf(list)) \in Nat
           /\ \A k \in reserved \cup KeysOf(list) : k <= Max({0} \cup reserved \cup KeysOf(list))
  <1> DEFINE S == {0} \cup reserved \cup KeysOf(list)
  <1>1. Len(list) \in Nat /\ DOMAIN list = 1..Len(list) /\ \A i \in 1..Len(list) : list[i].key \in Nat
    <2>1. Len(list) \in Nat /\ DOMAIN list = 1..Len(list)
      OBVIOUS
    <2>2. \A i \in 1..Len(list) : list[i] \in RawItem
      OBVIOUS
    <2>3. QED
      BY <2>1, <2>2 DEF RawItem
  <1>2. PICK b \in Nat : \A i \in 1..Len(list) : list[i].key <= b
    <2> DEFINE f == [i \in 1..Len(list) |-> list[i].key]
    <2>1. \A i \in 1..Len(list) : f[i] \in Nat /\ f[i] = list[i].key
      BY <1>1
    <2> HIDE DEF f
    <2>2. \E b \in Nat : \A i \in 1..Len(list) : f[i] <= b
      BY <1>1, <2>1, BoundExists
    <2>3. QED
      BY <2>1, <2>2
  <1>3. S \subseteq Nat /\ S # {}
    <2>1. ASSUME NEW k \in S PROVE k \in Nat
      <3>1. CASE k \in KeysOf(list)
        BY <1>1, <3>1 DEF KeysOf
      <3>2. CASE k \notin KeysOf(list)
        BY <2>1, <3>2
      <3>3. QED
        BY <3>1, <3>2
    <2>2. 0 \in S
      OBVIOUS
    <2>3. QED
      BY <2>1, <2>2
  <1>4. PICK c \in Nat : b <= c /\ bound <= c
    OBVIOUS
  <1>5. \A k \in S : k <= c
    <2>1. \A k \in reserved : k \in Nat /\ k <= c
      BY <1>4
    <2>2. \A k \in KeysOf(list) : k \in Nat /\ k <= c
      BY <1>1, <1>2, <1>4 DEF KeysOf
    <2>3. QED
      BY <2>1, <2>2
  <1> HIDE DEF S
  <1>6. Max(S) \in S /\ \A k \in S : k <= Max(S)
    BY <1>3, <1>5, MaxFacts
  <1>7. QED
    BY <1>3, <1>6 DEF S

\* How many places up to here need a key: more, the further.
LEMMA Counted ==
    ASSUME NEW n \in Nat, NEW places, places \subseteq 1..n
    PROVE  /\ \A i \in places : Cardinality({j \in 1..i : j \in places}) \in Nat \ {0}
           /\ \A i, k \in places :
                i < k => Cardinality({j \in 1..i : j \in places}) # Cardinality({j \in 1..k : j \in places})
  <1> DEFINE upto(i) == {j \in 1..i : j \in places}
  <1>1. ASSUME NEW i \in places
        PROVE  IsFiniteSet(upto(i)) /\ Cardinality(upto(i)) \in Nat \ {0}
    <2>1. IsFiniteSet(1..i) /\ upto(i) \subseteq 1..i
      BY FS_Interval
    <2>2. IsFiniteSet(upto(i)) /\ i \in upto(i)
      BY <2>1, FS_Subset
    <2>3. Cardinality(upto(i)) \in Nat /\ Cardinality(upto(i)) # 0
      BY <2>2, FS_CardinalityType, FS_EmptySet
    <2>4. QED
      BY <2>2, <2>3
  <1>2. ASSUME NEW i \in places, NEW k \in places, i < k
        PROVE  Cardinality(upto(i)) # Cardinality(upto(k))
    <2>1. upto(i) \subseteq upto(k) /\ k \in upto(k) /\ k \notin upto(i)
      BY <1>2
    <2>2. upto(i) # upto(k)
      BY <2>1
    <2>3. QED
      BY <1>1, <2>1, <2>2, FS_Subset
  <1>3. QED
    BY <1>1, <1>2

\* A list that is keyed has every key once; an item of it is one that had its
\* key, or has a key that was not reserved.
LEMMA KeyedFacts ==
    ASSUME NEW list \in Seq(RawItem), NEW limit \in Nat, NEW reserved, reserved \subseteq Nat,
           NEW bound \in Nat, \A k \in reserved : k <= bound
    PROVE  /\ Keyed(list, limit, reserved) \in Seq(Item)
           /\ WellKeyed(Keyed(list, limit, reserved))
           /\ \A x \in ToSet(Keyed(list, limit, reserved)) :
                x \in ToSet(list) \/ x.key \notin reserved
  <1> DEFINE at == {i \in DOMAIN list : list[i].item # None}
             labelled == Picked(list, at)
             most == Min({limit, Len(labelled)})
             cleaned == SubSeq(labelled, 1, most)
             keeps(i) == cleaned[i].key # Blank /\ \A j \in 1..(i - 1) : cleaned[j].key # cleaned[i].key
             highest == Max({0} \cup reserved \cup KeysOf(cleaned))
             others(i) == Cardinality({j \in 1..i : ~keeps(j)})
             keyed == [i \in DOMAIN cleaned |->
                         IF keeps(i) THEN cleaned[i] ELSE [cleaned[i] EXCEPT !.key = highest + others(i)]]
  <1>1. Keyed(list, limit, reserved) = keyed
    BY DEF Keyed
  <1>2. at \subseteq DOMAIN list
    OBVIOUS
  <1>3. labelled \in Seq(RawItem) /\ Len(labelled) \in Nat
    BY <1>2, PickedFacts
  <1>4. \A i \in 1..Len(labelled) : labelled[i] \in ToSet(list)
    <2>1. ASSUME NEW i \in 1..Len(labelled) PROVE labelled[i] \in ToSet(list)
      <3>1. PICK k \in at : labelled[i] = list[k]
        <4> HIDE DEF at
        <4>1. QED
          BY <1>2, PickedIsIn
      <3>2. QED
        BY <1>2, <3>1 DEF ToSet
    <2>2. QED
      BY <2>1
  <1> HIDE DEF at, labelled
  <1>5. most \in 0..Len(labelled)
    <2>1. \E x \in {limit, Len(labelled)} : \A y \in {limit, Len(labelled)} : x <= y
      BY <1>3
    <2>2. most \in {limit, Len(labelled)} /\ most <= Len(labelled)
      BY <1>3, <2>1 DEF Min
    <2>3. QED
      BY <1>3, <2>2
  <1> HIDE DEF most
  <1>6. /\ cleaned \in Seq(RawItem) /\ Len(cleaned) = most /\ DOMAIN cleaned = 1..most /\ most \in Nat
        /\ \A i \in 1..most : cleaned[i] = labelled[i] /\ i \in 1..Len(labelled)
    BY <1>3, <1>5
  <1> HIDE DEF cleaned
  <1>7. \A i \in 1..most : cleaned[i] \in RawItem /\ cleaned[i] \in ToSet(list) /\ cleaned[i].key \in Nat
    <2>1. \A i \in 1..most : cleaned[i] \in RawItem
      BY <1>6
    <2>2. \A i \in 1..most : cleaned[i] \in ToSet(list)
      BY <1>4, <1>6
    <2>3. QED
      BY <2>1, <2>2 DEF RawItem
  <1>8. /\ highest \in Nat /\ \A k \in reserved : k <= highest
        /\ \A i \in 1..most : cleaned[i].key <= highest
    <2>1. highest \in Nat /\ \A k \in reserved \cup KeysOf(cleaned) : k <= highest
      BY <1>6, PastAll
    <2>2. QED
      BY <1>6, <2>1 DEF KeysOf
  <1> HIDE DEF highest
  <1> DEFINE places == {i \in 1..most : ~keeps(i)}
  <1>9. \A i \in 1..most : {j \in 1..i : ~keeps(j)} = {j \in 1..i : j \in places}
    BY <1>6
  <1>10. places \subseteq 1..most
    OBVIOUS
  <1> HIDE DEF keeps
  <1>11. /\ \A i \in places : others(i) \in Nat \ {0}
         /\ \A i, k \in places : i < k => others(i) # others(k)
    <2> HIDE DEF places
    <2>1. \A i \in places : others(i) = Cardinality({j \in 1..i : j \in places})
      BY <1>9, <1>10
    <2>2. QED
      BY <1>6, <1>10, <2>1, Counted
  <1> HIDE DEF others
  <1>12. DOMAIN keyed = 1..most
    BY <1>6
  <1>13. ASSUME NEW i \in 1..most, keeps(i)
         PROVE  keyed[i] = cleaned[i] /\ keyed[i] \in Item /\ keyed[i].key <= highest
    <2>1. keyed[i] = cleaned[i]
      BY <1>6, <1>13
    <2>2. cleaned[i].key # Blank
      BY <1>13 DEF keeps
    <2>3. QED
      BY <1>7, <1>8, <2>1, <2>2 DEF Item, RawItem
  <1>14. ASSUME NEW i \in 1..most, ~keeps(i)
         PROVE  keyed[i] \in Item /\ keyed[i].key = highest + others(i) /\ others(i) \in Nat \ {0}
    <2>1. keyed[i] = [cleaned[i] EXCEPT !.key = highest + others(i)]
      BY <1>6, <1>14
    <2>2. others(i) \in Nat \ {0}
      BY <1>11, <1>14
    <2>3. PICK key \in Nat \ {Blank} : key = highest + others(i)
      BY <1>8, <2>2 DEF Blank
    <2>4. keyed[i] = [cleaned[i] EXCEPT !.key = key]
      BY <2>1, <2>3
    <2> HIDE DEF keyed
    <2>5. keyed[i] \in Item /\ keyed[i].key = key
      BY <1>7, <2>4 DEF Item, RawItem
    <2>6. QED
      BY <2>2, <2>3, <2>5
  <1> HIDE DEF keyed
  <1>15. keyed \in Seq(Item) /\ Len(keyed) = most
    <2>1. keyed = [i \in 1..most |-> keyed[i]]
      BY <1>12 DEF keyed
    <2>2. \A i \in 1..most : keyed[i] \in Item
      BY <1>13, <1>14
    <2>3. keyed \in [1..most -> Item]
      BY <2>1, <2>2
    <2>4. QED
      BY <1>6, <2>3, FunctionsAreSequences
  <1>16. ASSUME NEW i \in 1..most, NEW j \in 1..most, keyed[i].key = keyed[j].key, i < j
         PROVE  FALSE
    <2>1. CASE keeps(i) /\ keeps(j)
      <3>1. i \in 1..(j - 1)
        BY <1>6, <1>16
      <3>2. cleaned[i].key # cleaned[j].key
        BY <2>1, <3>1 DEF keeps
      <3>3. QED
        BY <1>13, <1>16, <2>1, <3>2
    <2>2. CASE ~keeps(i) /\ ~keeps(j)
      <3>1. others(i) # others(j)
        BY <1>11, <1>16, <2>2
      <3>2. QED
        BY <1>8, <1>14, <1>16, <2>2, <3>1
    <2>3. CASE keeps(i) /\ ~keeps(j)
      <3>1. keyed[i].key \in Nat /\ keyed[i].key <= highest
        BY <1>13, <2>3 DEF Item
      <3>2. keyed[j].key = highest + others(j) /\ others(j) \in Nat \ {0}
        BY <1>14, <2>3
      <3>3. QED
        BY <1>8, <1>16, <3>1, <3>2
    <2>4. CASE ~keeps(i) /\ keeps(j)
      <3>1. keyed[j].key \in Nat /\ keyed[j].key <= highest
        BY <1>13, <2>4 DEF Item
      <3>2. keyed[i].key = highest + others(i) /\ others(i) \in Nat \ {0}
        BY <1>14, <2>4
      <3>3. QED
        BY <1>8, <1>16, <3>1, <3>2
    <2>5. QED
      BY <2>1, <2>2, <2>3, <2>4
  <1>17. WellKeyed(keyed)
    <2>1. ASSUME NEW i \in 1..most, NEW j \in 1..most, keyed[i].key = keyed[j].key
          PROVE  i = j
      <3>1. ~(i < j) /\ ~(j < i)
        BY <1>16, <2>1
      <3>2. QED
        BY <1>6, <3>1
    <2>2. QED
      BY <1>15, <2>1 DEF WellKeyed
  <1>18. ASSUME NEW x \in ToSet(keyed)
         PROVE  x \in ToSet(list) \/ x.key \notin reserved
    <2>1. PICK i \in 1..most : x = keyed[i]
      BY <1>12 DEF ToSet
    <2>2. CASE keeps(i)
      BY <1>7, <1>13, <2>1, <2>2
    <2>3. CASE ~keeps(i)
      <3>1. x.key = highest + others(i) /\ others(i) \in Nat \ {0}
        BY <1>14, <2>1, <2>3
      <3>2. x.key > highest
        BY <1>8, <3>1
      <3>3. \A k \in reserved : k \in Nat /\ k <= highest
        BY <1>8
      <3>4. QED
        BY <1>8, <3>1, <3>2, <3>3
    <2>4. QED
      BY <2>2, <2>3
  <1>19. QED
    BY <1>1, <1>15, <1>17, <1>18

-----------------------------------------------------------------------------
(* Anchors *)

NotARecord(x) ==
    /\ x \notin [decision : {None, "stated"}, options : Seq(RawItem), outcomes : Seq(RawItem)]
    /\ x \notin [decision : {None, "stated"}, options : Seq(RawItem), outcomes : Seq(RawItem),
                 status : {"draft", "confirmed"}]

LEMMA NoneIsNone == NotARecord(None)
  BY FrameAssumption DEF NotARecord, RawItem, ItemLists

LEMMA AnchorFacts ==
    ASSUME NEW anchor, SoundAnchor(anchor)
    PROVE  /\ anchor # None
           /\ anchor.options \in Seq(Item) /\ anchor.outcomes \in Seq(Item)
           /\ anchor.options \in Seq(RawItem) /\ anchor.outcomes \in Seq(RawItem)
           /\ anchor.decision = "stated" /\ anchor.status \in {"draft", "confirmed"}
  <1>1. anchor.options \in Seq(Item) /\ anchor.outcomes \in Seq(Item)
    BY DEF SoundAnchor, Anchors
  <1>2. Item \subseteq RawItem
    BY DEF Item, RawItem
  <1>3. anchor.options \in Seq(RawItem) /\ anchor.outcomes \in Seq(RawItem)
    BY <1>1, <1>2, SeqMonotonic
  <1>4. /\ anchor = [decision |-> anchor.decision, options |-> anchor.options,
                     outcomes |-> anchor.outcomes, status |-> anchor.status]
        /\ anchor.decision = "stated" /\ anchor.status \in {"draft", "confirmed"}
    BY DEF SoundAnchor, Anchors
  <1>5. anchor \in [decision : {None, "stated"}, options : Seq(RawItem), outcomes : Seq(RawItem),
                    status : {"draft", "confirmed"}]
    BY <1>3, <1>4
  <1>6. QED
    BY <1>1, <1>3, <1>4, <1>5, NoneIsNone DEF NotARecord

\* The keys of a list are natural numbers up to some bound.
Reservable(keys) == keys \subseteq Nat /\ \E bound \in Nat : \A k \in keys : k <= bound

LEMMA KeysOfFacts ==
    ASSUME NEW list \in Seq(Item)
    PROVE  Reservable(KeysOf(list))
  <1> DEFINE f == [i \in 1..Len(list) |-> list[i].key]
  <1>1. Len(list) \in Nat /\ DOMAIN list = 1..Len(list)
    OBVIOUS
  <1>2. \A i \in 1..Len(list) : list[i] \in Item
    OBVIOUS
  <1>3. \A i \in 1..Len(list) : f[i] \in Nat /\ f[i] = list[i].key
    BY <1>2 DEF Item
  <1> HIDE DEF f
  <1>4. PICK bound \in Nat : \A i \in 1..Len(list) : f[i] <= bound
    BY <1>1, <1>3, BoundExists
  <1>5. ASSUME NEW k \in KeysOf(list) PROVE k \in Nat /\ k <= bound
    <2>1. PICK i \in 1..Len(list) : k = list[i].key
      BY <1>1 DEF KeysOf
    <2>2. QED
      BY <1>3, <1>4, <2>1
  <1>6. QED
    BY <1>5 DEF Reservable

LEMMA AnchorKeysFacts ==
    ASSUME NEW anchor, NoneOrSound(anchor)
    PROVE  Reservable(AnchorKeys(anchor).options) /\ Reservable(AnchorKeys(anchor).outcomes)
  <1>1. CASE anchor = None
    <2>1. Reservable({})
      BY DEF Reservable
    <2>2. QED
      BY <1>1, <2>1 DEF AnchorKeys, Nothing
  <1>2. CASE SoundAnchor(anchor)
    BY <1>2, AnchorFacts, KeysOfFacts DEF AnchorKeys
  <1>3. QED
    BY <1>1, <1>2 DEF NoneOrSound

LEMMA UsedKeysFacts ==
    ASSUME Types, NodesBounded
    PROVE  /\ Reservable(UsedKeys.options) /\ Reservable(UsedKeys.outcomes)
           /\ UsedKeys.options = AnchorKeys(project.anchor).options
           /\ \A n \in nodes : n.key \in UsedKeys.outcomes
           /\ AnchorKeys(project.anchor).outcomes \subseteq UsedKeys.outcomes
  <1> DEFINE keys == AnchorKeys(project.anchor)
  <1>1. Reservable(keys.options) /\ Reservable(keys.outcomes)
    BY AnchorKeysFacts DEF Types
  <1>2. keys = [options |-> keys.options, outcomes |-> keys.outcomes]
    BY DEF AnchorKeys, Nothing
  <1> HIDE DEF keys
  <1>3. UsedKeys.options = keys.options /\ UsedKeys.outcomes = keys.outcomes \cup Nodes
    BY <1>2 DEF UsedKeys, keys
  <1>4. PICK a \in Nat : \A k \in keys.outcomes : k <= a
    BY <1>1 DEF Reservable
  <1>5. PICK b \in Nat : \A n \in nodes : n.key <= b
    BY DEF NodesBounded
  <1>6. PICK c \in Nat : a <= c /\ b <= c
    OBVIOUS
  <1>7. \A k \in keys.outcomes : k \in Nat /\ k <= c
    BY <1>1, <1>4, <1>6 DEF Reservable
  <1>8. \A n \in nodes : n.key \in Nat /\ n.key <= c
    <2>1. \A n \in nodes : n.key \in Nat
      BY DEF Types
    <2>2. QED
      BY <1>5, <1>6, <2>1
  <1>9. Reservable(keys.outcomes \cup Nodes)
    BY <1>7, <1>8 DEF Reservable, Nodes
  <1>10. QED
    BY <1>1, <1>3, <1>9 DEF keys, Nodes

\* What normalising makes of an anchor that names a decision.
LEMMA NormaliseFacts ==
    ASSUME NEW raw, raw # None, raw.decision = "stated",
           raw.options \in Seq(RawItem), raw.outcomes \in Seq(RawItem),
           NEW status \in {"draft", "confirmed"},
           NEW reserved, Reservable(reserved.options), Reservable(reserved.outcomes),
           NEW anchor, anchor = NormaliseAnchor(raw, status, reserved)
    PROVE  /\ SoundAnchor(anchor) /\ anchor.status = status
           /\ \A x \in ToSet(anchor.options) : x \in ToSet(raw.options) \/ x.key \notin reserved.options
           /\ \A x \in ToSet(anchor.outcomes) : x \in ToSet(raw.outcomes) \/ x.key \notin reserved.outcomes
  <1> DEFINE options == Keyed(raw.options, MaxOptions, reserved.options)
             outcomes == Keyed(raw.outcomes, MaxOutcomes, reserved.outcomes)
  <1>1. anchor = [decision |-> "stated", options |-> options, outcomes |-> outcomes, status |-> status]
    BY FrameAssumption DEF NormaliseAnchor
  <1>2. MaxOptions \in Nat /\ MaxOutcomes \in Nat
    BY AnchorAssumption
  <1>3. /\ options \in Seq(Item) /\ WellKeyed(options)
        /\ \A x \in ToSet(options) : x \in ToSet(raw.options) \/ x.key \notin reserved.options
    BY <1>2, KeyedFacts DEF Reservable
  <1>4. /\ outcomes \in Seq(Item) /\ WellKeyed(outcomes)
        /\ \A x \in ToSet(outcomes) : x \in ToSet(raw.outcomes) \/ x.key \notin reserved.outcomes
    BY <1>2, KeyedFacts DEF Reservable
  <1> HIDE DEF options, outcomes
  <1>5. QED
    BY <1>1, <1>3, <1>4 DEF SoundAnchor, Anchors

LEMMA KeptAndFresh ==
    ASSUME NEW old \in Seq(Item), NEW S, NEW adds, NEW n \in Nat,
           NEW list, list = Amended(old, S, adds, n)
    PROVE  /\ list \in Seq(RawItem)
           /\ \A x \in ToSet(list) : x \in ToSet(old) \/ x.key = Blank
  <1> DEFINE at == {i \in DOMAIN old : old[i].key \in S}
             kept == Picked(old, at)
             new == IF adds THEN Fresh(n) ELSE <<>>
  <1>1. at \subseteq DOMAIN old
    OBVIOUS
  <1>2. kept \in Seq(Item) /\ Len(kept) \in Nat /\ DOMAIN kept = 1..Len(kept)
    <2> HIDE DEF at
    <2>1. kept \in Seq(Item)
      BY <1>1, PickedFacts
    <2> HIDE DEF kept
    <2>2. QED
      BY <2>1
  <1>3. \A i \in 1..Len(kept) : kept[i] \in ToSet(old)
    <2>1. ASSUME NEW i \in 1..Len(kept) PROVE kept[i] \in ToSet(old)
      <3>1. PICK k \in at : kept[i] = old[k]
        <4> HIDE DEF at
        <4>1. QED
          BY <1>1, PickedIsIn
      <3>2. QED
        BY <1>1, <3>1 DEF ToSet
    <2>2. QED
      BY <2>1
  <1>4. new \in Seq(RawItem) /\ \A i \in 1..Len(new) : new[i].key = Blank
    <2>1. [key |-> Blank, item |-> n] \in RawItem
      BY DEF RawItem, Blank
    <2>2. CASE adds
      <3>1. PICK r \in RawItem : r = [key |-> Blank, item |-> n] /\ r.key = Blank
        BY <2>1
      <3>2. new = <<r>>
        BY <2>2, <3>1 DEF Fresh
      <3> HIDE DEF new
      <3>3. new \in Seq(RawItem) /\ Len(new) = 1 /\ new[1] = r
        BY <3>2
      <3>4. QED
        BY <3>1, <3>3
    <2>3. CASE ~adds
      BY <2>3
    <2>4. QED
      BY <2>2, <2>3
  <1>5. list = kept \o new
    BY DEF Kept, Amended
  <1> HIDE DEF kept, new, at
  <1>6. kept \in Seq(RawItem)
    <2>1. Item \subseteq RawItem
      BY DEF Item, RawItem
    <2>2. QED
      BY <1>2, <2>1, SeqMonotonic
  <1>7. /\ list \in Seq(RawItem) /\ Len(list) = Len(kept) + Len(new) /\ Len(new) \in Nat
        /\ \A i \in 1..(Len(kept) + Len(new)) :
             list[i] = IF i <= Len(kept) THEN kept[i] ELSE new[i - Len(kept)]
    <2>1. Len(new) \in Nat
      BY <1>4, LenProperties
    <2>2. /\ kept \o new \in Seq(RawItem) /\ Len(kept \o new) = Len(kept) + Len(new)
          /\ \A i \in 1..(Len(kept) + Len(new)) :
               (kept \o new)[i] = IF i <= Len(kept) THEN kept[i] ELSE new[i - Len(kept)]
      BY <1>4, <1>6, ConcatProperties
    <2>3. QED
      BY <1>5, <2>1, <2>2
  <1>8. ASSUME NEW x \in ToSet(list) PROVE x \in ToSet(old) \/ x.key = Blank
    <2>1. PICK i \in 1..(Len(kept) + Len(new)) : x = list[i]
      BY <1>7 DEF ToSet
    <2>2. CASE i <= Len(kept)
      <3>1. i \in 1..Len(kept) /\ x = kept[i]
        BY <1>2, <1>7, <2>1, <2>2
      <3>2. QED
        BY <1>3, <3>1
    <2>3. CASE ~(i <= Len(kept))
      <3>1. PICK j \in 1..Len(new) : j = i - Len(kept)
        BY <1>2, <1>7, <2>1, <2>3
      <3>2. x = new[j]
        BY <1>7, <2>1, <2>3, <3>1
      <3>3. QED
        BY <1>4, <3>1, <3>2
    <2>4. QED
      BY <2>2, <2>3
  <1>9. QED
    BY <1>7, <1>8

\* Of a list of an anchor, if there is one, or of none.
InAnchor(x, anchor, list) == anchor # None /\ x \in ToSet(list)

\* What a user may make of an anchor keeps the keys of the items that stay.
LEMMA EditFacts ==
    ASSUME NEW anchor, NoneOrSound(anchor), items \in Nat, NEW raw \in Edits(anchor)
    PROVE  /\ raw # None /\ raw.decision = "stated"
           /\ raw.options \in Seq(RawItem) /\ raw.outcomes \in Seq(RawItem)
           /\ \A x \in ToSet(raw.options) : x.key = Blank \/ InAnchor(x, anchor, anchor.options)
           /\ \A x \in ToSet(raw.outcomes) : x.key = Blank \/ InAnchor(x, anchor, anchor.outcomes)
  <1>1. PICK old : /\ old = IF anchor = None THEN Unworded ELSE anchor
                   /\ raw \in {Edited(old, o, y, option, outcome) :
                                 o \in SUBSET KeysOf(old.options), y \in SUBSET KeysOf(old.outcomes),
                                 option \in MayAdd, outcome \in MayAdd}
    BY DEF Edits
  <1>2. PICK o \in SUBSET KeysOf(old.options), y \in SUBSET KeysOf(old.outcomes), option \in MayAdd, outcome \in MayAdd : raw = Edited(old, o, y, option, outcome)
    BY <1>1
  <1>3. /\ old.options \in Seq(Item) /\ old.outcomes \in Seq(Item)
        /\ \A x \in ToSet(old.options) : InAnchor(x, anchor, anchor.options)
        /\ \A x \in ToSet(old.outcomes) : InAnchor(x, anchor, anchor.outcomes)
    <2>1. CASE anchor = None
      BY <1>1, <2>1 DEF ToSet, Unworded
    <2>2. CASE SoundAnchor(anchor)
      <3>1. anchor # None /\ anchor.options \in Seq(Item) /\ anchor.outcomes \in Seq(Item)
        BY <2>2, AnchorFacts
      <3>2. QED
        BY <1>1, <3>1 DEF InAnchor
    <2>3. QED
      BY <2>1, <2>2 DEF NoneOrSound
  <1>4. PICK n \in Nat, m \in Nat : n = items + 1 /\ m = items + 2
    OBVIOUS
  <1>5. /\ raw.decision = "stated"
        /\ raw.options = Amended(old.options, o, option, n)
        /\ raw.outcomes = Amended(old.outcomes, y, outcome, m)
        /\ raw = [decision |-> raw.decision, options |-> raw.options, outcomes |-> raw.outcomes]
    BY <1>2, <1>4 DEF Edited
  <1>6. option \in BOOLEAN /\ outcome \in BOOLEAN
    BY DEF MayAdd
  <1>7. /\ raw.options \in Seq(RawItem)
        /\ \A x \in ToSet(raw.options) : x \in ToSet(old.options) \/ x.key = Blank
    BY <1>3, <1>4, <1>5, <1>6, KeptAndFresh
  <1>8. /\ raw.outcomes \in Seq(RawItem)
        /\ \A x \in ToSet(raw.outcomes) : x \in ToSet(old.outcomes) \/ x.key = Blank
    BY <1>3, <1>4, <1>5, <1>6, KeptAndFresh
  <1>9. raw \in [decision : {None, "stated"}, options : Seq(RawItem), outcomes : Seq(RawItem)]
    BY <1>5, <1>7, <1>8
  <1>10. QED
    BY <1>3, <1>5, <1>7, <1>8, <1>9, NoneIsNone DEF NotARecord

\* The items of a list that is keyed, by their keys.
LEMMA MembersFacts ==
    ASSUME NEW list \in Seq(Item)
    PROVE  /\ \A x \in ToSet(list) : x \in Item /\ x.key # Blank
           /\ WellKeyed(list) => \A x, y \in ToSet(list) : x.key = y.key => x = y
           /\ \E bound \in Nat : \A x \in ToSet(list) : x.key <= bound
  <1>1. Len(list) \in Nat /\ DOMAIN list = 1..Len(list)
    OBVIOUS
  <1>2. \A i \in 1..Len(list) : list[i] \in Item
    OBVIOUS
  <1>3. \A x \in ToSet(list) : \E i \in 1..Len(list) : x = list[i]
    BY <1>1 DEF ToSet
  <1>4. \A x \in ToSet(list) : x \in Item /\ x.key # Blank
    BY <1>2, <1>3 DEF Item
  <1>5. ASSUME WellKeyed(list), NEW x \in ToSet(list), NEW y \in ToSet(list), x.key = y.key
        PROVE  x = y
    <2>1. PICK i \in 1..Len(list) : x = list[i]
      BY <1>3
    <2>2. PICK j \in 1..Len(list) : y = list[j]
      BY <1>3
    <2>3. i = j
      BY <1>5, <2>1, <2>2 DEF WellKeyed
    <2>4. QED
      BY <2>1, <2>2, <2>3
  <1>6. PICK bound \in Nat : \A k \in KeysOf(list) : k <= bound
    BY KeysOfFacts DEF Reservable
  <1>7. \A x \in ToSet(list) : x.key \in KeysOf(list)
    BY <1>1, <1>3 DEF KeysOf
  <1>8. QED
    BY <1>4, <1>5, <1>6, <1>7

\* A user's anchor, saved: an item of it is of the stored anchor, or its key is
\* not reserved.
LEMMA SaveFacts ==
    ASSUME NEW stored, NoneOrSound(stored), items \in Nat, NEW raw \in Edits(stored),
           NEW reserved, Reservable(reserved.options), Reservable(reserved.outcomes),
           NEW anchor, anchor = NormaliseAnchor(raw, "confirmed", reserved)
    PROVE  /\ SoundAnchor(anchor) /\ anchor.status = "confirmed"
           /\ \A x \in ToSet(anchor.options) :
                InAnchor(x, stored, stored.options) \/ x.key \notin reserved.options
           /\ \A x \in ToSet(anchor.outcomes) :
                InAnchor(x, stored, stored.outcomes) \/ x.key \notin reserved.outcomes
  <1>1. /\ raw # None /\ raw.decision = "stated"
        /\ raw.options \in Seq(RawItem) /\ raw.outcomes \in Seq(RawItem)
        /\ \A x \in ToSet(raw.options) : x.key = Blank \/ InAnchor(x, stored, stored.options)
        /\ \A x \in ToSet(raw.outcomes) : x.key = Blank \/ InAnchor(x, stored, stored.outcomes)
    BY EditFacts
  <1>2. /\ SoundAnchor(anchor) /\ anchor.status = "confirmed"
        /\ \A x \in ToSet(anchor.options) : x \in ToSet(raw.options) \/ x.key \notin reserved.options
        /\ \A x \in ToSet(anchor.outcomes) : x \in ToSet(raw.outcomes) \/ x.key \notin reserved.outcomes
    BY <1>1, NormaliseFacts
  <1>3. \A x \in ToSet(anchor.options) : x.key # Blank
    BY <1>2, AnchorFacts, MembersFacts
  <1>4. \A x \in ToSet(anchor.outcomes) : x.key # Blank
    BY <1>2, AnchorFacts, MembersFacts
  <1>5. QED
    BY <1>1, <1>2, <1>3, <1>4

\* What a model makes of an objective is no anchor or a sound one.
LEMMA DraftFacts ==
    ASSUME NEW objective \in {None, "stated"}, items \in Nat, NEW answer \in Drafts,
           NEW draft, draft = DraftAnchor(objective, answer)
    PROVE  NoneOrSound(draft)
  <1>1. Reservable(Nothing.options) /\ Reservable(Nothing.outcomes)
    BY DEF Reservable, Nothing
  <1>2. ASSUME NEW raw, raw \in [decision : {None, "stated"}, options : Seq(RawItem), outcomes : Seq(RawItem)]
        PROVE  NoneOrSound(NormaliseAnchor(raw, "draft", Nothing))
    <2>1. raw # None /\ raw.options \in Seq(RawItem) /\ raw.outcomes \in Seq(RawItem)
      BY <1>2, NoneIsNone DEF NotARecord
    <2>2. CASE raw.decision = None
      BY <2>1, <2>2 DEF NormaliseAnchor, NoneOrSound
    <2>3. CASE raw.decision = "stated"
      BY <1>1, <2>1, <2>3, NormaliseFacts DEF NoneOrSound
    <2>4. QED
      BY <1>2, <2>2, <2>3
  <1>3. <<>> \in Seq(RawItem)
    OBVIOUS
  <1>4. NoneOrSound(NormaliseAnchor([decision |-> objective, options |-> <<>>, outcomes |-> <<>>], "draft", Nothing))
    BY <1>2, <1>3
  <1>5. PICK n \in Nat, m \in Nat : n = items + 1 /\ m = items + 2
    OBVIOUS
  <1>6. Fresh(n) \in Seq(RawItem) /\ Fresh(m) \in Seq(RawItem)
    BY DEF Fresh, RawItem, Blank
  <1>7. answer # None => NoneOrSound(NormaliseAnchor(answer, "draft", Nothing))
    <2>1. CASE answer = None
      BY <2>1
    <2>2. CASE answer = [decision |-> None, options |-> <<>>, outcomes |-> <<>>]
      BY <1>2, <1>3, <2>2
    <2>3. CASE answer = [decision |-> "stated", options |-> Fresh(n), outcomes |-> Fresh(m)]
      BY <1>2, <1>6, <2>3
    <2>4. QED
      BY <1>5, <2>1, <2>2, <2>3 DEF Drafts
  <1>8. NoneOrSound(None)
    BY DEF NoneOrSound
  <1> DEFINE named == NormaliseAnchor(answer, "draft", Nothing)
             bare == NormaliseAnchor([decision |-> objective, options |-> <<>>, outcomes |-> <<>>],
                                     "draft", Nothing)
  <1>9. draft = None \/ draft = named \/ draft = bare
    BY DEF DraftAnchor
  <1> HIDE DEF named, bare
  <1>10. answer = None => draft = None
    BY DEF DraftAnchor
  <1>11. QED
    BY <1>4, <1>7, <1>8, <1>9, <1>10 DEF named, bare

\* The items worded so far stay a number.
LEMMA WordedFacts ==
    ASSUME NEW anchor, SoundAnchor(anchor), items \in Nat
    PROVE  Worded(anchor) \in Nat
  <1>1. anchor.options \in Seq(Item) /\ anchor.outcomes \in Seq(Item)
    BY AnchorFacts
  <1>2. ASSUME NEW list \in Seq(Item)
        PROVE  \E bound \in Nat : \A x \in ToSet(list) : x.item \in Nat /\ x.item <= bound
    <2> DEFINE f == [i \in 1..Len(list) |-> list[i].item]
    <2>1. Len(list) \in Nat /\ DOMAIN list = 1..Len(list)
      OBVIOUS
    <2>2. \A i \in 1..Len(list) : list[i] \in Item
      OBVIOUS
    <2>3. \A i \in 1..Len(list) : f[i] \in Nat /\ f[i] = list[i].item
      BY <2>2 DEF Item
    <2> HIDE DEF f
    <2>4. PICK bound \in Nat : \A i \in 1..Len(list) : f[i] <= bound
      BY <2>1, <2>3, BoundExists
    <2>5. ASSUME NEW x \in ToSet(list) PROVE x.item \in Nat /\ x.item <= bound
      <3>1. PICK i \in 1..Len(list) : x = list[i]
        BY <2>1 DEF ToSet
      <3>2. QED
        BY <2>3, <2>4, <3>1
    <2>6. QED
      BY <2>5
  <1>3. PICK a \in Nat : \A x \in ToSet(anchor.options) : x.item \in Nat /\ x.item <= a
    BY <1>1, <1>2
  <1>4. PICK b \in Nat : \A x \in ToSet(anchor.outcomes) : x.item \in Nat /\ x.item <= b
    BY <1>1, <1>2
  <1>5. PICK c \in Nat : a <= c /\ b <= c /\ items <= c
    OBVIOUS
  <1> DEFINE S == {items} \cup ItemsOf(anchor)
  <1>6. ASSUME NEW n \in S PROVE n \in Nat /\ n <= c
    <2>1. CASE n = items
      BY <1>5, <2>1
    <2>2. CASE n # items
      <3>1. PICK x \in ToSet(anchor.options) \cup ToSet(anchor.outcomes) : n = x.item
        BY <1>6, <2>2 DEF ItemsOf
      <3>2. n \in Nat /\ (n <= a \/ n <= b)
        BY <1>3, <1>4, <3>1
      <3>3. QED
        BY <1>5, <3>2
    <2>3. QED
      BY <2>1, <2>2
  <1>7. items \in S
    OBVIOUS
  <1>8. Worded(anchor) = Max(S)
    BY DEF Worded
  <1> HIDE DEF S
  <1>9. S \subseteq Nat /\ S # {}
    BY <1>6, <1>7
  <1>10. Max(S) \in S
    BY <1>6, <1>9, MaxFacts
  <1>11. QED
    BY <1>8, <1>9, <1>10

-----------------------------------------------------------------------------
(* The steps *)

LEMMA InitMeaning == Init => Meaning
  <1> SUFFICES ASSUME Init PROVE Meaning
    OBVIOUS
  <1>1. PICK material, objective :
          /\ objective \in {None, "stated"}
          /\ project = [material |-> material, status |-> "pending", objective |-> objective,
                        anchor |-> None, context |-> {}]
    BY DEF Init
  <1>2. Types
    BY <1>1 DEF Init, Types, NoneOrSound
  <1>3. NodesBounded
    BY DEF Init, NodesBounded
  <1>4. NothingYet /\ InLine
    BY DEF Init, NothingYet, InLine
  <1>5. NodesMean /\ BearsMean
    BY DEF Init, NodesMean, BearsMean
  <1>6. QED
    BY <1>2, <1>3, <1>4, <1>5 DEF Meaning

\* As long as there is nothing on the graph, its meaning cannot be lost.
LEMMA NothingToLose ==
    ASSUME nodes' = {}, bears' = {}
    PROVE  NodesBounded' /\ NodesMean' /\ BearsMean'
  BY DEF NodesBounded, NodesMean, BearsMean

LEMMA MeaningStartAnalysis == Meaning /\ StartAnalysis => Meaning'
  <1> SUFFICES ASSUME Meaning, StartAnalysis PROVE Meaning'
    OBVIOUS
  <1> USE DEF Meaning
  <1>1. PICK answers, raw, anchor :
          /\ raw \in {None} \cup Edits(project.anchor)
          /\ anchor = NormaliseAnchor(raw, "confirmed", AnchorKeys(project.anchor))
          /\ project' = [project EXCEPT !.status = "processing", !.context = RenderAnswers(questions'),
                           !.anchor = IF anchor = None THEN @ ELSE anchor,
                           !.objective = IF anchor = None THEN @ ELSE anchor.decision]
          /\ items' = IF anchor = None THEN items ELSE Worded(anchor)
    BY DEF StartAnalysis
  <1>2. NoneOrSound(anchor)
    <2>1. CASE raw = None
      BY <1>1, <2>1 DEF NormaliseAnchor, NoneOrSound
    <2>2. CASE raw \in Edits(project.anchor)
      <3>1. Reservable(AnchorKeys(project.anchor).options) /\ Reservable(AnchorKeys(project.anchor).outcomes)
        BY AnchorKeysFacts DEF Types
      <3>2. QED
        BY <1>1, <2>2, <3>1, SaveFacts DEF Types, NoneOrSound
    <2>3. QED
      BY <1>1, <2>1, <2>2
  <1>3. /\ DOMAIN project' = DOMAIN project
        /\ project'.anchor = IF anchor = None THEN project.anchor ELSE anchor
        /\ project'.objective = IF anchor = None THEN project.objective ELSE anchor.decision
    BY <1>1 DEF Types
  <1>4. items' \in Nat
    BY <1>1, <1>2, WordedFacts DEF Types, NoneOrSound
  <1>5. anchor # None => anchor.decision = "stated"
    BY <1>2, AnchorFacts DEF NoneOrSound
  <1>6. /\ run.phase = "none" /\ run' = [run EXCEPT !.phase = "queued"]
        /\ UNCHANGED <<drafting, saving, nodes, bears, strayed, lapsed>>
    BY DEF StartAnalysis, graph
  <1>7. /\ DOMAIN run' = DOMAIN run /\ run'.phase = "queued" /\ run'.anchor = run.anchor
        /\ nodes' = {} /\ bears' = {} /\ saving'.phase = "idle"
    BY <1>6 DEF Types, NothingYet
  <1>8. Types'
    BY <1>2, <1>3, <1>4, <1>5, <1>6, <1>7 DEF Types, NoneOrSound
  <1>9. NothingYet' /\ InLine'
    BY <1>7 DEF NothingYet, InLine
  <1>10. QED
    BY <1>7, <1>8, <1>9, NothingToLose

LEMMA MeaningStoreDraft == Meaning /\ StoreDraft => Meaning'
  <1> SUFFICES ASSUME Meaning, StoreDraft PROVE Meaning'
    OBVIOUS
  <1> USE DEF Meaning
  <1>1. /\ drafting' = [phase |-> "idle", objective |-> None, confirmed |-> FALSE]
        /\ UNCHANGED <<run, saving, nodes, bears, lapsed>>
    BY DEF StoreDraft, graph
  <1>2. CASE UNCHANGED <<project, items, strayed>>
    BY <1>1, <1>2 DEF Types, NodesBounded, NothingYet, InLine, NodesMean, BearsMean
  <1>3. CASE ~UNCHANGED <<project, items, strayed>>
    <2>1. PICK answer, draft :
            /\ answer \in Drafts
            /\ draft = DraftAnchor(drafting.objective, answer) /\ draft # None
            /\ project' = [project EXCEPT !.anchor = draft] /\ items' = Worded(draft)
            /\ strayed' = (strayed \/ run.phase # "none")
      BY <1>3 DEF StoreDraft
    <2>2. SoundAnchor(draft)
      BY <2>1, DraftFacts DEF Types, NoneOrSound
    <2>3. /\ DOMAIN project' = DOMAIN project /\ project'.anchor = draft
          /\ project'.objective = project.objective
      BY <2>1 DEF Types
    <2>4. items' \in Nat
      BY <2>1, <2>2, WordedFacts DEF Types
    <2>5. Types'
      BY <1>1, <2>2, <2>3, <2>4 DEF Types, NoneOrSound
    <2>6. NodesBounded' /\ NothingYet'
      BY <1>1 DEF NodesBounded, NothingYet
    <2>7. CASE run.phase = "none"
      <3>1. nodes' = {} /\ bears' = {} /\ saving'.phase = "idle" /\ run'.phase = "none"
        BY <1>1, <2>7 DEF NothingYet
      <3>2. QED
        BY <2>5, <2>6, <3>1, NothingToLose DEF InLine
    <2>8. CASE run.phase # "none"
      BY <2>1, <2>5, <2>6, <2>8 DEF InLine, NodesMean, BearsMean
    <2>9. QED
      BY <2>7, <2>8
  <1>4. QED
    BY <1>2, <1>3

LEMMA MeaningSetDecisionObjective == Meaning /\ SetDecisionObjective("stated") => Meaning'
  <1> SUFFICES ASSUME Meaning, SetDecisionObjective("stated") PROVE Meaning'
    OBVIOUS
  <1> USE DEF Meaning
  <1>1. /\ project' = [project EXCEPT !.objective = "stated",
                         !.anchor = IF @ = None \/ "stated" = None THEN @ ELSE [@ EXCEPT !.decision = "stated"]]
        /\ UNCHANGED <<drafting, run, saving, nodes, bears, items, strayed, lapsed>>
    BY DEF SetDecisionObjective, graph, bounds
  <1>2. /\ DOMAIN project' = DOMAIN project /\ project'.objective = "stated"
        /\ project.anchor = None => project'.anchor = None
        /\ project.anchor # None => project'.anchor = [project.anchor EXCEPT !.decision = "stated"]
    BY <1>1, FrameAssumption DEF Types
  <1>3. project.anchor # None => /\ SoundAnchor(project'.anchor) /\ project'.anchor # None
                                 /\ project'.anchor.options = project.anchor.options
                                 /\ project'.anchor.outcomes = project.anchor.outcomes
    <2>1. CASE project.anchor # None
      <3>1. SoundAnchor(project.anchor)
        BY <2>1 DEF Types, NoneOrSound
      <3>2. PICK a : a = project.anchor
        OBVIOUS
      <3>3. /\ SoundAnchor([a EXCEPT !.decision = "stated"])
            /\ [a EXCEPT !.decision = "stated"].options = a.options
            /\ [a EXCEPT !.decision = "stated"].outcomes = a.outcomes
        BY <3>1, <3>2 DEF SoundAnchor, Anchors
      <3>4. QED
        BY <1>2, <2>1, <3>2, <3>3, AnchorFacts
    <2>2. QED
      BY <2>1
  <1>4. Types'
    BY <1>1, <1>2, <1>3 DEF Types, NoneOrSound
  <1>5. NodesBounded' /\ NothingYet'
    BY <1>1 DEF NodesBounded, NothingYet
  <1>6. InLine'
    BY <1>1, <1>2, <1>3 DEF InLine, SameItems
  <1>7. NodesMean' /\ BearsMean'
    BY <1>1, <1>2, <1>3 DEF NodesMean, BearsMean
  <1>8. QED
    BY <1>4, <1>5, <1>6, <1>7

\* New items have keys that nothing on the graph has.
LEMMA MeaningSaveAnchor == Meaning /\ SaveAnchor => Meaning'
  <1> SUFFICES ASSUME Meaning, SaveAnchor PROVE Meaning'
    OBVIOUS
  <1> USE DEF Meaning
  <1>1. PICK raw, anchor :
          /\ raw \in Edits(project.anchor)
          /\ anchor = NormaliseAnchor(raw, "confirmed", UsedKeys)
          /\ project' = [project EXCEPT !.anchor = anchor, !.objective = anchor.decision]
          /\ items' = Worded(anchor)
          /\ saving' = IF run.phase # "done" THEN saving
                       ELSE [phase |-> "saved", anchor |-> anchor,
                             changes |-> ~SameContent(project.anchor, anchor)]
    BY DEF SaveAnchor
  <1>2. /\ saving.phase = "idle" /\ strayed' = (strayed \/ run.phase \in {"queued", "drafting", "extracting"})
        /\ UNCHANGED <<drafting, run, nodes, bears, lapsed>>
    BY DEF SaveAnchor, graph
  <1>3. /\ Reservable(UsedKeys.options) /\ Reservable(UsedKeys.outcomes)
        /\ UsedKeys.options = AnchorKeys(project.anchor).options
        /\ \A n \in nodes : n.key \in UsedKeys.outcomes
    BY UsedKeysFacts
  <1>4. /\ SoundAnchor(anchor)
        /\ \A x \in ToSet(anchor.options) :
             InAnchor(x, project.anchor, project.anchor.options) \/ x.key \notin UsedKeys.options
        /\ \A x \in ToSet(anchor.outcomes) :
             InAnchor(x, project.anchor, project.anchor.outcomes) \/ x.key \notin UsedKeys.outcomes
    BY <1>1, <1>3, SaveFacts DEF Types
  <1>5. anchor # None /\ anchor.decision = "stated"
    BY <1>4, AnchorFacts
  <1>6. /\ DOMAIN project' = DOMAIN project /\ project'.anchor = anchor /\ project'.objective = "stated"
    BY <1>1, <1>5 DEF Types
  <1>7. items' \in Nat
    BY <1>1, <1>4, WordedFacts DEF Types
  <1>8. /\ run.phase = "done" => /\ saving'.phase = "saved" /\ saving'.anchor = anchor
                                 /\ saving'.changes = ~SameContent(project.anchor, anchor)
                                 /\ saving'.changes \in BOOLEAN
                                 /\ DOMAIN saving' = {"phase", "anchor", "changes"}
        /\ run.phase # "done" => saving' = saving
    BY <1>1
  <1>9. Types'
    BY <1>2, <1>4, <1>6, <1>7, <1>8 DEF Types, NoneOrSound
  <1>10. NodesBounded' /\ NothingYet'
    BY <1>2, <1>8 DEF NodesBounded, NothingYet
  <1>11. InLine'
    <2>1. CASE strayed'
      BY <2>1 DEF InLine
    <2>2. CASE ~strayed' /\ run.phase = "none"
      BY <1>2, <1>8, <2>2 DEF InLine
    <2>3. CASE ~strayed' /\ run.phase = "done"
      BY <1>2, <1>5, <1>6, <1>8, <2>3 DEF InLine, SameItems
    <2>4. QED
      BY <1>2, <2>1, <2>2, <2>3 DEF Types
  <1>12. NodesMean'
    <2>1. ASSUME ~strayed', NEW n \in nodes, NEW y \in ToSet(anchor.outcomes), n.key = y.key
          PROVE  n.item = y.item
      <3>1. n.key \in UsedKeys.outcomes
        BY <1>3
      <3>2. project.anchor # None /\ y \in ToSet(project.anchor.outcomes)
        BY <1>4, <2>1, <3>1 DEF InAnchor
      <3>3. QED
        BY <1>2, <2>1, <3>2 DEF NodesMean
    <2>2. QED
      BY <1>2, <1>6, <2>1 DEF NodesMean
  <1>13. BearsMean'
    <2>1. ASSUME ~strayed', ~lapsed'
          PROVE  project.anchor = None => bears = {}
      BY <1>2, <2>1 DEF BearsMean
    <2>2. ASSUME ~strayed', ~lapsed', project.anchor # None
          PROVE  bears \subseteq ToSet(project.anchor.options)
      BY <1>2, <2>2 DEF BearsMean
    <2>3. ASSUME ~strayed', ~lapsed', saving'.phase = "idle" \/ ~saving'.changes
          PROVE  bears \subseteq ToSet(anchor.options)
      <3>1. CASE run.phase # "done"
        BY <3>1 DEF NothingYet
      <3>2. CASE run.phase = "done"
        <4>1. SameContent(project.anchor, anchor)
          BY <1>8, <2>3, <3>2
        <4>2. /\ project.anchor # None
              /\ [project.anchor EXCEPT !.status = anchor.status] = anchor
          BY <1>5, <4>1 DEF SameContent
        <4>3. SoundAnchor(project.anchor)
          BY <4>2 DEF Types, NoneOrSound
        <4>4. PICK a : a = project.anchor
          OBVIOUS
        <4>5. [a EXCEPT !.status = anchor.status].options = a.options
          BY <4>3, <4>4 DEF SoundAnchor, Anchors
        <4>6. anchor.options = project.anchor.options
          BY <4>2, <4>4, <4>5
        <4>7. QED
          BY <2>2, <2>3, <4>2, <4>6
      <3>3. QED
        BY <3>1, <3>2
    <2>4. ASSUME ~strayed', ~lapsed', NEW b \in bears, NEW o \in ToSet(anchor.options), b.key = o.key
          PROVE  b.item = o.item
      <3>1. project.anchor # None /\ b \in ToSet(project.anchor.options)
        BY <2>1, <2>2, <2>4
      <3>2. b.key \in KeysOf(project.anchor.options)
        BY <3>1 DEF KeysOf, ToSet
      <3>3. b.key \in UsedKeys.options
        BY <1>3, <3>1, <3>2 DEF AnchorKeys
      <3>4. o \in ToSet(project.anchor.options)
        BY <1>4, <2>4, <3>3 DEF InAnchor
      <3>5. QED
        BY <1>2, <2>4, <3>1, <3>4 DEF BearsMean
    <2>5. QED
      BY <1>2, <1>5, <1>6, <2>3, <2>4 DEF BearsMean
  <1>14. QED
    BY <1>9, <1>10, <1>11, <1>12, <1>13

\* The nodes of the outcomes of an anchor.
LEMMA NodesOf ==
    ASSUME NEW anchor, SoundAnchor(anchor), NEW S, S \subseteq ToSet(anchor.outcomes)
    PROVE  /\ {Node(y) : y \in S} \subseteq [key : Nat, item : Nat, active : BOOLEAN]
           /\ \E bound \in Nat : \A n \in {Node(y) : y \in S} : n.key <= bound
           /\ \A n \in {Node(y) : y \in S}, x \in ToSet(anchor.outcomes) : n.key = x.key => n.item = x.item
  <1>1. anchor.outcomes \in Seq(Item) /\ WellKeyed(anchor.outcomes)
    BY AnchorFacts DEF SoundAnchor
  <1>2. /\ \A x \in ToSet(anchor.outcomes) : x \in Item
        /\ \A x, y \in ToSet(anchor.outcomes) : x.key = y.key => x = y
    BY <1>1, MembersFacts
  <1>3. PICK bound \in Nat : \A x \in ToSet(anchor.outcomes) : x.key <= bound
    BY <1>1, MembersFacts
  <1>4. ASSUME NEW y \in S
        PROVE  /\ Node(y) \in [key : Nat, item : Nat, active : BOOLEAN]
               /\ Node(y).key = y.key /\ Node(y).item = y.item
    <2>1. y \in Item
      BY <1>2
    <2>2. QED
      BY <2>1 DEF Node, Item
  <1>5. \A n \in {Node(y) : y \in S} : n.key <= bound
    BY <1>3, <1>4
  <1>6. \A n \in {Node(y) : y \in S}, x \in ToSet(anchor.outcomes) : n.key = x.key => n.item = x.item
    BY <1>2, <1>4
  <1>7. QED
    BY <1>4, <1>5, <1>6

LEMMA MeaningSyncOutcomeNodes == Meaning /\ SyncOutcomeNodes => Meaning'
  <1> SUFFICES ASSUME Meaning, SyncOutcomeNodes PROVE Meaning'
    OBVIOUS
  <1> USE DEF Meaning
  <1> DEFINE wanted == ToSet(saving.anchor.outcomes)
             kept == {m \in nodes : m.key \notin {y.key : y \in wanted}}
             made == {Node(y) : y \in wanted}
             rest == {[n EXCEPT !.active = FALSE] : n \in kept}
  <1>1. /\ saving.phase = "saved" /\ nodes' = made \cup rest
        /\ saving' = [saving EXCEPT !.phase = IF saving.changes THEN "scoring" ELSE "idle"]
        /\ UNCHANGED <<project, drafting, run, bears, items, strayed, lapsed>>
    BY DEF SyncOutcomeNodes, bounds
  <1>2. SoundAnchor(saving.anchor)
    BY <1>1 DEF Types
  <1>3. /\ made \subseteq [key : Nat, item : Nat, active : BOOLEAN]
        /\ \E bound \in Nat : \A n \in made : n.key <= bound
        /\ \A n \in made, x \in wanted : n.key = x.key => n.item = x.item
    BY <1>2, NodesOf
  <1>4. ASSUME NEW n \in rest
        PROVE  /\ n \in [key : Nat, item : Nat, active : BOOLEAN]
               /\ \E m \in nodes : m.key = n.key /\ m.item = n.item
    <2>1. PICK m \in nodes : n = [m EXCEPT !.active = FALSE]
      OBVIOUS
    <2>2. m \in [key : Nat, item : Nat, active : BOOLEAN]
      BY DEF Types
    <2>3. QED
      BY <2>1, <2>2
  <1> HIDE DEF wanted, made, rest
  <1>5. /\ DOMAIN saving' = DOMAIN saving /\ saving'.phase \in {"scoring", "idle"}
        /\ saving'.phase = "idle" => ~saving.changes
        /\ saving'.anchor = saving.anchor /\ saving'.changes = saving.changes
    BY <1>1 DEF Types
  <1>6. Types'
    <2>1. nodes' \subseteq [key : Nat, item : Nat, active : BOOLEAN]
      BY <1>1, <1>3, <1>4
    <2>2. QED
      BY <1>1, <1>2, <1>5, <2>1 DEF Types
  <1>7. NodesBounded'
    <2>1. PICK a \in Nat : \A n \in made : n.key <= a
      BY <1>3
    <2>2. PICK b \in Nat : \A n \in nodes : n.key <= b
      BY DEF NodesBounded
    <2>3. PICK c \in Nat : a <= c /\ b <= c
      OBVIOUS
    <2>4. \A n \in made : n.key \in Nat /\ n.key <= c
      BY <1>3, <2>1, <2>3
    <2>5. \A n \in nodes : n.key \in Nat /\ n.key <= c
      <3>1. \A n \in nodes : n.key \in Nat
        BY DEF Types
      <3>2. QED
        BY <2>2, <2>3, <3>1
    <2>6. \A n \in rest : n.key <= c
      BY <1>4, <2>5
    <2>7. QED
      BY <1>1, <2>4, <2>6 DEF NodesBounded
  <1>8. NothingYet'
    BY <1>1 DEF NothingYet
  <1>9. InLine'
    BY <1>1, <1>5 DEF InLine
  <1>10. NodesMean'
    <2>1. ASSUME ~strayed, project.anchor # None, NEW n \in nodes',
                 NEW y \in ToSet(project.anchor.outcomes), n.key = y.key
          PROVE  n.item = y.item
      <3>1. wanted = ToSet(project.anchor.outcomes)
        BY <1>1, <2>1 DEF InLine, SameItems, wanted
      <3>2. CASE n \in made
        BY <1>3, <2>1, <3>1, <3>2
      <3>3. CASE n \in rest
        <4>1. PICK m \in nodes : m.key = n.key /\ m.item = n.item
          BY <1>4, <3>3
        <4>2. QED
          BY <2>1, <4>1 DEF NodesMean
      <3>4. QED
        BY <1>1, <2>1, <3>2, <3>3
    <2>2. QED
      BY <1>1, <2>1 DEF NodesMean
  <1>11. BearsMean'
    BY <1>1, <1>5 DEF BearsMean
  <1>12. QED
    BY <1>6, <1>7, <1>8, <1>9, <1>10, <1>11

\* Options a claim is scored by, of an anchor: with their meaning in it.
LEMMA ScoresMean ==
    ASSUME NEW anchor, SoundAnchor(anchor), NEW named, NEW bearing, bearing = CleanClaimScores(anchor, named)
    PROVE  /\ bearing \subseteq ToSet(anchor.options)
           /\ \A b \in bearing, o \in ToSet(anchor.options) : b.key = o.key => b.item = o.item
  <1>1. anchor.options \in Seq(Item) /\ WellKeyed(anchor.options)
    BY AnchorFacts DEF SoundAnchor
  <1>2. \A x, y \in ToSet(anchor.options) : x.key = y.key => x = y
    BY <1>1, MembersFacts
  <1>3. QED
    BY <1>2 DEF CleanClaimScores

LEMMA MeaningRescoreClaims == Meaning /\ RescoreClaims => Meaning'
  <1> SUFFICES ASSUME Meaning, RescoreClaims PROVE Meaning'
    OBVIOUS
  <1> USE DEF Meaning
  <1>1. /\ saving.phase = "scoring" /\ saving' = [saving EXCEPT !.phase = "idle"]
        /\ UNCHANGED <<project, drafting, run, nodes, items, strayed>>
        /\ lapsed' \/ \E named \in SUBSET KeysOf(saving.anchor.options) :
                        bears' = CleanClaimScores(saving.anchor, named) /\ lapsed' = lapsed
    BY DEF RescoreClaims
  <1>2. /\ DOMAIN saving' = DOMAIN saving /\ saving'.phase = "idle" /\ saving'.changes = saving.changes
    BY <1>1 DEF Types
  <1>3. Types'
    BY <1>1, <1>2 DEF Types
  <1>4. NodesBounded' /\ NodesMean'
    BY <1>1 DEF NodesBounded, NodesMean
  <1>5. NothingYet' /\ InLine'
    BY <1>1, <1>2 DEF NothingYet, InLine
  <1>6. BearsMean'
    <2>1. CASE lapsed' \/ strayed
      BY <1>1, <2>1 DEF BearsMean
    <2>2. CASE ~lapsed' /\ ~strayed
      <3>1. SoundAnchor(saving.anchor)
        BY <1>1 DEF Types
      <3>2. PICK named : bears' = CleanClaimScores(saving.anchor, named)
        BY <1>1, <2>2
      <3>3. /\ bears' \subseteq ToSet(saving.anchor.options)
            /\ \A b \in bears', o \in ToSet(saving.anchor.options) : b.key = o.key => b.item = o.item
        BY <3>1, <3>2, ScoresMean
      <3>4. project.anchor # None /\ saving.anchor.options = project.anchor.options
        BY <1>1, <2>2, <3>1, AnchorFacts DEF InLine, SameItems
      <3>5. QED
        BY <1>1, <3>3, <3>4 DEF BearsMean
    <2>3. QED
      BY <2>1, <2>2
  <1>7. QED
    BY <1>3, <1>4, <1>5, <1>6

LEMMA MeaningBreakOff == Meaning /\ BreakOff => Meaning'
  <1> SUFFICES ASSUME Meaning, BreakOff PROVE Meaning'
    OBVIOUS
  <1> USE DEF Meaning
  <1>1. /\ saving.phase # "idle" /\ saving' = [saving EXCEPT !.phase = "idle"] /\ lapsed' = TRUE
        /\ UNCHANGED <<project, drafting, run, nodes, bears, items, strayed>>
    BY DEF BreakOff, graph
  <1>2. DOMAIN saving' = DOMAIN saving /\ saving'.phase = "idle" /\ saving'.changes = saving.changes
    BY <1>1 DEF Types
  <1>3. Types'
    BY <1>1, <1>2 DEF Types
  <1>4. QED
    BY <1>1, <1>2, <1>3 DEF NodesBounded, NothingYet, InLine, NodesMean, BearsMean

LEMMA MeaningResolveAnchor == Meaning /\ ResolveAnchor => Meaning'
  <1> SUFFICES ASSUME Meaning, ResolveAnchor PROVE Meaning'
    OBVIOUS
  <1> USE DEF Meaning
  <1>1. /\ run.phase = "queued"
        /\ run' = [anchor |-> project.anchor,
                   phase |-> IF project.anchor = None /\ project.objective # None THEN "drafting"
                             ELSE "extracting"]
        /\ UNCHANGED <<project, drafting, saving, nodes, bears, items, strayed, lapsed>>
    BY DEF ResolveAnchor, graph, bounds
  <1>2. /\ DOMAIN run' = {"phase", "anchor"} /\ run'.anchor = project.anchor
        /\ run'.phase \in {"drafting", "extracting"}
        /\ nodes' = {} /\ bears' = {} /\ saving'.phase = "idle"
    BY <1>1 DEF NothingYet
  <1>3. Types'
    BY <1>1, <1>2 DEF Types
  <1>4. NothingYet' /\ InLine'
    BY <1>1, <1>2 DEF NothingYet, InLine, SameItems
  <1>5. QED
    BY <1>2, <1>3, <1>4, NothingToLose

LEMMA MeaningDraftForRun == Meaning /\ DraftForRun => Meaning'
  <1> SUFFICES ASSUME Meaning, DraftForRun PROVE Meaning'
    OBVIOUS
  <1> USE DEF Meaning
  <1>1. PICK answer, draft :
          /\ answer \in Drafts
          /\ draft = DraftAnchor("stated", answer)
          /\ run' = [phase |-> "extracting", anchor |-> draft]
          /\ project' = [project EXCEPT !.anchor = IF draft = None THEN @ ELSE draft]
          /\ items' = IF draft = None THEN items ELSE Worded(draft)
          /\ strayed' = (strayed \/ (draft = None /\ project.anchor # None))
    BY DEF DraftForRun
  <1>2. /\ run.phase = "drafting"
        /\ UNCHANGED <<drafting, saving, nodes, bears, lapsed>>
    BY DEF DraftForRun, graph
  <1>3. NoneOrSound(draft)
    BY <1>1, DraftFacts DEF Types
  <1>4. /\ DOMAIN project' = DOMAIN project /\ project'.objective = project.objective
        /\ project'.anchor = IF draft = None THEN project.anchor ELSE draft
    BY <1>1 DEF Types
  <1>5. items' \in Nat
    BY <1>1, <1>3, WordedFacts DEF Types, NoneOrSound
  <1>6. /\ DOMAIN run' = {"phase", "anchor"} /\ run'.phase = "extracting" /\ run'.anchor = draft
        /\ nodes' = {} /\ bears' = {} /\ saving'.phase = "idle"
    BY <1>1, <1>2 DEF NothingYet
  <1>7. Types'
    BY <1>2, <1>3, <1>4, <1>5, <1>6 DEF Types, NoneOrSound
  <1>8. NothingYet' /\ InLine'
    BY <1>1, <1>4, <1>6 DEF NothingYet, InLine, SameItems
  <1>9. QED
    BY <1>6, <1>7, <1>8, NothingToLose

LEMMA MeaningComplete == Meaning /\ Complete => Meaning'
  <1> SUFFICES ASSUME Meaning, Complete PROVE Meaning'
    OBVIOUS
  <1> USE DEF Meaning
  <1>1. /\ run.phase = "extracting" /\ run' = [phase |-> "done", anchor |-> None]
        /\ project' = [project EXCEPT !.status = "completed"]
        /\ UNCHANGED <<drafting, saving, items, strayed, lapsed>>
    BY DEF Complete, bounds
  <1>2. /\ DOMAIN run' = {"phase", "anchor"} /\ run'.phase = "done" /\ run'.anchor = None
        /\ DOMAIN project' = DOMAIN project /\ project'.anchor = project.anchor
        /\ project'.objective = project.objective
    BY <1>1 DEF Types
  <1>3. NothingYet' /\ InLine' /\ saving.phase = "idle"
    BY <1>1, <1>2 DEF NothingYet, InLine
  <1>4. CASE run.anchor = None
    <2>1. nodes' = {} /\ bears' = {}
      BY <1>1, <1>4 DEF Complete, graph, NothingYet
    <2>2. Types'
      BY <1>1, <1>2, <2>1 DEF Types, NoneOrSound
    <2>3. QED
      BY <1>3, <2>1, <2>2, NothingToLose
  <1>5. CASE run.anchor # None
    <2>1. SoundAnchor(run.anchor)
      BY <1>5 DEF Types, NoneOrSound
    <2>2. nodes' = {Node(y) : y \in ToSet(run.anchor.outcomes)}
      BY <1>5 DEF Complete
    <2>3. PICK named : bears' = CleanClaimScores(run.anchor, named)
      BY <1>5 DEF Complete
    <2>4. /\ nodes' \subseteq [key : Nat, item : Nat, active : BOOLEAN]
          /\ \E bound \in Nat : \A n \in nodes' : n.key <= bound
          /\ \A n \in nodes', x \in ToSet(run.anchor.outcomes) : n.key = x.key => n.item = x.item
      BY <2>1, <2>2, NodesOf
    <2>5. /\ bears' \subseteq ToSet(run.anchor.options)
          /\ \A b \in bears', o \in ToSet(run.anchor.options) : b.key = o.key => b.item = o.item
      BY <2>1, <2>3, ScoresMean
    <2>6. Types'
      BY <1>1, <1>2, <2>4 DEF Types, NoneOrSound
    <2>7. ~strayed => /\ project.anchor # None /\ run.anchor.options = project.anchor.options
                      /\ run.anchor.outcomes = project.anchor.outcomes
      BY <1>1, <1>5 DEF InLine, SameItems
    <2>8. NodesBounded' /\ NodesMean' /\ BearsMean'
      BY <1>1, <1>2, <2>4, <2>5, <2>7 DEF NodesBounded, NodesMean, BearsMean
    <2>9. QED
      BY <1>3, <2>6, <2>8
  <1>6. QED
    BY <1>4, <1>5

-----------------------------------------------------------------------------
(* The invariants *)

LEMMA MeaningNext == Meaning /\ [Next]_vars => Meaning'
  <1> SUFFICES ASSUME Meaning, [Next]_vars PROVE Meaning'
    OBVIOUS
  <1> USE DEF Meaning
  <1>1. ASSUME /\ DOMAIN project' = DOMAIN project /\ project'.anchor = project.anchor
               /\ project'.objective = project.objective
               /\ drafting'.objective \in {None, "stated"}
               /\ UNCHANGED <<run, saving, nodes, bears, items, strayed, lapsed>>
        PROVE  Meaning'
    <2>1. Types'
      BY <1>1 DEF Types
    <2>2. NodesBounded' /\ NothingYet' /\ InLine' /\ NodesMean' /\ BearsMean'
      BY <1>1 DEF NodesBounded, NothingYet, InLine, NodesMean, BearsMean
    <2>3. QED
      BY <2>1, <2>2
  <1>2. drafting.objective \in {None, "stated"} /\ project.objective \in {None, "stated"}
    BY DEF Types
  <1>3. ASSUME NEW a \in Asks, AskQuestions(a) \/ NothingAsked(a) \/ ClearQuestions(a) \/ StoreQuestions(a)
        PROVE  Meaning'
    BY <1>1, <1>2, <1>3 DEF AskQuestions, NothingAsked, ClearQuestions, StoreQuestions, graph, bounds
  <1>4. CASE GetIntake
    BY <1>1, <1>2, <1>4 DEF GetIntake, graph, bounds
  <1>5. CASE StartAnalysis
    BY <1>5, MeaningStartAnalysis
  <1>6. CASE AskDraft
    <2>1. drafting'.objective = project.objective
      BY <1>6 DEF AskDraft
    <2>2. QED
      BY <1>1, <1>2, <1>6, <2>1 DEF AskDraft, graph, bounds
  <1>7. CASE StoreDraft
    BY <1>7, MeaningStoreDraft
  <1>8. CASE SetDecisionObjective("stated")
    BY <1>8, MeaningSetDecisionObjective
  <1>9. CASE SaveAnchor
    BY <1>9, MeaningSaveAnchor
  <1>10. CASE SyncOutcomeNodes
    BY <1>10, MeaningSyncOutcomeNodes
  <1>11. CASE RescoreClaims
    BY <1>11, MeaningRescoreClaims
  <1>12. CASE BreakOff
    BY <1>12, MeaningBreakOff
  <1>13. CASE ResolveAnchor
    BY <1>13, MeaningResolveAnchor
  <1>14. CASE DraftForRun
    BY <1>14, MeaningDraftForRun
  <1>15. CASE Complete
    BY <1>15, MeaningComplete
  <1>16. CASE AskTheories
    BY <1>1, <1>2, <1>16 DEF AskTheories, graph, bounds
  <1>17. CASE StoreTheories
    BY <1>1, <1>2, <1>17 DEF StoreTheories, graph, bounds
  <1>18. CASE UNCHANGED vars
    BY <1>1, <1>2, <1>18 DEF vars, graph, bounds
  <1>19. QED
    BY <1>3, <1>4, <1>5, <1>6, <1>7, <1>8, <1>9, <1>10, <1>11, <1>12, <1>13, <1>14, <1>15, <1>16, <1>17,
       <1>18 DEF Next

LEMMA MeaningAlways == Spec => []Meaning
  BY InitMeaning, MeaningNext, PTL DEF Spec

\* KeysKeepTheirMeaning, for all anchors a user or a model may word and any
\* number of saves: whatever is dropped and added in them, the node of an
\* outcome stays with what was meant by it, and so does an option with what
\* claims bear on.
THEOREM KeysStay == Spec => []KeysKeepTheirMeaning
  <1>1. Meaning => KeysKeepTheirMeaning
    BY DEF Meaning, NodesMean, BearsMean, KeysKeepTheirMeaning
  <1>2. QED
    BY <1>1, MeaningAlways, PTL

\* A confirmed anchor is replaced by a draft only if the draft was asked for
\* before it was confirmed.
THEOREM ConfirmedStays == Spec => DraftsRespectConfirmation
  <1> DEFINE GivesWay == /\ Confirmed(project.anchor) /\ ~Confirmed(project'.anchor)
             Asked == \/ drafting.phase = "waiting" /\ ~drafting.confirmed
                      \/ run.phase = "drafting"
  <1>1. ASSUME Meaning, [Next]_vars, GivesWay PROVE Asked
    <2>1. project.anchor # None /\ project.anchor.status = "confirmed" /\ SoundAnchor(project.anchor)
      BY <1>1 DEF Confirmed, Meaning, Types, NoneOrSound
    <2>2. DOMAIN project = {"material", "status", "objective", "anchor", "context"}
      BY <1>1 DEF Meaning, Types
    <2>3. project'.anchor # project.anchor
      BY <1>1
    <2>4. CASE StartAnalysis
      <3>1. PICK raw, anchor :
              /\ raw \in {None} \cup Edits(project.anchor)
              /\ anchor = NormaliseAnchor(raw, "confirmed", AnchorKeys(project.anchor))
              /\ project'.anchor = IF anchor = None THEN project.anchor ELSE anchor
        BY <2>2, <2>4 DEF StartAnalysis
      <3>2. anchor # None => anchor.status = "confirmed"
        BY <3>1 DEF NormaliseAnchor
      <3>3. QED
        BY <1>1, <2>3, <3>1, <3>2 DEF Confirmed
    <2>5. CASE StoreDraft
      BY <2>3, <2>5 DEF StoreDraft, MayReplace
    <2>6. CASE SetDecisionObjective("stated")
      <3>1. PICK a : a = project.anchor
        OBVIOUS
      <3>2. project'.anchor = IF a = None \/ "stated" = None THEN a ELSE [a EXCEPT !.decision = "stated"]
        BY <2>2, <2>6, <3>1 DEF SetDecisionObjective
      <3>3. SoundAnchor([a EXCEPT !.decision = "stated"]) /\ [a EXCEPT !.decision = "stated"].status = a.status
        BY <2>1, <3>1 DEF SoundAnchor, Anchors
      <3>4. [a EXCEPT !.decision = "stated"] # None
        BY <3>3, AnchorFacts
      <3>5. project'.anchor = [a EXCEPT !.decision = "stated"]
        BY <2>3, <3>1, <3>2
      <3>6. Confirmed(project'.anchor)
        BY <2>1, <3>1, <3>3, <3>4, <3>5 DEF Confirmed
      <3>7. QED
        BY <1>1, <3>6
    <2>7. CASE SaveAnchor
      <3>1. PICK raw, anchor :
              /\ raw \in Edits(project.anchor)
              /\ anchor = NormaliseAnchor(raw, "confirmed", UsedKeys)
              /\ project'.anchor = anchor
        BY <2>2, <2>7 DEF SaveAnchor
      <3>2. Reservable(UsedKeys.options) /\ Reservable(UsedKeys.outcomes)
        BY <1>1, UsedKeysFacts DEF Meaning
      <3>3. SoundAnchor(anchor) /\ anchor.status = "confirmed"
        BY <1>1, <3>1, <3>2, SaveFacts DEF Meaning, Types
      <3>4. QED
        BY <1>1, <3>1, <3>3, AnchorFacts DEF Confirmed
    <2>8. CASE DraftForRun
      BY <2>8 DEF DraftForRun
    <2>9. CASE Complete
      <3>1. project'.anchor = project.anchor
        BY <2>2, <2>9 DEF Complete
      <3>2. QED
        BY <2>3, <3>1
    <2>10. ASSUME UNCHANGED project PROVE FALSE
      BY <2>3, <2>10
    <2>11. ASSUME NEW a \in Asks, AskQuestions(a) \/ NothingAsked(a) \/ ClearQuestions(a) \/ StoreQuestions(a)
           PROVE  FALSE
      BY <2>10, <2>11 DEF AskQuestions, NothingAsked, ClearQuestions, StoreQuestions
    <2>12. CASE \/ GetIntake \/ AskDraft \/ SyncOutcomeNodes \/ RescoreClaims \/ BreakOff \/ ResolveAnchor
                \/ AskTheories \/ StoreTheories
      BY <2>10, <2>12 DEF GetIntake, AskDraft, SyncOutcomeNodes, RescoreClaims, BreakOff, ResolveAnchor,
                          AskTheories, StoreTheories
    <2>13. CASE UNCHANGED vars
      BY <2>10, <2>13 DEF vars
    <2>14. QED
      BY <1>1, <2>4, <2>5, <2>6, <2>7, <2>8, <2>9, <2>11, <2>12, <2>13 DEF Next
  <1>2. Meaning /\ [Next]_vars => [GivesWay => Asked]_vars
    BY <1>1
  <1>3. QED
    BY <1>2, MeaningAlways, PTL DEF Spec, DraftsRespectConfirmation

LEMMA InitIntake == Init => Intake
  <1> SUFFICES ASSUME Init PROVE Intake
    OBVIOUS
  <1>1. PICK material, objective :
          project = [material |-> material, status |-> "pending", objective |-> objective,
                     anchor |-> None, context |-> {}]
    BY DEF Init
  <1>2. asks = [a \in Asks |-> [phase |-> "none", deletes |-> {}, rows |-> {}]]
    BY DEF Init
  <1>3. questions = {} /\ run = [phase |-> "none", anchor |-> None]
    BY DEF Init
  <1>4. QED
    BY <1>1, <1>2, <1>3 DEF Intake, Unanswered, AnswersFitTheirQuestions

\* What is rendered of the answers is what they were given as.
LEMMA IntakeStartAnalysis == Intake /\ StartAnalysis => Intake'
  <1> SUFFICES ASSUME Intake, StartAnalysis PROVE Intake'
    OBVIOUS
  <1> USE DEF Intake
  <1>1. PICK answers, anchor :
          /\ questions' = SaveAnswers(answers)
          /\ said' = {<<s, Answered(answers[s])>> : s \in DOMAIN answers}
          /\ project' = [project EXCEPT !.status = "processing", !.context = RenderAnswers(questions'),
                           !.anchor = IF anchor = None THEN @ ELSE anchor,
                           !.objective = IF anchor = None THEN @ ELSE anchor.decision]
    BY DEF StartAnalysis
  <1>2. run.phase = "none" /\ run' = [run EXCEPT !.phase = "queued"] /\ asks' = asks
    BY DEF StartAnalysis
  <1>3. Unanswered(questions)
    BY <1>2
  <1>4. ASSUME NEW r \in questions', r.answer # None
        PROVE  <<r.id, r.answer>> \in said'
    <2> DEFINE given(q) == IF q.id \in DOMAIN answers THEN Answered(answers[q.id]) ELSE None
    <2>1. PICK q \in questions : r = IF given(q) \in Typed..q.options THEN [q EXCEPT !.answer = given(q)] ELSE q
      BY <1>1 DEF SaveAnswers
    <2>2. DOMAIN q = {"id", "kind", "answer", "options"} /\ q.answer = None
      BY <1>3 DEF Unanswered
    <2> HIDE DEF given
    <2>3. given(q) \in Typed..q.options /\ r = [q EXCEPT !.answer = given(q)]
      BY <1>4, <2>1, <2>2
    <2>4. r.id = q.id /\ r.answer = given(q)
      BY <2>2, <2>3
    <2>5. q.id \in DOMAIN answers /\ given(q) = Answered(answers[q.id])
      BY <1>4, <2>4 DEF given
    <2>6. QED
      BY <1>1, <2>4, <2>5
  <1>5. DOMAIN project' = DOMAIN project /\ project'.context = RenderAnswers(questions')
    BY <1>1
  <1>6. AnswersFitTheirQuestions'
    BY <1>4, <1>5 DEF AnswersFitTheirQuestions, RenderAnswers
  <1>7. DOMAIN run' = DOMAIN run /\ run'.phase = "queued"
    BY <1>2
  <1>8. QED
    BY <1>2, <1>5, <1>6, <1>7

\* The rows of a request for questions.
LEMMA IntakeAsks ==
    ASSUME Intake, NEW a \in Asks,
           AskQuestions(a) \/ NothingAsked(a) \/ ClearQuestions(a) \/ StoreQuestions(a)
    PROVE  Intake'
  <1> USE DEF Intake
  <1>1. UNCHANGED <<project, run, said>>
    BY DEF AskQuestions, NothingAsked, ClearQuestions, StoreQuestions
  <1>2. AnswersFitTheirQuestions'
    BY <1>1 DEF AnswersFitTheirQuestions
  <1>3. CASE AskQuestions(a) \/ NothingAsked(a)
    <2>1. PICK phase : asks' = [asks EXCEPT ![a].phase = phase] /\ questions' = questions
      BY <1>3 DEF AskQuestions, NothingAsked
    <2>2. PICK ask : ask = asks[a] /\ asks' = [asks EXCEPT ![a] = [ask EXCEPT !.phase = phase]]
      BY <2>1
    <2>3. DOMAIN [ask EXCEPT !.phase = phase] = DOMAIN ask /\ [ask EXCEPT !.phase = phase].rows = ask.rows
      BY <2>2
    <2>4. QED
      BY <1>1, <1>2, <2>1, <2>2, <2>3
  <1>4. CASE ClearQuestions(a)
    <2>1. PICK list \in RawQuestions, reachable \in BOOLEAN :
            asks' = [asks EXCEPT ![a] = [phase |-> "cleared", deletes |-> {q.id : q \in questions},
                                         rows |-> Rows(a, Candidates(list), reachable)]]
      BY <1>4 DEF ClearQuestions
    <2>2. PICK ask : /\ DOMAIN ask = {"phase", "deletes", "rows"} /\ Unanswered(ask.rows)
                     /\ asks' = [asks EXCEPT ![a] = ask]
      <3>1. Unanswered(Rows(a, Candidates(list), reachable))
        BY DEF Unanswered, Rows
      <3> HIDE DEF Unanswered
      <3>2. QED
        BY <2>1, <3>1
    <2>3. questions' = questions
      BY <1>4 DEF ClearQuestions
    <2>4. QED
      BY <1>1, <1>2, <2>1, <2>2, <2>3
  <1>5. CASE StoreQuestions(a)
    <2>1. PICK ask : /\ ask = [phase |-> "done", deletes |-> {}, rows |-> {}]
                     /\ asks' = [asks EXCEPT ![a] = ask]
      BY <1>5 DEF StoreQuestions
    <2>2. DOMAIN ask = {"phase", "deletes", "rows"} /\ Unanswered(ask.rows)
      BY <2>1 DEF Unanswered
    <2>3. questions' \subseteq questions \cup asks[a].rows
      BY <1>5 DEF StoreQuestions
    <2>4. run.phase = "none" => Unanswered(questions')
      BY <2>3 DEF Unanswered
    <2>5. QED
      BY <1>1, <1>2, <2>1, <2>2, <2>4
  <1>6. QED
    BY <1>3, <1>4, <1>5

LEMMA IntakeNext == Intake /\ [Next]_vars => Intake'
  <1> SUFFICES ASSUME Intake, [Next]_vars PROVE Intake'
    OBVIOUS
  <1> USE DEF Intake
  <1>1. ASSUME /\ DOMAIN project' = DOMAIN project /\ project'.context = project.context
               /\ DOMAIN run' = {"phase", "anchor"} /\ (run'.phase = "none" => run.phase = "none")
               /\ UNCHANGED <<questions, asks, said>>
        PROVE  Intake'
    BY <1>1 DEF AnswersFitTheirQuestions
  <1>2. ASSUME NEW a \in Asks, AskQuestions(a) \/ NothingAsked(a) \/ ClearQuestions(a) \/ StoreQuestions(a)
        PROVE  Intake'
    BY <1>2, IntakeAsks
  <1>3. CASE GetIntake \/ AskDraft \/ SyncOutcomeNodes \/ RescoreClaims \/ BreakOff \/ AskTheories \/ StoreTheories
    BY <1>1, <1>3 DEF GetIntake, AskDraft, SyncOutcomeNodes, RescoreClaims, BreakOff, AskTheories, StoreTheories,
                      intake
  <1>4. CASE StartAnalysis
    BY <1>4, IntakeStartAnalysis
  <1>5. CASE StoreDraft
    <2>1. project' = project \/ \E draft : project' = [project EXCEPT !.anchor = draft]
      BY <1>5 DEF StoreDraft
    <2>2. QED
      BY <1>1, <1>5, <2>1 DEF StoreDraft, intake
  <1>6. CASE SetDecisionObjective("stated")
    <2>1. DOMAIN project' = DOMAIN project /\ project'.context = project.context
      BY <1>6 DEF SetDecisionObjective
    <2>2. QED
      BY <1>1, <1>6, <2>1 DEF SetDecisionObjective, intake
  <1>7. CASE SaveAnchor
    <2>1. DOMAIN project' = DOMAIN project /\ project'.context = project.context
      BY <1>7 DEF SaveAnchor
    <2>2. QED
      BY <1>1, <1>7, <2>1 DEF SaveAnchor, intake
  <1>8. CASE ResolveAnchor
    <2>1. DOMAIN run' = {"phase", "anchor"} /\ run'.phase # "none"
      BY <1>8 DEF ResolveAnchor
    <2>2. QED
      BY <1>1, <1>8, <2>1 DEF ResolveAnchor, intake
  <1>9. CASE DraftForRun
    <2>1. DOMAIN run' = {"phase", "anchor"} /\ run'.phase # "none"
      BY <1>9 DEF DraftForRun
    <2>2. DOMAIN project' = DOMAIN project /\ project'.context = project.context
      BY <1>9 DEF DraftForRun
    <2>3. QED
      BY <1>1, <1>9, <2>1, <2>2 DEF DraftForRun, intake
  <1>10. CASE Complete
    <2>1. DOMAIN run' = {"phase", "anchor"} /\ run'.phase # "none"
      BY <1>10 DEF Complete
    <2>2. DOMAIN project' = DOMAIN project /\ project'.context = project.context
      BY <1>10 DEF Complete
    <2>3. QED
      BY <1>1, <1>10, <2>1, <2>2 DEF Complete, intake
  <1>11. CASE UNCHANGED vars
    BY <1>1, <1>11 DEF vars, intake
  <1>12. QED
    BY <1>2, <1>3, <1>4, <1>5, <1>6, <1>7, <1>8, <1>9, <1>10, <1>11 DEF Next

\* AnswersFitTheirQuestions, for any number of requests for questions and any
\* lists they come back with: what a run is told was said, question by question.
THEOREM AnswersStay == Spec => []AnswersFitTheirQuestions
  <1>1. Intake => AnswersFitTheirQuestions
    BY DEF Intake
  <1>2. QED
    BY <1>1, InitIntake, IntakeNext, PTL DEF Spec

-----------------------------------------------------------------------------
(* What is shown of a graph *)

(***************************************************************************)
(* Frame takes Chains by name (Given), and with it the operators Chains is *)
(* built from: they are the ones the lemmas above are about.               *)
(***************************************************************************)
\* The operators on sets, lists and selections that Chains uses.
LEMMA GivenOperators ==
    /\ \A S : Given!IsFiniteSet(S) = IsFiniteSet(S)
    /\ \A S : Given!Cardinality(S) = Cardinality(S)
    /\ \A s : Given!ToSet(s) = ToSet(s)
    /\ \A S : Given!Max(S) = Max(S) /\ Given!Min(S) = Min(S)
    /\ \A list, S : Given!Picked(list, S) = Picked(list, S)
    /\ \A n, close : Given!Firsts(n, close) = Firsts(n, close)
  <1>1. \A S : Given!IsFiniteSet(S) = IsFiniteSet(S)
    BY DEF Given!IsFiniteSet, IsFiniteSet
  <1>2. \A S : Given!Cardinality(S) = Cardinality(S)
    BY <1>1 DEF Given!Cardinality, Cardinality
  <1>3. \A s : Given!ToSet(s) = ToSet(s)
    BY DEF Given!ToSet, ToSet
  <1>4. \A S : Given!Max(S) = Max(S) /\ Given!Min(S) = Min(S)
    BY DEF Given!Max, Max, Given!Min, Min
  <1>5. \A S : Given!InOrder(S) = InOrder(S)
    BY DEF Given!InOrder, InOrder, Given!Cardinality, Cardinality, Given!IsFiniteSet, IsFiniteSet
  <1>6. \A list, S : Given!Picked(list, S) = Picked(list, S)
    BY <1>5 DEF Given!Picked, Picked
  <1>7. \A n, close : Given!Firsts(n, close) = Firsts(n, close)
    BY DEF Given!Firsts, Firsts, Given!FirstsUpto, FirstsUpto
  <1>8. QED
    BY <1>1, <1>2, <1>3, <1>4, <1>6, <1>7

\* No two of S have the same place, which is a pair of numbers.
Placed(place, S) ==
    /\ \A x \in S : place[x][1] \in Nat /\ place[x][2] \in Nat
    /\ \A x, y \in S : place[x][1] = place[y][1] /\ place[x][2] = place[y][2] => x = y

\* Among the first n there are at most n.
LEMMA BestFacts ==
    ASSUME NEW S, IsFiniteSet(S), NEW n \in Nat, NEW score, \A x \in S : score[x] \in Int,
           NEW place, Placed(place, S)
    PROVE  /\ Given!Best(S, n, score, place) \subseteq S
           /\ IsFiniteSet(Given!Best(S, n, score, place))
           /\ Cardinality(Given!Best(S, n, score, place)) <= n
  <1> DEFINE B == Given!Best(S, n, score, place)
             above(x) == Given!Better(S, score, place, x)
             rank == [x \in B |-> Cardinality(above(x))]
  <1>1. \A x \in S : above(x) \subseteq S /\ IsFiniteSet(above(x)) /\ Cardinality(above(x)) \in Nat
    <2>1. \A x \in S : above(x) \subseteq S
      BY DEF Given!Better
    <2> HIDE DEF above
    <2>2. QED
      BY <2>1, FS_Subset, FS_CardinalityType
  <1>2. B \subseteq S /\ \A x \in B : Cardinality(above(x)) < n
    BY GivenOperators DEF Given!Best
  <1>3. \A x, y \in S : x # y => x \in above(y) \/ y \in above(x)
    BY DEF Given!Better, Given!Earlier, Placed
  <1>4. \A x, y \in S : x \in above(y) => above(x) \subseteq above(y) /\ x \notin above(x)
    <2>1. ASSUME NEW x \in S, NEW y \in S, x \in above(y), NEW z \in above(x)
          PROVE  z \in above(y)
      <3>1. z \in S /\ score[x] \in Int /\ score[y] \in Int /\ score[z] \in Int
        BY <2>1 DEF Given!Better
      <3>2. /\ place[x][1] \in Nat /\ place[y][1] \in Nat /\ place[z][1] \in Nat
            /\ place[x][2] \in Nat /\ place[y][2] \in Nat /\ place[z][2] \in Nat
        BY <3>1 DEF Placed
      <3>3. score[x] > score[y] \/ (score[x] = score[y] /\ Given!Earlier(place[x], place[y]))
        BY <2>1 DEF Given!Better
      <3>4. score[z] > score[x] \/ (score[z] = score[x] /\ Given!Earlier(place[z], place[x]))
        BY <2>1 DEF Given!Better
      <3>5. score[z] > score[y] \/ (score[z] = score[y] /\ Given!Earlier(place[z], place[y]))
        BY <3>1, <3>2, <3>3, <3>4 DEF Given!Earlier
      <3>6. QED
        BY <3>1, <3>5 DEF Given!Better
    <2>2. \A x \in S : x \notin above(x)
      BY DEF Given!Better, Given!Earlier, Placed
    <2>3. QED
      BY <2>1, <2>2
  <1> HIDE DEF above, B
  <1>5. ASSUME NEW x \in B, NEW y \in B, x # y PROVE Cardinality(above(x)) # Cardinality(above(y))
    <2>1. x \in S /\ y \in S
      BY <1>2
    <2>2. ASSUME NEW a \in S, NEW b \in S, a \in above(b)
          PROVE  Cardinality(above(a)) # Cardinality(above(b))
      <3>1. above(a) \subseteq above(b) /\ above(a) # above(b)
        BY <1>4, <2>2
      <3>2. QED
        BY <1>1, <3>1, FS_Subset
    <2>3. QED
      BY <1>3, <1>5, <2>1, <2>2
  <1>6. rank \in Injection(B, 0..(n - 1))
    <2>1. \A x \in B : Cardinality(above(x)) \in 0..(n - 1)
      BY <1>1, <1>2
    <2>2. rank \in [B -> 0..(n - 1)] /\ \A x \in B : rank[x] = Cardinality(above(x))
      BY <2>1
    <2> HIDE DEF rank
    <2>3. QED
      BY <1>5, <2>2 DEF Injection, IsInjective
  <1> HIDE DEF rank
  <1>7. IsFiniteSet(0..(n - 1)) /\ Cardinality(0..(n - 1)) = n
    BY FS_Interval
  <1>8. IsFiniteSet(B) /\ Cardinality(B) <= n
    BY <1>6, <1>7, FS_Injection
  <1>9. QED
    BY <1>2, <1>8 DEF B

\* Nor are there among the first n of a list.
LEMMA StartFacts ==
    ASSUME NEW path, NEW n \in Nat
    PROVE  /\ IsFiniteSet(Given!Start(path, n))
           /\ Cardinality(Given!Start(path, n)) <= n
  <1> DEFINE D == (1..n) \cap DOMAIN path
             f == [i \in D |-> path[i]]
             T == Given!Start(path, n)
  <1>1. f \in Surjection(D, T)
    <2>1. f \in [D -> T] /\ \A t \in T : \E i \in D : f[i] = t
      BY DEF Given!Start
    <2> HIDE DEF f, D, T
    <2>2. QED
      BY <2>1 DEF Surjection
  <1>2. IsFiniteSet(1..n) /\ Cardinality(1..n) = n
    BY FS_Interval
  <1>3. D \subseteq 1..n
    OBVIOUS
  <1> HIDE DEF f, D, T
  <1>4. IsFiniteSet(D) /\ Cardinality(D) <= n
    BY <1>2, <1>3, FS_Subset
  <1>5. IsFiniteSet(T) /\ Cardinality(T) <= Cardinality(D)
    BY <1>1, <1>4, FS_Surjection
  <1>6. Cardinality(T) \in Nat /\ Cardinality(D) \in Nat
    BY <1>4, <1>5, FS_CardinalityType
  <1>7. QED
    BY <1>4, <1>5, <1>6 DEF T

\* A graph with numbered nodes and scores in their ranges.
Whole(g) ==
    /\ IsFiniteSet(g.nodes) /\ g.nodes \subseteq Nat
    /\ g.edges \subseteq g.nodes \X g.nodes
    /\ \A e \in g.edges : g.strength[e] \in Nat /\ g.evidence[e] \in 0..100
    /\ \A c \in g.nodes : /\ g.confidence[c] \in Nat
                          /\ g.status[c] \in DOMAIN Given!StatusScore
                          /\ g.stated[c] \in {None} \cup 0..100

\* The claims come first, and each outcome has a number of its own after them.
LEMMA NodeNumbers ==
    /\ Max(Material.nodes) \in Nat /\ None \notin Nat
    /\ Material.nodes \subseteq Nat
    /\ \A c \in Material.nodes : c <= Max(Material.nodes)
    /\ LeadsTo \in Material.nodes
  <1> DEFINE N == Cardinality(Material.nodes)
  <1>1. IsFiniteSet(Material.nodes) /\ Material.nodes = 1..N
    BY MaterialAssumption
  <1>2. N \in Nat
    BY <1>1, FS_CardinalityType
  <1> HIDE DEF N
  <1>3. Material.nodes \subseteq Nat /\ \A c \in Material.nodes : c <= N
    BY <1>1, <1>2
  <1>4. LeadsTo \in Material.nodes
    BY FrameAssumption
  <1>5. Max(Material.nodes) \in Material.nodes /\ \A c \in Material.nodes : c <= Max(Material.nodes)
    BY <1>2, <1>3, <1>4, MaxFacts
  <1>6. None \notin Nat
    BY AnchorAssumption
  <1>7. QED
    BY <1>3, <1>4, <1>5, <1>6

\* The analysed graph with outcomes is a graph.
LEMMA SnapshotFacts ==
    ASSUME NEW k \in SUBSET (1..MaxItems)
    PROVE  /\ Whole(Snapshot(k))
           /\ Given!OutcomesOf(Snapshot(k)) = {NodeNumber(x) : x \in k}
           /\ IsFiniteSet({NodeNumber(x) : x \in k})
  <1> DEFINE M == Max(Material.nodes)
             new == {NodeNumber(x) : x \in k}
             leads == {<<LeadsTo, NodeNumber(x)>> : x \in k}
             all == Material.nodes \cup new
             links == Material.edges \cup leads
             g == Snapshot(k)
  <1>1. MaxItems \in Nat /\ k \subseteq 1..MaxItems
    BY FrameAssumption
  <1>2. \A x \in k : NodeNumber(x) = M + x /\ x \in Nat /\ x # 0
    BY <1>1 DEF NodeNumber
  <1>3. M \in Nat /\ None \notin Nat /\ Material.nodes \subseteq Nat
        /\ (\A c \in Material.nodes : c <= M) /\ LeadsTo \in Material.nodes
    BY NodeNumbers
  <1>4. IsFiniteSet(new)
    <2>1. IsFiniteSet(0..(M + MaxItems))
      BY <1>1, <1>3, FS_Interval
    <2>2. new \subseteq 0..(M + MaxItems)
      <3> HIDE DEF M
      <3>1. QED
        BY <1>1, <1>2, <1>3
    <2> HIDE DEF new, M
    <2>3. QED
      BY <2>1, <2>2, FS_Subset
  <1>5. all \subseteq Nat /\ links \subseteq all \X all /\ new \cap Material.nodes = {}
    <2> HIDE DEF M
    <2>1. new \subseteq Nat /\ new \cap Material.nodes = {}
      BY <1>2, <1>3
    <2>2. leads \subseteq all \X all
      BY <1>3
    <2>3. Material.edges \subseteq all \X all
      BY MaterialAssumption
    <2> HIDE DEF new, leads
    <2>4. QED
      BY <1>3, <2>1, <2>2, <2>3
  <1>6. IsFiniteSet(all)
    <2> HIDE DEF new
    <2>1. QED
      BY <1>4, MaterialAssumption, FS_Union
  <1>7. /\ g.nodes = all /\ g.edges = links
        /\ g.strength = [e \in links |-> IF e \in DOMAIN Material.strength THEN Material.strength[e] ELSE Given!Half]
        /\ g.evidence = [e \in links |-> IF e \in DOMAIN Material.evidence THEN Material.evidence[e] ELSE 50]
        /\ g.confidence = [n \in all |-> IF n \in DOMAIN Material.confidence THEN Material.confidence[n] ELSE Given!Half]
        /\ g.status = [n \in all |-> IF n \in DOMAIN Material.status THEN Material.status[n] ELSE "accepted"]
        /\ g.stated = [n \in all |-> IF n \in DOMAIN Material.stated THEN Material.stated[n] ELSE 100]
        /\ g.outcome = [n \in all |-> IF n \in Material.nodes THEN None ELSE n - M]
    BY MaterialAssumption DEF Snapshot
  <1> HIDE DEF all, links, g
  <1>8. Given!Half \in Nat
    BY DEF Given!Half, Given!One
  <1>9. "accepted" \in DOMAIN Given!StatusScore
    BY DEF Given!StatusScore
  <1>10. \A e \in links : g.strength[e] \in Nat
    BY <1>7, <1>8, MaterialAssumption
  <1>11. \A e \in links : g.evidence[e] \in 0..100
    BY <1>7, MaterialAssumption
  <1>12. \A n \in all : g.confidence[n] \in Nat
    BY <1>7, <1>8, MaterialAssumption
  <1>13. \A n \in all : g.status[n] \in DOMAIN Given!StatusScore
    BY <1>7, <1>9, MaterialAssumption
  <1>14. \A n \in all : g.stated[n] \in {None} \cup 0..100
    BY <1>7, MaterialAssumption
  <1>15. Whole(g)
    BY <1>5, <1>6, <1>7, <1>10, <1>11, <1>12, <1>13, <1>14 DEF Whole
  <1>16. \A n \in all : g.outcome[n] # None <=> n \in new
    <2>1. \A n \in all : n \in Material.nodes => g.outcome[n] = None /\ n \notin new
      BY <1>5, <1>7
    <2>2. ASSUME NEW n \in all, n \notin Material.nodes PROVE g.outcome[n] # None /\ n \in new
      <3>1. n \in new
        BY <2>2 DEF all
      <3>2. PICK x \in k : n = M + x /\ x \in Nat
        BY <1>2, <3>1
      <3>3. g.outcome[n] = n - M
        BY <1>7, <2>2
      <3> HIDE DEF M
      <3>4. n - M = x
        BY <1>3, <3>2
      <3>5. QED
        BY <1>3, <3>1, <3>2, <3>3, <3>4
    <2>3. QED
      BY <2>1, <2>2
  <1>17. Given!OutcomesOf(g) = new
    BY <1>7, <1>16 DEF Given!OutcomesOf, Given!IsOutcome, all
  <1>18. QED
    BY <1>4, <1>15, <1>17 DEF g, new

\* The greatest of some scores up to 100.
LEMMA ScoresHaveMax ==
    ASSUME NEW S, S \subseteq 0..100
    PROVE  Given!Max({0} \cup S) \in Nat
  <1>1. {0} \cup S \subseteq Nat /\ \A k \in {0} \cup S : k <= 100
    OBVIOUS
  <1>2. Max({0} \cup S) \in {0} \cup S
    BY <1>1, MaxFacts
  <1>3. QED
    BY <1>1, <1>2, GivenOperators

\* The least of two numbers.
LEMMA PairsHaveMin ==
    ASSUME NEW a \in Nat, NEW b \in Nat
    PROVE  Given!Min({a, b}) \in Nat
  <1>1. \E x \in {a, b} : \A y \in {a, b} : x <= y
    OBVIOUS
  <1>2. Min({a, b}) \in {a, b}
    BY <1>1 DEF Min
  <1>3. QED
    BY <1>2, GivenOperators

\* How many claims lead to a claim, and to how many it leads.
LEMMA NeighboursCount ==
    ASSUME NEW g, Whole(g), NEW c
    PROVE  /\ Given!Cardinality(Given!Parents(g, c)) \in Nat
           /\ Given!Cardinality(Given!Children(g, c)) \in Nat
  <1>1. Given!Parents(g, c) \subseteq g.nodes /\ Given!Children(g, c) \subseteq g.nodes
    BY DEF Given!Parents, Given!Children
  <1>2. IsFiniteSet(g.nodes)
    BY DEF Whole
  <1>3. /\ Cardinality(Given!Parents(g, c)) \in Nat
        /\ Cardinality(Given!Children(g, c)) \in Nat
    BY <1>1, <1>2, FS_Subset, FS_CardinalityType
  <1>4. QED
    BY <1>3, GivenOperators

\* The relevance of a claim, however far it is from the outcomes.
LEMMA RelevanceType ==
    ASSUME NEW stated \in {None} \cup 0..100, NEW distance
    PROVE  \/ Given!EffectiveRelevance(stated, distance) = None
           \/ Given!EffectiveRelevance(stated, distance) \in Nat
  <1> DEFINE r == Given!StructuralRelevance(distance)
             s == IF stated = None THEN 0 ELSE stated
  <1>1. r \in {0, 100, 85, 65, 45, 30}
    BY DEF Given!StructuralRelevance
  <1>2. s \in 0..100
    OBVIOUS
  <1>3. \/ Given!EffectiveRelevance(stated, distance) = None
        \/ Given!EffectiveRelevance(stated, distance) = Given!Max({s, r})
    BY DEF Given!EffectiveRelevance
  <1> HIDE DEF r, s
  <1>4. {s, r} \subseteq Nat /\ {s, r} # {} /\ \A k \in {s, r} : k <= 100
    BY <1>1, <1>2
  <1>5. Max({s, r}) \in Nat
    BY <1>4, MaxFacts
  <1>6. QED
    BY <1>3, <1>5, GivenOperators

\* A score is a number.
LEMMA ScoreType ==
    ASSUME NEW g, Whole(g), NEW critical, NEW distance, NEW c \in g.nodes
    PROVE  Given!ScoreClaim(g, critical, distance, c) \in Int
  <1> DEFINE ins == Given!Cardinality(Given!Parents(g, c))
             outs == Given!Cardinality(Given!Children(g, c))
             incident == {g.evidence[e] : e \in {e \in g.edges : c \in {e[1], e[2]}}}
             relevance == Given!EffectiveRelevance(g.stated[c], distance[c])
             least == Given!Min({ins + outs, 6})
             most == Given!Max({0} \cup incident)
             status == Given!StatusScore[g.status[c]]
             sure == (50 * g.confidence[c]) \div Given!One
             near == Given!If(relevance # None, 4 * relevance)
  <1>1. ins \in Nat /\ outs \in Nat
    BY NeighboursCount
  <1>2. least \in Nat
    <2> HIDE DEF ins, outs
    <2>1. ins + outs \in Nat /\ 6 \in Nat
      BY <1>1
    <2>2. QED
      BY <2>1, PairsHaveMin
  <1>3. most \in Nat
    <2>1. incident \subseteq 0..100
      BY DEF Whole
    <2>2. QED
      BY <2>1, ScoresHaveMax
  <1>4. status \in Nat
    BY DEF Whole, Given!StatusScore
  <1>5. sure \in Int
    BY DEF Whole, Given!One
  <1>6. near \in Int
    <2>1. relevance = None \/ relevance \in Nat
      BY RelevanceType DEF Whole
    <2> HIDE DEF relevance
    <2>2. CASE relevance = None
      BY <2>2 DEF Given!If
    <2>3. CASE relevance # None
      BY <2>1, <2>3 DEF Given!If
    <2>4. QED
      BY <2>2, <2>3
  <1>7. Given!ScoreClaim(g, critical, distance, c) =
          Given!If(c \in critical, 300) + Given!If(ins = 0, 100) + Given!If(outs = 0, 150) + Given!If(ins > 1, 50)
            + 35 * least + status + Given!If(c \in g.noted, 150)
            + most + sure + near + Given!If(Given!IsOutcome(g, c), 300)
    BY DEF Given!ScoreClaim
  <1>8. /\ Given!If(c \in critical, 300) \in Int /\ Given!If(ins = 0, 100) \in Int
        /\ Given!If(outs = 0, 150) \in Int /\ Given!If(ins > 1, 50) \in Int
        /\ Given!If(c \in g.noted, 150) \in Int /\ Given!If(Given!IsOutcome(g, c), 300) \in Int
    BY DEF Given!If
  <1> HIDE DEF least, most, status, sure, near
  <1>9. QED
    BY <1>2, <1>3, <1>4, <1>5, <1>6, <1>7, <1>8

\* What is shown of a graph: all it leads to, links between claims that are
\* shown, and a bounded number of each.
ShowsWell(shown, sought) ==
    /\ sought \subseteq shown.claims
    /\ \A e \in shown.links : e \in Nat \X Nat /\ e[1] \in shown.claims /\ e[2] \in shown.claims
    /\ Cardinality(shown.links) <= MaxLinks
    /\ Cardinality(shown.claims) <= MaxClaims + MaxClaims \div 2 + Cardinality(sought)

\* The claims of a large graph.
LEMMA KeptFacts ==
    ASSUME NEW g, Whole(g), IsFiniteSet(Given!OutcomesOf(g)),
           NEW best, best = Given!Best(g.nodes, MaxClaims, Given!ScoreClaims(g), [c \in g.nodes |-> <<c, 0>>]),
           NEW start, start = Given!Start(Given!PathOf(g), MaxClaims \div 2)
    PROVE  Cardinality(best \cup start \cup Given!OutcomesOf(g))
             <= MaxClaims + MaxClaims \div 2 + Cardinality(Given!OutcomesOf(g))
  <1> DEFINE score == Given!ScoreClaims(g)
             place == [c \in g.nodes |-> <<c, 0>>]
             sought == Given!OutcomesOf(g)
  <1>1. MaxClaims \in Nat
    BY MaterialAssumption
  <1>2. MaxClaims \div 2 \in Nat
    BY <1>1
  <1>3. \A c \in g.nodes : score[c] \in Int
    BY ScoreType DEF Given!ScoreClaims
  <1>4. Placed(place, g.nodes)
    BY DEF Placed, Whole
  <1>5. IsFiniteSet(best) /\ Cardinality(best) <= MaxClaims
    <2> HIDE DEF score, place
    <2>1. IsFiniteSet(g.nodes)
      BY DEF Whole
    <2>2. /\ IsFiniteSet(Given!Best(g.nodes, MaxClaims, score, place))
          /\ Cardinality(Given!Best(g.nodes, MaxClaims, score, place)) <= MaxClaims
      BY <1>1, <1>3, <1>4, <2>1, BestFacts
    <2>3. QED
      BY <2>2 DEF score, place
  <1>6. IsFiniteSet(start) /\ Cardinality(start) <= MaxClaims \div 2
    BY <1>2, StartFacts
  <1> HIDE DEF sought, score, place
  <1>7. IsFiniteSet(sought)
    BY DEF sought
  <1>8. \A S, T : IsFiniteSet(S) /\ IsFiniteSet(T) =>
          IsFiniteSet(S \cup T) /\ Cardinality(S \cup T) <= Cardinality(S) + Cardinality(T)
    <2>1. ASSUME NEW S, NEW T, IsFiniteSet(S), IsFiniteSet(T)
          PROVE  IsFiniteSet(S \cup T) /\ Cardinality(S \cup T) <= Cardinality(S) + Cardinality(T)
      <3>1. /\ IsFiniteSet(S \cup T)
            /\ Cardinality(S \cup T) = Cardinality(S) + Cardinality(T) - Cardinality(S \cap T)
        BY <2>1, FS_Union
      <3>2. Cardinality(S \cap T) \in Nat
        BY <2>1, FS_Subset, FS_CardinalityType
      <3>3. Cardinality(S) \in Nat /\ Cardinality(T) \in Nat
        BY <2>1, FS_CardinalityType
      <3>4. QED
        BY <3>1, <3>2, <3>3
    <2>2. QED
      BY <2>1
  <1>9. IsFiniteSet(best \cup start) /\ Cardinality(best \cup start) <= Cardinality(best) + Cardinality(start)
    BY <1>5, <1>6, <1>8
  <1>10. Cardinality((best \cup start) \cup sought) <= Cardinality(best \cup start) + Cardinality(sought)
    BY <1>7, <1>8, <1>9
  <1>11. /\ Cardinality(best) \in Nat /\ Cardinality(start) \in Nat /\ Cardinality(sought) \in Nat
         /\ Cardinality(best \cup start) \in Nat
         /\ Cardinality((best \cup start) \cup sought) \in Nat
    BY <1>5, <1>6, <1>7, <1>8, <1>9, FS_CardinalityType
  <1>12. Cardinality((best \cup start) \cup sought) <= MaxClaims + MaxClaims \div 2 + Cardinality(sought)
    BY <1>1, <1>2, <1>5, <1>6, <1>9, <1>10, <1>11
  <1>13. QED
    BY <1>12 DEF sought

\* The links of a large graph.
LEMMA LinksFacts ==
    ASSUME NEW g, Whole(g), NEW links, links \subseteq g.edges,
           NEW weight, weight = [e \in g.edges |-> g.strength[e] * g.evidence[e]],
           NEW best, best = Given!Best(links, MaxLinks, weight, [e \in g.edges |-> e])
    PROVE  best \subseteq links /\ Cardinality(best) <= MaxLinks
  <1> DEFINE place == [e \in g.edges |-> e]
  <1>1. MaxLinks \in Nat
    BY MaterialAssumption
  <1>2. IsFiniteSet(links)
    <2>1. IsFiniteSet(g.nodes \X g.nodes) /\ links \subseteq g.nodes \X g.nodes
      BY FS_Product DEF Whole
    <2>2. QED
      BY <2>1, FS_Subset
  <1>3. \A e \in links : weight[e] \in Int
    <2>1. \A e \in links : g.strength[e] \in Nat /\ g.evidence[e] \in 0..100
      BY DEF Whole
    <2>2. \A e \in links : weight[e] = g.strength[e] * g.evidence[e]
      OBVIOUS
    <2>3. \A a \in Nat, b \in 0..100 : a * b \in Int
      OBVIOUS
    <2>4. QED
      BY <2>1, <2>2, <2>3
  <1>4. Placed(place, links)
    <2>1. \A e \in links : e \in Nat \X Nat /\ place[e] = e
      BY DEF Whole
    <2> HIDE DEF place
    <2>2. QED
      BY <2>1 DEF Placed
  <1>5. QED
    BY <1>1, <1>2, <1>3, <1>4, BestFacts

\* Of any graph.
LEMMA SelectFacts ==
    ASSUME NEW g, Whole(g), IsFiniteSet(Given!OutcomesOf(g))
    PROVE  ShowsWell(Given!SelectSubgraph(g), Given!OutcomesOf(g))
  <1> DEFINE sought == Given!OutcomesOf(g)
             small == Given!Cardinality(g.nodes) <= MaxClaims /\ Given!Cardinality(g.edges) <= MaxLinks
             best == Given!Best(g.nodes, MaxClaims, Given!ScoreClaims(g), [c \in g.nodes |-> <<c, 0>>])
             start == Given!Start(Given!PathOf(g), MaxClaims \div 2)
             kept == best \cup start \cup sought
             links == {e \in g.edges : e[1] \in kept /\ e[2] \in kept}
             weight == [e \in g.edges |-> g.strength[e] * g.evidence[e]]
             chosen == Given!Best(links, MaxLinks, weight, [e \in g.edges |-> e])
  <1>1. Given!SelectSubgraph(g) = IF small THEN [claims |-> g.nodes, links |-> g.edges]
                                  ELSE [claims |-> kept, links |-> chosen]
    BY DEF Given!SelectSubgraph
  <1>2. Cardinality(kept) <= MaxClaims + MaxClaims \div 2 + Cardinality(sought)
    <2> HIDE DEF best, start, sought
    <2>1. QED
      BY KeptFacts DEF best, start, sought
  <1>3. sought \subseteq kept
    OBVIOUS
  <1>4. sought \subseteq g.nodes
    BY DEF Given!OutcomesOf
  <1> HIDE DEF best, start, kept, sought
  <1>5. links \subseteq g.edges /\ \A e \in links : e[1] \in kept /\ e[2] \in kept
    OBVIOUS
  <1> HIDE DEF links
  <1>6. chosen \subseteq links /\ Cardinality(chosen) <= MaxLinks
    BY <1>5, LinksFacts
  <1>7. \A e \in g.edges : e \in Nat \X Nat /\ e[1] \in g.nodes /\ e[2] \in g.nodes
    BY DEF Whole
  <1>8. MaxClaims \in Nat /\ MaxClaims \div 2 \in Nat
    BY MaterialAssumption
  <1>9. Cardinality(sought) \in Nat /\ Cardinality(g.nodes) \in Nat
    BY FS_CardinalityType DEF sought, Whole
  <1> HIDE DEF chosen
  <1>10. CASE small
    <2>1. Cardinality(g.nodes) <= MaxClaims /\ Cardinality(g.edges) <= MaxLinks
      BY <1>10, GivenOperators
    <2>2. Cardinality(g.nodes) <= MaxClaims + MaxClaims \div 2 + Cardinality(sought)
      BY <1>8, <1>9, <2>1
    <2>3. ShowsWell([claims |-> g.nodes, links |-> g.edges], sought)
      BY <1>4, <1>7, <2>1, <2>2 DEF ShowsWell
    <2>4. QED
      BY <1>1, <1>10, <2>3 DEF sought
  <1>11. CASE ~small
    <2>1. \A e \in chosen : e \in Nat \X Nat /\ e[1] \in kept /\ e[2] \in kept
      BY <1>5, <1>6, <1>7
    <2>2. ShowsWell([claims |-> kept, links |-> chosen], sought)
      BY <1>2, <1>3, <1>6, <2>1 DEF ShowsWell
    <2>3. QED
      BY <1>1, <1>11, <2>2 DEF sought
  <1>12. QED
    BY <1>10, <1>11

-----------------------------------------------------------------------------
(* What is kept of a theory *)

\* What is picked by all indices is the list itself.
LEMMA PickedAll ==
    ASSUME NEW S, NEW list \in Seq(S)
    PROVE  Picked(list, DOMAIN list) = list
  <1> DEFINE n == Len(list)
             D == DOMAIN list
             c == Cardinality(D)
             p == Picked(list, D)
             self == [i \in 1..n |-> i]
  <1>1. n \in Nat /\ D = 1..n /\ list \in [1..n -> S]
    OBVIOUS
  <1>2. p \in Seq(S) /\ Len(p) = c /\ c \in Nat
    <2>1. p \in Seq(S) /\ Len(p) = c
      BY PickedFacts
    <2>2. QED
      BY <2>1
  <1>3. PICK kept : Lists(kept, c, D) /\ \A i \in 1..c : p[i] = list[kept[i]]
    BY PickedFacts
  <1>4. Lists(self, n, D)
    <2>1. self \in [1..n -> D] /\ \A i \in 1..n : self[i] = i
      BY <1>1
    <2> HIDE DEF self, D, n
    <2>2. QED
      BY <1>1, <2>1 DEF Lists
  <1>5. D \in SUBSET Nat
    BY <1>1
  <1> HIDE DEF n, D, c, p, self
  <1>6. c <= n /\ \A i \in 1..c : kept[i] = self[i]
    BY <1>1, <1>2, <1>3, <1>4, <1>5, ListsAgree
  <1>7. n <= c
    BY <1>1, <1>2, <1>3, <1>4, <1>5, ListsAgree
  <1>8. n = c
    BY <1>1, <1>2, <1>6, <1>7
  <1>9. \A i \in 1..n : p[i] = list[i]
    BY <1>3, <1>6, <1>8 DEF self
  <1>10. p \in [1..n -> S]
    BY <1>2, <1>8
  <1>11. p = [i \in 1..n |-> p[i]] /\ list = [i \in 1..n |-> list[i]]
    BY <1>1, <1>10
  <1>12. p = list
    BY <1>9, <1>11
  <1>13. QED
    BY <1>12 DEF p, D

\* References resolve to what is shown, and all of them that name it do.
LEMMA ResolveFacts ==
    ASSUME NEW S, NEW refs \in Seq(S), NEW shown
    PROVE  /\ Given!Resolve(refs, shown) \in Seq(S)
           /\ ToSet(Given!Resolve(refs, shown)) \subseteq shown
           /\ \A i \in DOMAIN refs : refs[i] \in shown => refs[i] \in ToSet(Given!Resolve(refs, shown))
  <1> DEFINE first == {i \in DOMAIN refs : refs[i] \in shown /\ \A j \in 1..(i - 1) : refs[j] # refs[i]}
             r == Given!Resolve(refs, shown)
  <1>1. r = Picked(refs, first)
    BY GivenOperators DEF Given!Resolve
  <1>2. first \subseteq DOMAIN refs /\ \A i \in first : refs[i] \in shown
    OBVIOUS
  <1>3. ASSUME NEW i \in DOMAIN refs, refs[i] \in shown
        PROVE  \E m \in first : refs[m] = refs[i]
    <2> DEFINE T == {j \in DOMAIN refs : refs[j] = refs[i]}
    <2>1. T \subseteq Nat /\ i \in T
      OBVIOUS
    <2>2. PICK m \in T : \A k \in T : m <= k
      <3> HIDE DEF T
      <3>1. QED
        BY <2>1, LeastExists
    <2>3. m \in DOMAIN refs /\ refs[m] = refs[i]
      OBVIOUS
    <2>4. \A j \in 1..(m - 1) : refs[j] # refs[m]
      <3>1. ASSUME NEW j \in 1..(m - 1), refs[j] = refs[m] PROVE FALSE
        <4>1. j \in DOMAIN refs /\ ~(m <= j)
          BY <2>3
        <4>2. j \in T
          BY <2>3, <3>1, <4>1
        <4>3. QED
          BY <2>2, <4>1, <4>2
      <3>2. QED
        BY <3>1
    <2>5. m \in first
      BY <1>3, <2>3, <2>4
    <2>6. QED
      BY <2>3, <2>5
  <1> HIDE DEF first, r
  <1>4. r \in Seq(S)
    BY <1>1, <1>2, PickedFacts
  <1>5. PICK kept : /\ Lists(kept, Cardinality(first), first)
                    /\ \A n \in 1..Cardinality(first) : r[n] = refs[kept[n]]
    BY <1>1, <1>2, PickedFacts
  <1>6. Len(r) = Cardinality(first) /\ DOMAIN r = 1..Cardinality(first)
    <2>1. Len(r) = Cardinality(first)
      BY <1>1, <1>2, PickedFacts
    <2>2. QED
      BY <1>4, <2>1
  <1>7. \A n \in DOMAIN r : r[n] \in shown
    BY <1>2, <1>5, <1>6 DEF Lists
  <1>8. \A m \in first : \E n \in DOMAIN r : r[n] = refs[m]
    BY <1>5, <1>6 DEF Lists
  <1>9. ToSet(r) \subseteq shown
    BY <1>7 DEF ToSet
  <1>10. \A i \in DOMAIN refs : refs[i] \in shown => refs[i] \in ToSet(r)
    BY <1>3, <1>8 DEF ToSet
  <1>11. QED
    BY <1>4, <1>9, <1>10 DEF r

\* The ends of the links that are cited are among the claims.
LEMMA EndsFacts ==
    ASSUME NEW claims \in Seq(Nat), NEW links \in Seq(Nat \X Nat), NEW shown,
           \A e \in ToSet(links) : e[1] \in shown.claims /\ e[2] \in shown.claims
    PROVE  \A e \in ToSet(links) : /\ e[1] \in ToSet(Given!WithEnds(claims, links, shown))
                                   /\ e[2] \in ToSet(Given!WithEnds(claims, links, shown))
  <1> DEFINE q == [p \in 1..(2 * Len(links)) |-> links[(p + 1) \div 2][2 - (p % 2)]]
             L == Len(links)
             all == claims \o q
             ends == Given!WithEnds(claims, links, shown)
  <1>1. L \in Nat /\ DOMAIN links = 1..L /\ \A i \in 1..L : links[i] \in Nat \X Nat
    OBVIOUS
  <1>2. ASSUME NEW p \in 1..(2 * L) PROVE links[(p + 1) \div 2][2 - (p % 2)] \in Nat
    <2> HIDE DEF L
    <2>1. (p + 1) \div 2 \in 1..L
      BY <1>1
    <2>2. 2 - (p % 2) = 1 \/ 2 - (p % 2) = 2
      BY <1>1
    <2>3. links[(p + 1) \div 2] \in Nat \X Nat
      BY <1>1, <2>1
    <2> DEFINE e == links[(p + 1) \div 2]
               s == 2 - (p % 2)
    <2> HIDE DEF e, s
    <2>4. e[s] \in Nat
      <3>1. e \in Nat \X Nat /\ (s = 1 \/ s = 2)
        BY <2>2, <2>3 DEF e, s
      <3>2. QED
        BY <3>1
    <2>5. QED
      BY <2>4 DEF e, s
  <1>3. q \in Seq(Nat) /\ Len(q) = 2 * L
    <2>1. q \in [1..(2 * L) -> Nat]
      BY <1>2
    <2> HIDE DEF q, L
    <2>2. 2 * L \in Nat
      BY <1>1
    <2>3. QED
      BY <2>1, <2>2, FunctionsAreSequences
  <1>4. \A p \in 1..(2 * L) : q[p] = links[(p + 1) \div 2][2 - (p % 2)]
    OBVIOUS
  <1>5. ends = Given!Resolve(all, shown.claims)
    BY DEF Given!WithEnds
  <1> HIDE DEF q, L
  <1>6. all \in Seq(Nat) /\ DOMAIN all = 1..(Len(claims) + 2 * L)
    <2>1. all \in Seq(Nat) /\ Len(all) = Len(claims) + Len(q)
      BY <1>3, ConcatProperties
    <2> HIDE DEF all
    <2>2. QED
      BY <1>3, <2>1
  <1>7. \A p \in 1..(2 * L) : Len(claims) + p \in DOMAIN all /\ all[Len(claims) + p] = q[p]
    <2>1. ASSUME NEW p \in 1..(2 * L)
          PROVE  Len(claims) + p \in DOMAIN all /\ all[Len(claims) + p] = q[p]
      <3>1. Len(claims) \in Nat /\ p \in 1..Len(q)
        BY <1>3
      <3>2. Len(claims) + p \in 1..(Len(claims) + Len(q)) /\ ~(Len(claims) + p <= Len(claims))
            /\ (Len(claims) + p) - Len(claims) = p
        BY <1>1, <1>3, <3>1
      <3>3. all[Len(claims) + p] = q[p]
        BY <1>3, <3>2, ConcatProperties
      <3>4. QED
        BY <1>3, <1>6, <3>2, <3>3
    <2>2. QED
      BY <2>1
  <1> HIDE DEF all, ends
  <1>8. ASSUME NEW p \in 1..(2 * L), q[p] \in shown.claims PROVE q[p] \in ToSet(ends)
    <2>1. Len(claims) + p \in DOMAIN all /\ all[Len(claims) + p] = q[p]
      BY <1>7
    <2>2. QED
      BY <1>5, <1>6, <1>8, <2>1, ResolveFacts
  <1>9. ASSUME NEW i \in 1..L
        PROVE  links[i][1] \in ToSet(ends) /\ links[i][2] \in ToSet(ends)
    <2>1. /\ 2 * i \in 1..(2 * L) /\ (2 * i + 1) \div 2 = i /\ 2 - ((2 * i) % 2) = 2
          /\ 2 * i - 1 \in 1..(2 * L) /\ ((2 * i - 1) + 1) \div 2 = i /\ 2 - ((2 * i - 1) % 2) = 1
      BY <1>1
    <2>2. q[2 * i - 1] = links[i][1] /\ q[2 * i] = links[i][2]
      BY <1>4, <2>1
    <2>3. links[i] \in ToSet(links)
      BY <1>1 DEF ToSet
    <2>4. links[i][1] \in shown.claims /\ links[i][2] \in shown.claims
      BY <2>3
    <2>5. QED
      BY <1>8, <2>1, <2>2, <2>4
  <1>10. \A e \in ToSet(links) : \E i \in 1..L : e = links[i]
    BY <1>1 DEF ToSet
  <1>11. QED
    BY <1>9, <1>10 DEF ends

\* Walked claim by link by claim, each of them shown.
Alternating(walk, shown) ==
    \A i \in DOMAIN walk : /\ Given!IsShown(walk[i], shown)
                           /\ Len(walk[i]) = IF i % 2 = 1 THEN 1 ELSE 2

\* A link that fits joins the claims it stands between, if there are any.
LEMMA FitsFacts ==
    ASSUME NEW link, NEW before, NEW after, Given!EdgeFits(link, before, after) = "connected"
    PROVE  (before = None \/ before = link[1]) /\ (after = None \/ after = link[2])
  BY DEF Given!EdgeFits

\* Beside an even number are odd ones.
LEMMA OddBeside ==
    ASSUME NEW a \in Nat, a % 2 # 1
    PROVE  (a - 1) % 2 = 1 /\ (a + 1) % 2 = 1
  OBVIOUS

\* What is picked of a list follows the indices in order.
Picks(p, list, indices) ==
    \E kept : /\ Lists(kept, Cardinality(indices), indices)
              /\ \A i \in 1..Cardinality(indices) : p[i] = list[kept[i]]

\* So does what Picked picks.
LEMMA PickedBy ==
    ASSUME NEW S, NEW list \in Seq(S), NEW indices, indices \subseteq DOMAIN list
    PROVE  Picks(Picked(list, indices), list, indices)
  <1>1. PICK kept : /\ Lists(kept, Cardinality(indices), indices)
                    /\ \A n \in 1..Cardinality(indices) : Picked(list, indices)[n] = list[kept[n]]
    BY PickedFacts
  <1>2. QED
    BY <1>1 DEF Picks

\* When links of a walk fit, the ones that stay are joined to their neighbours.
LEMMA ChainFacts ==
    ASSUME NEW walk \in Seq(Seq(Nat)), NEW shown, Alternating(walk, shown), NEW connected,
           connected = {i \in DOMAIN walk :
                          /\ Given!IsLink(walk[i])
                          /\ Given!EdgeFits(walk[i], Given!NeighbourClaim(walk, i - 1),
                                            Given!NeighbourClaim(walk, i + 1)) = "connected"},
           NEW K, K = {i \in DOMAIN walk : ~Given!IsLink(walk[i])} \cup connected
    PROVE  Joined(Picked(walk, K))
  <1> DEFINE n == Len(walk)
             chain == Picked(walk, K)
             c == Cardinality(K)
  <1>1. n \in Nat /\ DOMAIN walk = 1..n /\ \A i \in 1..n : walk[i] \in Seq(Nat)
    OBVIOUS
  <1>2. K \subseteq DOMAIN walk
    OBVIOUS
  <1>3. Len(chain) = c /\ DOMAIN chain = 1..c
    <2>1. chain \in Seq(Seq(Nat)) /\ Len(chain) = c
      BY <1>2, PickedFacts
    <2> HIDE DEF chain, c
    <2>2. QED
      BY <2>1
  <1>4. PICK kept : /\ Lists(kept, Cardinality(K), K)
                    /\ \A i \in 1..Cardinality(K) : Picked(walk, K)[i] = walk[kept[i]]
    <2>1. Picks(Picked(walk, K), walk, K)
      BY <1>2, PickedBy
    <2>2. QED
      BY <2>1 DEF Picks
  <1> HIDE DEF n, chain, c
  <1>5. c \in Nat
    <2>1. Cardinality(K) \in Nat
      BY <1>1, <1>2, InOrderFacts
    <2>2. QED
      BY <2>1 DEF c
  <1>6. \A i \in 1..n : /\ i % 2 = 1 => Len(walk[i]) = 1 /\ i \in K /\ walk[i][1] \in Nat
                        /\ i % 2 # 1 => Len(walk[i]) = 2
    <2>1. ASSUME NEW i \in 1..n
          PROVE  /\ i % 2 = 1 => Len(walk[i]) = 1
                 /\ i % 2 # 1 => Len(walk[i]) = 2
      BY <1>1 DEF Alternating
    <2>2. ASSUME NEW i \in 1..n, Len(walk[i]) = 1 PROVE i \in K /\ walk[i][1] \in Nat
      <3>1. ~Given!IsLink(walk[i])
        BY <2>2 DEF Given!IsLink
      <3>2. i \in K
        BY <1>1, <3>1
      <3>3. walk[i] \in Seq(Nat) /\ 1 \in 1..Len(walk[i])
        BY <1>1, <2>2
      <3>4. \A s \in Seq(Nat) : 1 \in 1..Len(s) => s[1] \in Nat
        OBVIOUS
      <3>5. QED
        BY <3>2, <3>3, <3>4
    <2>3. QED
      BY <2>1, <2>2
  <1>7. ASSUME NEW a \in K, Len(walk[a]) = 2
        PROVE  /\ a - 1 \in 1..n => /\ a - 1 \in K /\ walk[a - 1][1] = walk[a][1]
               /\ a + 1 \in 1..n => /\ a + 1 \in K /\ walk[a + 1][1] = walk[a][2]
    <2>1. a \in 1..n /\ a \in connected
      BY <1>1, <1>2, <1>7 DEF Given!IsLink
    <2>2. a % 2 # 1
      <3>1. a % 2 = 1 => Len(walk[a]) = 1
        BY <1>6, <2>1
      <3>2. QED
        BY <1>7, <3>1
    <2>3. (a - 1) % 2 = 1 /\ (a + 1) % 2 = 1
      BY <1>1, <2>1, <2>2, OddBeside
    <2>4. /\ Given!NeighbourClaim(walk, a - 1) = None \/ Given!NeighbourClaim(walk, a - 1) = walk[a][1]
          /\ Given!NeighbourClaim(walk, a + 1) = None \/ Given!NeighbourClaim(walk, a + 1) = walk[a][2]
      BY <2>1, FitsFacts
    <2>5. ASSUME NEW b \in 1..n, b % 2 = 1
          PROVE  b \in K /\ Given!NeighbourClaim(walk, b) = walk[b][1] /\ walk[b][1] # None
      <3>1. Len(walk[b]) = 1 /\ b \in K /\ walk[b][1] \in Nat
        BY <1>6, <2>5
      <3>2. Given!NeighbourClaim(walk, b) = walk[b][1]
        BY <1>1, <3>1 DEF Given!NeighbourClaim, Given!IsClaim
      <3>3. QED
        BY <3>1, <3>2, NodeNumbers
    <2>6. a - 1 \in 1..n => a - 1 \in K /\ walk[a - 1][1] = walk[a][1]
      BY <2>3, <2>4, <2>5
    <2>7. a + 1 \in 1..n => a + 1 \in K /\ walk[a + 1][1] = walk[a][2]
      BY <2>3, <2>4, <2>5
    <2>8. QED
      BY <2>6, <2>7
  <1>8. /\ \A i \in 1..c : kept[i] \in K /\ kept[i] \in 1..n
        /\ \A i, j \in 1..c : i < j => kept[i] < kept[j]
        /\ \A e \in K : \E i \in 1..c : kept[i] = e
    BY <1>1, <1>2, <1>4 DEF Lists, c
  \* Of two indices that are kept one after the other none is kept between.
  <1>9. ASSUME NEW i \in 1..c, NEW m \in 1..c, m = i + 1, NEW e \in K
        PROVE  ~(kept[i] < e /\ e < kept[m])
    <2>1. SUFFICES ASSUME kept[i] < e, e < kept[m] PROVE FALSE
      OBVIOUS
    <2>2. PICK j \in 1..c : kept[j] = e
      BY <1>8
    <2>3. kept[i] \in 1..n /\ kept[j] \in 1..n /\ kept[m] \in 1..n /\ n \in Nat
      BY <1>1, <1>8
    <2>4. ~(j < i) /\ j # i
      BY <1>8, <2>1, <2>2, <2>3
    <2>5. ~(m < j) /\ j # m
      BY <1>8, <2>1, <2>2, <2>3
    <2>6. QED
      BY <1>5, <1>9, <2>4, <2>5
  <1>10. ASSUME NEW i \in 2..(c - 1), Len(chain[i]) = 2
         PROVE  chain[i - 1][1] = chain[i][1] /\ chain[i + 1][1] = chain[i][2]
    <2> DEFINE a == kept[i]
               l == i - 1
               r == i + 1
    <2>1. i \in 1..c /\ l \in 1..c /\ r \in 1..c /\ i = l + 1 /\ r = i + 1 /\ l < i /\ i < r
      BY <1>5
    <2>2. /\ kept[l] \in 1..n /\ a \in 1..n /\ kept[r] \in 1..n /\ a \in K
          /\ kept[l] \in K /\ kept[r] \in K /\ kept[l] < a /\ a < kept[r]
      BY <1>8, <2>1
    <2>3. chain[i] = walk[a] /\ chain[l] = walk[kept[l]] /\ chain[r] = walk[kept[r]]
      BY <1>4, <2>1 DEF chain, c
    <2> HIDE DEF a, l, r
    <2>4. Len(walk[a]) = 2
      BY <1>10, <2>3
    <2>5. a - 1 \in 1..n /\ a + 1 \in 1..n
      BY <1>1, <2>2
    <2>6. /\ a - 1 \in K /\ walk[a - 1][1] = walk[a][1]
          /\ a + 1 \in K /\ walk[a + 1][1] = walk[a][2]
      BY <1>7, <2>2, <2>4, <2>5
    <2>7. kept[l] = a - 1
      <3>1. ~(kept[l] < a - 1 /\ a - 1 < kept[i])
        BY <1>9, <2>1, <2>6
      <3>2. QED
        BY <1>1, <2>2, <3>1 DEF a
    <2>8. kept[r] = a + 1
      <3>1. ~(kept[i] < a + 1 /\ a + 1 < kept[r])
        BY <1>9, <2>1, <2>6
      <3>2. QED
        BY <1>1, <2>2, <3>1 DEF a
    <2>9. QED
      BY <2>3, <2>6, <2>7, <2>8 DEF l, r
  <1>11. Joined(chain)
    BY <1>3, <1>10 DEF Joined, c, chain
  <1>12. QED
    BY <1>11 DEF chain

\* What is built of a walk.
LEMMA BuildChainFacts ==
    ASSUME NEW walk \in Seq(Seq(Nat)), NEW shown, NEW claims, NEW links, NEW built,
           built = Given!BuildChain(walk, shown, claims, links)
    PROVE  /\ built.cited \in Nat /\ built.connected \in Nat
           /\ Alternating(walk, shown) /\ built.connected > 0 => Joined(built.chain)
  <1> DEFINE steps == Given!Steps(walk, shown)
             cited == {i \in DOMAIN steps : Given!IsLink(steps[i])}
             fits(i) == Given!EdgeFits(steps[i], Given!NeighbourClaim(steps, i - 1),
                                       Given!NeighbourClaim(steps, i + 1)) = "connected"
             connected == {i \in cited : fits(i)}
             K == (DOMAIN steps \ cited) \cup connected
             there == {i \in DOMAIN walk : Given!IsShown(walk[i], shown)}
  <1>1. steps = Picked(walk, there)
    BY GivenOperators DEF Given!Steps
  <1>2. there \subseteq DOMAIN walk
    OBVIOUS
  <1>3. /\ built.cited = Cardinality(cited) /\ built.connected = Cardinality(connected)
        /\ connected # {} => built.chain = Picked(steps, K)
    BY GivenOperators DEF Given!BuildChain
  <1>4. Alternating(walk, shown) => there = DOMAIN walk
    BY DEF Alternating
  <1>5. connected \subseteq cited /\ cited \subseteq DOMAIN steps
    OBVIOUS
  <1> HIDE DEF steps, there
  <1>6. steps \in Seq(Seq(Nat))
    BY <1>1, <1>2, PickedFacts
  <1>7. IsFiniteSet(cited) /\ IsFiniteSet(connected)
    <2>1. DOMAIN steps = 1..Len(steps) /\ Len(steps) \in Nat
      BY <1>6
    <2>2. IsFiniteSet(DOMAIN steps)
      BY <2>1, FS_Interval
    <2> HIDE DEF cited, connected
    <2>3. QED
      BY <1>5, <2>2, FS_Subset
  <1>8. built.cited \in Nat /\ built.connected \in Nat
    BY <1>3, <1>7, FS_CardinalityType
  <1>9. ASSUME Alternating(walk, shown), built.connected > 0 PROVE Joined(built.chain)
    <2>1. connected # {}
      <3>1. connected = {} => Cardinality(connected) = 0
        BY FS_EmptySet
      <3> HIDE DEF connected
      <3>2. QED
        BY <1>3, <1>9, <3>1
    <2>2. steps = walk
      BY <1>1, <1>4, <1>9, PickedAll
    <2>3. built.chain = Picked(walk, K)
      BY <1>3, <2>1, <2>2
    <2>4. /\ connected = {i \in DOMAIN walk :
                            /\ Given!IsLink(walk[i])
                            /\ Given!EdgeFits(walk[i], Given!NeighbourClaim(walk, i - 1),
                                              Given!NeighbourClaim(walk, i + 1)) = "connected"}
          /\ K = {i \in DOMAIN walk : ~Given!IsLink(walk[i])} \cup connected
      BY <2>2
    <2> HIDE DEF K, connected
    <2>5. QED
      BY <1>9, <2>3, <2>4, ChainFacts
  <1>10. QED
    BY <1>8, <1>9

\* A theory that rests on what was shown, with the keys that were read.
RestsOn(t, shown, keys) ==
    /\ t.links \in Seq(Nat \X Nat)
    /\ \A e \in ToSet(t.links) : ToSet(e) \subseteq ToSet(t.claims)
    /\ (t.cited > 0 => t.connected > 0)
    /\ (Alternating(t.walk, shown) /\ t.connected > 0 => Joined(t.chain))
    /\ (t.status = "supported" => t.supporting \cap ToSet(t.links) # {})
    /\ (t.option # None => t.option \in keys.options)

\* What a theory cites are numbers of claims, links and tokens.
WellCited(raw) ==
    raw.claims \in Seq(Nat) /\ raw.links \in Seq(Nat \X Nat) /\ raw.walk \in Seq(Seq(Nat))

\* A theory that validates does.
LEMMA ValidatedFacts ==
    ASSUME NEW raw, WellCited(raw), NEW g, NEW keys,
           NEW shown, \A e \in shown.links : e[1] \in shown.claims /\ e[2] \in shown.claims,
           NEW t, t = Given!Validated(raw, g, shown, keys), t # None
    PROVE  RestsOn(t, shown, keys)
  <1> DEFINE links == Given!Resolve(raw.links, shown.links)
             ends == Given!WithEnds(raw.claims, links, shown)
             supporting == raw.supporting \cap g.supported \cap Given!ToSet(links)
             contradicting == raw.against \cap g.contradicted \cap Given!ToSet(links)
             built == Given!BuildChain(raw.walk, shown, ends, links)
             value == Given!TheoryOfValue(raw, built.chain, g, keys)
             status == Given!SettledStatus(raw.status, supporting, contradicting)
  <1>1. /\ ~(built.cited > 0 /\ built.connected = 0)
        /\ t = [claims |-> ends, links |-> links, supporting |-> supporting, against |-> contradicting,
                chain |-> built.chain, connected |-> built.connected, cited |-> built.cited,
                status |-> status, option |-> value.option, outcomes |-> value.outcomes,
                reaches |-> value.reaches, walk |-> raw.walk]
    BY DEF Given!Validated
  <1>2. links \in Seq(Nat \X Nat) /\ ToSet(links) \subseteq shown.links
    <2>1. raw.links \in Seq(Nat \X Nat)
      BY DEF WellCited
    <2>2. QED
      BY <2>1, ResolveFacts
  <1>3. status = "supported" => supporting # {}
    BY DEF Given!SettledStatus
  <1>4. supporting \subseteq ToSet(links)
    BY GivenOperators
  <1>5. value.option # None => value.option \in keys.options
    BY DEF Given!TheoryOfValue
  <1>6. /\ built.cited \in Nat /\ built.connected \in Nat
        /\ Alternating(raw.walk, shown) /\ built.connected > 0 => Joined(built.chain)
    <2>1. raw.walk \in Seq(Seq(Nat))
      BY DEF WellCited
    <2> HIDE DEF ends, links
    <2>2. QED
      BY <2>1, BuildChainFacts
  <1> HIDE DEF links, supporting, contradicting, built, value, status
  <1>7. \A e \in ToSet(links) : e[1] \in ToSet(ends) /\ e[2] \in ToSet(ends)
    <2>1. raw.claims \in Seq(Nat)
      BY DEF WellCited
    <2>2. \A e \in ToSet(links) : e[1] \in shown.claims /\ e[2] \in shown.claims
      BY <1>2
    <2>3. QED
      BY <1>2, <2>1, <2>2, EndsFacts
  <1> HIDE DEF ends
  <1>8. ASSUME NEW e \in ToSet(links) PROVE ToSet(e) \subseteq ToSet(ends)
    <2>1. e \in Nat \X Nat
      BY <1>2 DEF ToSet
    <2>2. DOMAIN e = 1..2
      BY <2>1
    <2>3. \A i \in DOMAIN e : e[i] = e[1] \/ e[i] = e[2]
      BY <2>2
    <2>4. QED
      BY <1>7, <2>3 DEF ToSet
  <1>9. built.cited > 0 => built.connected > 0
    BY <1>1, <1>6
  <1>10. /\ t.links = links /\ t.claims = ends /\ t.supporting = supporting /\ t.chain = built.chain
         /\ t.connected = built.connected /\ t.cited = built.cited /\ t.status = status
         /\ t.option = value.option /\ t.walk = raw.walk
    BY <1>1
  <1>11. t.status = "supported" => t.supporting \cap ToSet(t.links) # {}
    BY <1>3, <1>4, <1>10
  <1>12. QED
    BY <1>2, <1>5, <1>6, <1>8, <1>9, <1>10, <1>11 DEF RestsOn

\* The theories that are kept rest on what was shown, and no two on the same links.
RestWell(list, shown, keys) ==
    /\ \A i \in DOMAIN list : RestsOn(list[i], shown, keys)
    /\ \A i, j \in DOMAIN list : i # j /\ list[i].links # <<>> => ~Overlap(list[i], list[j])

\* Of two theories on the same links the later one goes.
LEMMA DistinctFacts ==
    ASSUME NEW S, NEW list \in Seq(S), \A t \in S : t.links \in Seq(Nat \X Nat),
           NEW kept, kept = Given!DropDuplicateTheories(list)
    PROVE  /\ kept \in Seq(S)
           /\ \A i, j \in DOMAIN kept : i # j /\ kept[i].links # <<>> => ~Overlap(kept[i], kept[j])
  <1> DEFINE close == {p \in (DOMAIN list) \X (DOMAIN list) : Given!SameLinks(list[p[2]], list[p[1]])}
             first == Firsts(Len(list), close)
             c == Cardinality(first)
  <1>1. kept = Picked(list, first)
    BY GivenOperators DEF Given!DropDuplicateTheories
  <1>2. Len(list) \in Nat /\ DOMAIN list = 1..Len(list)
    OBVIOUS
  <1>3. \A i, j \in DOMAIN list : <<i, j>> \notin close => ~Given!SameLinks(list[j], list[i])
    OBVIOUS
  <1> HIDE DEF close
  <1>4. Sifted(first, Len(list), close)
    BY <1>2, FirstsFacts
  <1>5. /\ first \subseteq DOMAIN list
        /\ \A i, j \in first : i < j => <<i, j>> \notin close
    BY <1>2, <1>4 DEF Sifted
  <1> HIDE DEF first
  <1>6. kept \in Seq(S) /\ Len(kept) = c
    BY <1>1, <1>5, PickedFacts
  <1>7. PICK index : /\ Lists(index, Cardinality(first), first)
                     /\ \A n \in 1..Cardinality(first) : kept[n] = list[index[n]]
    BY <1>1, <1>5, PickedFacts
  <1> HIDE DEF c
  <1>8. DOMAIN kept = 1..c /\ c \in Nat
    <2>1. Len(kept) = c /\ Len(kept) \in Nat /\ DOMAIN kept = 1..Len(kept)
      BY <1>6
    <2>2. QED
      BY <2>1
  <1>9. ASSUME NEW i \in 1..c, NEW j \in 1..c, i < j PROVE ~Given!SameLinks(kept[j], kept[i])
    <2>1. index[i] \in first /\ index[j] \in first /\ index[i] < index[j]
      BY <1>7, <1>9 DEF Lists, c
    <2>2. kept[i] = list[index[i]] /\ kept[j] = list[index[j]]
      BY <1>7 DEF c
    <2>3. QED
      BY <1>3, <1>5, <2>1, <2>2
  <1>10. \A a, b : Given!SameLinks(a, b) = Given!SameLinks(b, a)
    <2>1. ASSUME NEW a, NEW b PROVE Given!SameLinks(a, b) = Given!SameLinks(b, a)
      <3>1. /\ Given!ToSet(a.links) \cup Given!ToSet(b.links) = Given!ToSet(b.links) \cup Given!ToSet(a.links)
            /\ Given!ToSet(a.links) \cap Given!ToSet(b.links) = Given!ToSet(b.links) \cap Given!ToSet(a.links)
        OBVIOUS
      <3>2. QED
        BY <3>1 DEF Given!SameLinks
    <2>2. QED
      BY <2>1
  <1>11. ASSUME NEW i \in 1..c, NEW j \in 1..c, i # j, kept[i].links # <<>>
         PROVE  ~Overlap(kept[i], kept[j])
    <2>1. ~Given!SameLinks(kept[i], kept[j])
      <3>1. i < j \/ j < i
        BY <1>8, <1>11
      <3>2. QED
        BY <1>9, <1>10, <3>1
    <2>2. ToSet(kept[i].links) # {}
      <3>1. kept[i].links \in Seq(Nat \X Nat)
        BY <1>6, <1>8
      <3>2. \A s \in Seq(Nat \X Nat) : s # <<>> => 1 \in DOMAIN s
        OBVIOUS
      <3>3. QED
        BY <1>11, <3>1, <3>2 DEF ToSet
    <2>3. QED
      BY <2>1, <2>2, GivenOperators DEF Overlap, Given!SameLinks
  <1>12. QED
    BY <1>6, <1>8, <1>11

\* All of an answer.
LEMMA ValidateFacts ==
    ASSUME NEW raws, raws \in Seq(ToSet(raws)), \A raw \in ToSet(raws) : WellCited(raw),
           NEW g, NEW keys,
           NEW shown, \A e \in shown.links : e[1] \in shown.claims /\ e[2] \in shown.claims,
           NEW kept, kept = Given!ValidateTheories(raws, g, shown, keys)
    PROVE  RestWell(kept, shown, keys)
  <1> DEFINE validated == [i \in DOMAIN raws |-> Given!Validated(raws[i], g, shown, keys)]
             some == {i \in DOMAIN raws : validated[i] # None}
             S == {t \in {validated[i] : i \in DOMAIN raws} : t # None}
             V == S \cup {None}
             list == Picked(validated, some)
  <1>1. kept = Given!DropDuplicateTheories(list)
    BY GivenOperators DEF Given!ValidateTheories
  <1>2. \A i \in DOMAIN raws : validated[i] # None => RestsOn(validated[i], shown, keys)
    <2>1. ASSUME NEW i \in DOMAIN raws, validated[i] # None PROVE RestsOn(validated[i], shown, keys)
      <3>1. validated[i] = Given!Validated(raws[i], g, shown, keys)
        OBVIOUS
      <3>2. WellCited(raws[i])
        BY DEF ToSet
      <3> HIDE DEF validated
      <3>3. QED
        BY <2>1, <3>1, <3>2, ValidatedFacts
    <2>2. QED
      BY <2>1
  <1>3. validated \in Seq(V) /\ DOMAIN validated = DOMAIN raws
    <2>1. DOMAIN raws = 1..Len(raws) /\ Len(raws) \in Nat
      OBVIOUS
    <2>2. validated \in [1..Len(raws) -> V]
      <3>1. \A i \in DOMAIN raws : validated[i] \in V
        OBVIOUS
      <3>2. validated = [i \in DOMAIN raws |-> validated[i]]
        OBVIOUS
      <3> HIDE DEF validated, V
      <3>3. QED
        BY <2>1, <3>1, <3>2
    <2> HIDE DEF validated, V
    <2>3. QED
      BY <2>1, <2>2, FunctionsAreSequences
  <1> HIDE DEF validated
  <1>4. \A t \in S : RestsOn(t, shown, keys) /\ t.links \in Seq(Nat \X Nat)
    BY <1>2 DEF RestsOn
  <1>5. list \in Seq(S)
    <2>1. list \in Seq(V) /\ \A n \in 1..Len(list) : \E i \in some : list[n] = validated[i]
      <3>1. some \subseteq DOMAIN validated
        BY <1>3
      <3> HIDE DEF some, V
      <3>2. QED
        BY <1>3, <3>1, PickedFacts, PickedIsIn
    <2>2. \A i \in some : validated[i] \in S
      OBVIOUS
    <2> HIDE DEF list, S, V, some
    <2>3. \A n \in 1..Len(list) : list[n] \in S
      BY <2>1, <2>2
    <2>4. list \in [1..Len(list) -> S] /\ Len(list) \in Nat
      BY <2>1, <2>3
    <2>5. QED
      BY <2>4, FunctionsAreSequences
  <1> HIDE DEF list, S
  <1>6. /\ kept \in Seq(S)
        /\ \A i, j \in DOMAIN kept : i # j /\ kept[i].links # <<>> => ~Overlap(kept[i], kept[j])
    BY <1>1, <1>4, <1>5, DistinctFacts
  <1>7. \A i \in DOMAIN kept : kept[i] \in S
    BY <1>6
  <1>8. QED
    BY <1>4, <1>6, <1>7 DEF RestWell

\* What is shown to a generation is what is selected of the graph with the
\* outcomes it read, and there are no theories before it is over.
Generating ==
    /\ DOMAIN generation = {"phase", "outcomes", "keys", "shown"}
    /\ generation.phase # "done" => theories = <<>>
    /\ generation.phase # "none" =>
         /\ generation.outcomes \in SUBSET (1..MaxItems)
         /\ generation.shown = Given!SelectSubgraph(Snapshot(generation.outcomes))
    /\ generation.phase = "done" => RestWell(theories, generation.shown, generation.keys)

\* What is shown of the graph with these outcomes.
LEMMA SnapshotShows ==
    ASSUME NEW k \in SUBSET (1..MaxItems)
    PROVE  ShowsWell(Given!SelectSubgraph(Snapshot(k)), {NodeNumber(x) : x \in k})
  <1>1. /\ Whole(Snapshot(k)) /\ IsFiniteSet(Given!OutcomesOf(Snapshot(k)))
        /\ Given!OutcomesOf(Snapshot(k)) = {NodeNumber(x) : x \in k}
    BY SnapshotFacts
  <1>2. QED
    BY <1>1, SelectFacts

\* At first nothing is generated.
LEMMA InitGenerating == Init => Generating
  BY DEF Init, Generating

\* What is shown is selected of the graph that is read.
LEMMA GeneratingAskTheories == Generating /\ AskTheories => Generating'
  <1>1. SUFFICES ASSUME Generating, AskTheories PROVE Generating'
    OBVIOUS
  <1>2. PICK context \in Contexts :
           generation' = [phase |-> "waiting", keys |-> AnchorKeys(project.anchor),
                          outcomes |-> context.outcomes, shown |-> context.shown]
    BY <1>1 DEF AskTheories
  <1>3. /\ context.outcomes \in SUBSET (1..MaxItems)
        /\ context.shown = Given!SelectSubgraph(Snapshot(context.outcomes))
    <2>1. PICK k \in SUBSET (1..MaxItems) :
             context = [outcomes |-> k, shown |-> Given!SelectSubgraph(Snapshot(k))]
      BY DEF Contexts
    <2>2. context.outcomes = k /\ context.shown = Given!SelectSubgraph(Snapshot(k))
      BY <2>1
    <2>3. QED
      BY <2>2
  <1>4. theories' = <<>>
    BY <1>1 DEF AskTheories, Generating
  <1>5. QED
    BY <1>2, <1>3, <1>4 DEF Generating

\* Whatever the model answers, what is kept is validated against what was shown.
LEMMA GeneratingStoreTheories == Generating /\ StoreTheories => Generating'
  <1>1. SUFFICES ASSUME Generating, StoreTheories PROVE Generating'
    OBVIOUS
  <1>2. PICK raws \in RawTheories :
           theories' = Given!ValidateTheories(raws, Snapshot(generation.outcomes), generation.shown,
                                              generation.keys)
    BY <1>1 DEF StoreTheories
  <1>3. generation' = [generation EXCEPT !.phase = "done"]
    BY <1>1 DEF StoreTheories
  <1>4. /\ generation.outcomes \in SUBSET (1..MaxItems)
        /\ generation.shown = Given!SelectSubgraph(Snapshot(generation.outcomes))
        /\ DOMAIN generation = {"phase", "outcomes", "keys", "shown"}
    BY <1>1 DEF StoreTheories, Generating
  <1>5. \A e \in generation.shown.links : e[1] \in generation.shown.claims /\ e[2] \in generation.shown.claims
    BY <1>4, SnapshotShows DEF ShowsWell
  <1>6. raws \in Seq(ToSet(raws)) /\ \A raw \in ToSet(raws) : WellCited(raw)
    BY RawsAssumption DEF WellCited
  <1>7. RestWell(theories', generation.shown, generation.keys)
    BY <1>2, <1>5, <1>6, ValidateFacts
  <1>8. /\ DOMAIN generation' = {"phase", "outcomes", "keys", "shown"} /\ generation'.phase = "done"
        /\ generation'.outcomes = generation.outcomes /\ generation'.shown = generation.shown
        /\ generation'.keys = generation.keys
    BY <1>3, <1>4
  <1>9. QED
    BY <1>4, <1>7, <1>8 DEF Generating

\* The other steps are none of a generation.
LEMMA GeneratingNext == Generating /\ [Next]_vars => Generating'
  <1>1. SUFFICES ASSUME Generating, [Next]_vars PROVE Generating'
    OBVIOUS
  <1>2. ASSUME UNCHANGED <<generation, theories>> PROVE Generating'
    BY <1>1, <1>2 DEF Generating
  <1>3. ASSUME NEW a \in Asks, AskQuestions(a) \/ NothingAsked(a) \/ ClearQuestions(a) \/ StoreQuestions(a)
        PROVE  Generating'
    BY <1>2, <1>3 DEF AskQuestions, NothingAsked, ClearQuestions, StoreQuestions
  <1>4. CASE GetIntake \/ StartAnalysis
    BY <1>2, <1>4 DEF GetIntake, StartAnalysis
  <1>5. CASE AskDraft \/ StoreDraft \/ SetDecisionObjective("stated")
    BY <1>2, <1>5 DEF AskDraft, StoreDraft, SetDecisionObjective
  <1>6. CASE SaveAnchor \/ SyncOutcomeNodes \/ RescoreClaims \/ BreakOff
    BY <1>2, <1>6 DEF SaveAnchor, SyncOutcomeNodes, RescoreClaims, BreakOff
  <1>7. CASE ResolveAnchor \/ DraftForRun \/ Complete
    BY <1>2, <1>7 DEF ResolveAnchor, DraftForRun, Complete
  <1>8. CASE UNCHANGED vars
    BY <1>2, <1>8 DEF vars
  <1>9. QED
    BY <1>1, <1>3, <1>4, <1>5, <1>6, <1>7, <1>8, GeneratingAskTheories, GeneratingStoreTheories DEF Next

\* The invariant says what is promised.
LEMMA GeneratingHolds == Generating => GenerationsHold
  <1>1. SUFFICES ASSUME Generating PROVE GenerationsHold
    OBVIOUS
  <1>2. DestinationIsShown
    <2>1. SUFFICES ASSUME generation.phase # "none" PROVE DestinationIsShown
      BY DEF DestinationIsShown
    <2> DEFINE shown == generation.shown
               sought == {NodeNumber(k) : k \in generation.outcomes}
    <2>2. ShowsWell(shown, sought)
      BY <1>1, <2>1, SnapshotShows DEF Generating
    <2> HIDE DEF shown, sought
    <2>3. \A e \in shown.links : ToSet(e) \subseteq shown.claims
      <3>1. ASSUME NEW e \in shown.links PROVE ToSet(e) \subseteq shown.claims
        <4>1. e \in Nat \X Nat /\ e[1] \in shown.claims /\ e[2] \in shown.claims
          BY <2>2 DEF ShowsWell
        <4>2. \A i \in DOMAIN e : e[i] = e[1] \/ e[i] = e[2]
          BY <4>1
        <4>3. QED
          BY <4>1, <4>2 DEF ToSet
      <3>2. QED
        BY <3>1
    <2>4. /\ sought \subseteq shown.claims /\ Cardinality(shown.links) <= MaxLinks
          /\ Cardinality(shown.claims) <= MaxClaims + MaxClaims \div 2 + Cardinality(sought)
      BY <2>2 DEF ShowsWell
    <2>5. QED
      BY <2>3, <2>4 DEF DestinationIsShown, shown, sought
  <1>3. TheoriesHold
    <2>1. CASE generation.phase = "done"
      <3>1. RestWell(theories, generation.shown, generation.keys)
        BY <1>1, <2>1 DEF Generating
      <3>2. \A walk : Alternates(walk) = Alternating(walk, generation.shown)
        BY DEF Alternates, Alternating
      <3>3. QED
        BY <3>1, <3>2 DEF TheoriesHold, RestWell, RestsOn
    <2>2. CASE generation.phase # "done"
      <3>1. DOMAIN theories = {}
        BY <1>1, <2>2 DEF Generating
      <3>2. QED
        BY <3>1 DEF TheoriesHold
    <2>3. QED
      BY <2>1, <2>2
  <1>4. QED
    BY <1>2, <1>3 DEF GenerationsHold

\* GenerationsHold, for any graph, any outcomes and any answer of the model:
\* what a generation is shown leads to what is sought and stays within its
\* bounds, and what is kept of the answer rests on what was shown.
THEOREM GenerationsStay == Spec => []GenerationsHold
  <1>1. QED
    BY InitGenerating, GeneratingNext, GeneratingHolds, PTL DEF Spec
=============================================================================
